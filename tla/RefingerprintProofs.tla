------------------------- MODULE RefingerprintProofs ------------------------
(***************************************************************************)
(* The batch with any manifests, threads and runs: what a kill may leave   *)
(* in the directory, what a finished run leaves, and that the directory    *)
(* goes through the steps of Batch and no others.                          *)
(*                                                                         *)
(* The invariant ties each line's phase to its files, and what is on disk  *)
(* to the manifest in the marker, so that it outlives the process.         *)
(***************************************************************************)
EXTENDS Refingerprint, SharedLemmas

Levels(t) == 1 .. Len(stack[t])

RunIsKnown ==
    /\ pc # "idle" => manifest \in Manifests /\ status = "none"
    /\ pc \in {"scan", "work", "report"} => marker = manifest
    /\ pc = "bind" => marker = None
    /\ pc \notin {"work", "report"} =>
          (\A i \in Ids : phase[i] = "none") /\ (\A t \in Threads : stack[t] = <<>>)

\* A line that is being worked on is on one stack, at one place.
StacksAreKnown ==
    /\ \A t \in Threads : \A p \in Levels(t) :
          phase[stack[t][p]] \in {"decode", "bands", "prints", "metadata", "sync"}
    /\ \A s, t \in Threads : \A p \in Levels(s), q \in Levels(t) :
          stack[s][p] = stack[t][q] => s = t /\ p = q

\* What is on disk, whether or not a run is in progress.
FilesAreKnown ==
    \A i \in Ids :
        /\ metas[i] # None =>
              /\ prints[i] # None
              /\ metas[i] = [key |-> marker[i].key, prints |-> marker[i].audio]
        /\ prints[i] # None =>
              /\ marker \in Manifests
              /\ i \in DOMAIN marker
              /\ prints[i] = marker[i].audio

PhasesAreKnown ==
    pc \in {"work", "report"} =>
        \A i \in Ids :
            /\ phase[i] = "none" => i \notin DOMAIN manifest \/ metas[i] # None
            /\ phase[i] # "none" => i \in DOMAIN manifest
            /\ phase[i] \in {"queued", "decode", "bands", "prints", "metadata", "failed"} =>
                  metas[i] = None
            /\ phase[i] \in {"sync", "done"} => metas[i] # None
            /\ phase[i] = "metadata" => prints[i] # None
            /\ pc = "report" => phase[i] \in {"none", "done", "failed"}

PartialsAreKnown ==
    /\ \A x \in partials :
          \/ x \in {MarkerPartial, FailuresPartial}
          \/ \E i \in Ids : x \in {Partial("tdb", i), Partial("meta", i)}
    /\ MarkerPartial \in partials => marker = None
    /\ \A i \in Ids :
          /\ Partial("tdb", i) \in partials =>
                /\ metas[i] = None
                /\ marker \in Manifests
                /\ i \in DOMAIN marker
                /\ phase[i] \notin {"metadata", "sync", "done"}
          /\ Partial("meta", i) \in partials => metas[i] = None /\ prints[i] # None

Known ==
    /\ RunIsKnown
    /\ FilesAreKnown
    /\ PhasesAreKnown
    /\ PartialsAreKnown
    /\ FinishedRunIsClean

IInv == TypeOK /\ StacksAreKnown /\ Known

-----------------------------------------------------------------------------
(* Partial files have different names.                                     *)

LEMMA PartialsDiffer ==
    ASSUME NEW f, NEW g, NEW i, NEW j
    PROVE  /\ Partial(f, i) = Partial(g, j) <=> f = g /\ i = j
           /\ MarkerPartial = Partial("marker", 0)
           /\ FailuresPartial = Partial("failures", 0)
BY DEF Partial, MarkerPartial, FailuresPartial

LEMMA ManifestLines ==
    ASSUME NEW m \in Manifests, NEW i \in DOMAIN m
    PROVE  /\ i \in Ids
           /\ m # None
           /\ m[i] = [key |-> m[i].key, audio |-> m[i].audio]
           /\ m[i].audio \in Audio
           /\ m[i].audio # None
           /\ m[i] # None
           /\ [key |-> m[i].key, prints |-> m[i].audio] \in Metas
           /\ [key |-> m[i].key, prints |-> m[i].audio] # None
BY ManifestsAssumption, NoneAssumption DEF Metas

-----------------------------------------------------------------------------
(* Types and stacks.                                                       *)

LEMMA RunningIsOnTop ==
    ASSUME TypeOK, NEW t \in Threads, NEW i, Running(t, i)
    PROVE  /\ stack[t] \in Seq(Ids)
           /\ stack[t] # <<>>
           /\ Len(stack[t]) \in Levels(t)
           /\ stack[t][Len(stack[t])] = i
BY DEF TypeOK, Running, Busy, Last, Levels

\* The running line goes on.
LEMMA MoveKeepsStacks ==
    ASSUME TypeOK, StacksAreKnown, NEW i \in Ids, UNCHANGED stack,
           NEW p \in {"bands", "prints", "metadata", "sync"}, Goto(i, p)
    PROVE  StacksAreKnown'
<1>1. phase' = [phase EXCEPT ![i] = p] /\ phase \in [Ids -> Phases]
  BY DEF Goto, TypeOK
<1>2. \A t \in Threads : \A q \in Levels(t) : stack[t][q] \in Ids
  BY ElementOfSeq DEF TypeOK, Levels
<1>3. QED
  BY <1>1, <1>2 DEF StacksAreKnown, Levels

\* The running line ends, well or not.
LEMMA PopKeepsStacks ==
    ASSUME TypeOK, StacksAreKnown, NEW t \in Threads, NEW i \in Ids, Running(t, i), Pop(t),
           NEW p \in Phases, Goto(i, p)
    PROVE  StacksAreKnown' /\ stack' \in [Threads -> Seq(Ids)]
<1> DEFINE n == Len(stack[t])
<1>1. /\ stack[t] \in Seq(Ids)
      /\ stack[t] # <<>>
      /\ n \in Levels(t)
      /\ stack[t][n] = i
      /\ stack \in [Threads -> Seq(Ids)]
      /\ phase \in [Ids -> Phases]
  BY RunningIsOnTop DEF TypeOK
<1>2. /\ n \in Nat \ {0}
      /\ Front(stack[t]) \in Seq(Ids)
      /\ stack'[t] = Front(stack[t])
      /\ Len(stack'[t]) = n - 1
      /\ \A q \in 1 .. n - 1 : stack'[t][q] = stack[t][q]
      /\ \A s \in Threads \ {t} : stack'[s] = stack[s]
  BY <1>1, Popped DEF Pop
<1>3. stack' \in [Threads -> Seq(Ids)]
  BY <1>1, <1>2 DEF Pop
<1>4. phase' = [phase EXCEPT ![i] = p]
  BY DEF Goto
<1>5. \A s \in Threads : \A q \in Levels(s)' :
          q \in Levels(s) /\ stack'[s][q] = stack[s][q] /\ stack[s][q] # i /\ stack[s][q] \in Ids
  <2> SUFFICES ASSUME NEW s \in Threads, NEW q \in Levels(s)'
               PROVE  /\ q \in Levels(s)
                      /\ stack'[s][q] = stack[s][q]
                      /\ stack[s][q] # i
                      /\ stack[s][q] \in Ids
    OBVIOUS
  <2>1. q \in Levels(s) /\ stack'[s][q] = stack[s][q] /\ (s = t => q # n)
    BY <1>2 DEF Levels
  <2>2. stack[s][q] \in Ids
    BY <2>1, <1>1, ElementOfSeq DEF Levels
  <2>3. QED
    BY <2>1, <2>2, <1>1 DEF StacksAreKnown
<1>6. StacksAreKnown'
  BY <1>1, <1>4, <1>5 DEF StacksAreKnown
<1>7. QED
  BY <1>3, <1>6

LEMMA TakeKeepsStacks ==
    ASSUME TypeOK, StacksAreKnown, NEW t \in Threads, NEW i \in Ids, Take(t, i)
    PROVE  StacksAreKnown' /\ stack' \in [Threads -> Seq(Ids)]
<1> DEFINE n == Len(stack[t])
<1>1. /\ stack[t] \in Seq(Ids)
      /\ stack \in [Threads -> Seq(Ids)]
      /\ phase \in [Ids -> Phases]
      /\ phase[i] = "queued"
      /\ phase' = [phase EXCEPT ![i] = "decode"]
  BY DEF TypeOK, Take, Goto
<1>2. /\ n \in Nat
      /\ Append(stack[t], i) \in Seq(Ids)
      /\ stack'[t] = Append(stack[t], i)
      /\ Len(stack'[t]) = n + 1
      /\ \A q \in 1 .. n : stack'[t][q] = stack[t][q]
      /\ stack'[t][n + 1] = i
      /\ \A s \in Threads \ {t} : stack'[s] = stack[s]
  BY <1>1, Pushed, LenProperties DEF Take
<1>3. stack' \in [Threads -> Seq(Ids)]
  BY <1>1, <1>2 DEF Take
<1>4. \A s \in Threads : \A q \in Levels(s) : stack[s][q] # i /\ stack[s][q] \in Ids
  BY <1>1, ElementOfSeq DEF StacksAreKnown, Levels
<1>5. \A s \in Threads : \A q \in Levels(s)' :
          \/ s = t /\ q = n + 1 /\ stack'[s][q] = i
          \/ q \in Levels(s) /\ stack'[s][q] = stack[s][q] /\ stack[s][q] # i /\ stack[s][q] \in Ids
  BY <1>2, <1>4 DEF Levels
<1>6. StacksAreKnown'
  <2>1. \A s \in Threads : \A q \in Levels(s)' :
            phase'[stack'[s][q]] \in {"decode", "bands", "prints", "metadata", "sync"}
    BY <1>1, <1>5 DEF StacksAreKnown
  <2>2. \A r, s \in Threads : \A p \in Levels(r)', q \in Levels(s)' :
            stack'[r][p] = stack'[s][q] => r = s /\ p = q
    BY <1>5 DEF StacksAreKnown
  <2>3. QED
    BY <2>1, <2>2 DEF StacksAreKnown
<1>7. QED
  BY <1>3, <1>6

LEMMA ExitedKeepsStacks ==
    ASSUME NEW how \in {"ok", "error", "killed", "foreign", "invalid"}, TypeOK, Exited(how)
    PROVE  /\ StacksAreKnown'
           /\ stack' \in [Threads -> Seq(Ids)]
           /\ phase' \in [Ids -> Phases]
           /\ helping' \in [Threads -> Ids \union {None}]
           /\ \A t \in Threads : stack'[t] = <<>>
<1>1. \A t \in Threads : stack'[t] = <<>> /\ Len(stack'[t]) = 0
  BY EmptySeq DEF Exited
<1>2. StacksAreKnown'
  BY <1>1 DEF StacksAreKnown, Levels
<1>3. QED
  BY <1>1, <1>2, EmptySeq DEF Exited, Phases

\* A line on a stack is being worked on by a run that owns the directory.
LEMMA RunningIsKnown ==
    ASSUME IInv, NEW t \in Threads, NEW i \in Ids, Running(t, i)
    PROVE  /\ pc = "work"
           /\ marker = manifest /\ manifest \in Manifests /\ i \in DOMAIN manifest
           /\ phase[i] \in {"decode", "bands", "prints", "metadata", "sync"}
           /\ status = "none"
<1>1. TypeOK /\ StacksAreKnown /\ RunIsKnown /\ PhasesAreKnown
  BY DEF IInv, Known
<1>2. /\ stack[t] # <<>>
      /\ phase[i] \in {"decode", "bands", "prints", "metadata", "sync"}
  BY <1>1, RunningIsOnTop DEF StacksAreKnown
<1>3. pc \in {"work", "report"}
  BY <1>1, <1>2 DEF RunIsKnown
<1>4. i \in DOMAIN manifest /\ pc # "report"
  BY <1>1, <1>2, <1>3 DEF PhasesAreKnown
<1>5. QED
  BY <1>1, <1>2, <1>3, <1>4 DEF RunIsKnown

LEMMA ProcessOneKeepsTypes ==
    ASSUME IInv, NEW t \in Threads, NEW i \in Ids, ProcessOne(t, i)
    PROVE  TypeOK' /\ StacksAreKnown'
<1>1. TypeOK /\ StacksAreKnown
  BY DEF IInv
<1>2. CASE Take(t, i)
  <2>1. StacksAreKnown' /\ stack' \in [Threads -> Seq(Ids)]
    BY <1>1, <1>2, TakeKeepsStacks
  <2>2. QED
    BY <1>1, <1>2, <2>1 DEF Take, TypeOK, Goto, Phases, Partial
<1>3. CASE Decode(t, i)
  <2>1. CASE phase' \in { [phase EXCEPT ![i] = p] : p \in {"bands", "prints"} }
              /\ UNCHANGED <<partials, stack>>
    <3>1. PICK p \in {"bands", "prints"} : Goto(i, p)
      BY <2>1 DEF Goto
    <3>2. StacksAreKnown'
      BY <1>1, <2>1, <3>1, MoveKeepsStacks
    <3>3. QED
      BY <1>1, <1>3, <2>1, <3>1, <3>2 DEF Decode, TypeOK, Goto, Phases
  <2>2. CASE Goto(i, "failed") /\ Pop(t) /\ partials' \subseteq partials
    <3>1. StacksAreKnown' /\ stack' \in [Threads -> Seq(Ids)]
      BY <1>1, <1>3, <2>2, PopKeepsStacks DEF Phases, Decode, At
    <3>2. QED
      BY <1>1, <1>3, <2>2, <3>1 DEF Decode, TypeOK, Goto, Phases
  <2>3. QED
    BY <1>3, <2>1, <2>2 DEF Decode
<1>4. CASE Help(t, i)
  BY <1>1, <1>4 DEF Help, TypeOK, StacksAreKnown, Levels, disk
<1>5. CASE MapBands(t, i)
  <2>1. Goto(i, "prints") /\ UNCHANGED stack
    BY <1>5 DEF MapBands, Following
  <2>2. StacksAreKnown'
    BY <1>1, <2>1, MoveKeepsStacks
  <2>3. QED
    BY <1>1, <1>5, <2>1, <2>2 DEF MapBands, TypeOK, Goto, Phases, disk
<1>6. CASE PublishPrints(t, i)
  <2>1. Goto(i, "metadata") /\ UNCHANGED stack /\ Running(t, i)
    BY <1>6 DEF PublishPrints, Following, At
  <2>2. StacksAreKnown'
    BY <1>1, <2>1, MoveKeepsStacks
  <2>3. prints' \in [Ids -> Audio \union {None}]
    BY <1>1, <1>6, <2>1, RunningIsKnown, ManifestLines DEF PublishPrints, TypeOK
  <2>4. QED
    BY <1>1, <1>6, <2>1, <2>2, <2>3 DEF PublishPrints, TypeOK, Goto, Phases
<1>7. CASE WriteMetadata(t, i)
  BY <1>1, <1>7 DEF WriteMetadata, TypeOK, StacksAreKnown, Levels, pool, Partial
<1>8. CASE PublishMetadata(t, i)
  <2>1. Goto(i, "sync") /\ UNCHANGED stack /\ Running(t, i)
    BY <1>8 DEF PublishMetadata, Following, At
  <2>2. StacksAreKnown'
    BY <1>1, <2>1, MoveKeepsStacks
  <2>3. metas' \in [Ids -> Metas \union {None}]
    BY <1>1, <1>8, <2>1, RunningIsKnown, ManifestLines DEF PublishMetadata, TypeOK, Meta
  <2>4. QED
    BY <1>1, <1>8, <2>1, <2>2, <2>3 DEF PublishMetadata, TypeOK, Goto, Phases
<1>9. CASE SyncDirectory(t, i)
  <2>1. Goto(i, "done") /\ Pop(t) /\ Running(t, i)
    BY <1>9 DEF SyncDirectory, At
  <2>2. StacksAreKnown' /\ stack' \in [Threads -> Seq(Ids)]
    BY <1>1, <2>1, PopKeepsStacks DEF Phases
  <2>3. QED
    BY <1>1, <1>9, <2>1, <2>2 DEF SyncDirectory, TypeOK, Goto, Phases, disk
<1>10. CASE Break(t, i)
  <2>1. Goto(i, "error") /\ Pop(t) /\ Running(t, i)
    BY <1>10 DEF Break
  <2>2. StacksAreKnown' /\ stack' \in [Threads -> Seq(Ids)]
    BY <1>1, <2>1, PopKeepsStacks DEF Phases
  <2>3. QED
    BY <1>1, <1>10, <2>1, <2>2 DEF Break, TypeOK, Goto, Phases, disk
<1>11. QED
  BY <1>2, <1>3, <1>4, <1>5, <1>6, <1>7, <1>8, <1>9, <1>10 DEF ProcessOne

LEMMA NextKeepsTypes == IInv /\ [Next]_vars => TypeOK' /\ StacksAreKnown'
<1> SUFFICES ASSUME IInv, [Next]_vars
             PROVE  TypeOK' /\ StacksAreKnown'
  OBVIOUS
<1>1. TypeOK /\ StacksAreKnown /\ RunIsKnown
  BY DEF IInv, Known
<1>2. CASE UNCHANGED vars
  BY <1>1, <1>2 DEF vars, disk, pool, TypeOK, StacksAreKnown, Levels
<1>3. CASE Start
  <2>1. runs' \in 0 .. MaxRuns
    BY <1>1, <1>3, MaxRunsAssumption DEF Start, TypeOK
  <2>2. QED
    BY <1>1, <1>3, <2>1 DEF Start, disk, pool, TypeOK, StacksAreKnown, Levels
<1>4. ASSUME NEW how \in {"ok", "error", "killed", "foreign", "invalid"}, Exited(how),
             UNCHANGED <<marker, prints, metas>>, partials' \subseteq partials,
             failures' \in (SUBSET Ids) \union {None}
      PROVE  TypeOK' /\ StacksAreKnown'
  BY <1>1, <1>4, ExitedKeepsStacks DEF Exited, TypeOK
<1>5. CASE PinManifest
  <2>1. CASE Exited("foreign") /\ UNCHANGED disk
    BY <1>1, <1>4, <2>1 DEF disk, TypeOK
  <2>2. CASE UNCHANGED <<stack, phase>>
    BY <1>1, <1>5, <2>2 DEF PinManifest, disk, pool, TypeOK, StacksAreKnown, Levels, MarkerPartial,
       Partial, Exited
  <2>3. QED
    BY <1>5, <2>1, <2>2 DEF PinManifest, pool
<1>6. CASE Bind
  BY <1>1, <1>6 DEF Bind, pool, TypeOK, StacksAreKnown, Levels, RunIsKnown
<1>7. CASE Scan
  <2>1. CASE Exited("invalid") /\ UNCHANGED disk
    BY <1>1, <1>4, <2>1 DEF disk, TypeOK
  <2>2. CASE ~(Exited("invalid") /\ UNCHANGED disk)
    <3>1. /\ phase' = [i \in Ids |->
                         IF i \in DOMAIN manifest /\ metas[i] = None THEN "queued" ELSE "none"]
          /\ pc' = "work"
          /\ UNCHANGED <<disk, decodable, manifest, stack, helping, status, runs>>
      BY <1>7, <2>2 DEF Scan
    <3>2. \A t \in Threads : stack[t] = <<>>
      BY <1>1, <1>7 DEF Scan, RunIsKnown
    <3>3. StacksAreKnown'
      BY <3>1, <3>2, EmptySeq DEF StacksAreKnown, Levels
    <3>4. QED
      BY <1>1, <3>1, <3>3 DEF disk, TypeOK, Phases
  <2>3. QED
    BY <2>1, <2>2
<1>8. CASE Collect
  <2>1. CASE Exited("error") /\ UNCHANGED disk
    BY <1>1, <1>4, <2>1 DEF disk, TypeOK
  <2>2. CASE ~(Exited("error") /\ UNCHANGED disk)
    BY <1>1, <1>8, <2>2 DEF Collect, pool, TypeOK, StacksAreKnown, Levels, FailuresPartial, Partial
  <2>3. QED
    BY <2>1, <2>2
<1>9. CASE WriteFailures
  BY <1>4, <1>9 DEF WriteFailures, Failed
<1>10. CASE Kill
  BY <1>1, <1>4, <1>10 DEF Kill, disk, TypeOK
<1>11. CASE Repair
  <2>1. decodable' \subseteq Audio
    BY <1>1, <1>11 DEF Repair, TypeOK
  <2>2. UNCHANGED <<disk, pc, manifest, pool, status, runs>>
    BY <1>11 DEF Repair
  <2>3. QED
    BY <1>1, <2>1, <2>2 DEF disk, pool, TypeOK, StacksAreKnown, Levels
<1>12. ASSUME NEW t \in Threads, FinishHelp(t) PROVE TypeOK' /\ StacksAreKnown'
  BY <1>1, <1>12 DEF FinishHelp, disk, TypeOK, StacksAreKnown, Levels
<1>13. QED
  BY <1>2, <1>3, <1>5, <1>6, <1>7, <1>8, <1>9, <1>10, <1>11, <1>12, ProcessOneKeepsTypes DEF Next

-----------------------------------------------------------------------------
(* A step of a thread on a line.                                           *)

LEMMA ProcessOneKeepsKnown ==
    ASSUME IInv, NEW t \in Threads, NEW i \in Ids, ProcessOne(t, i)
    PROVE  Known'
<1>1. TypeOK /\ Known /\ RunIsKnown /\ FilesAreKnown /\ PhasesAreKnown /\ PartialsAreKnown
  BY DEF IInv, Known
<1>2. pc = "work" /\ UNCHANGED <<pc, manifest, status, marker, decodable, failures>>
  BY RunningIsKnown
     DEF ProcessOne, Take, Decode, Help, MapBands, PublishPrints, WriteMetadata, PublishMetadata,
         SyncDirectory, Break, At, Free, disk, pool
<1>3. /\ status = "none" /\ marker = manifest /\ manifest \in Manifests
      /\ phase \in [Ids -> Phases] /\ prints \in [Ids -> Audio \union {None}]
      /\ metas \in [Ids -> Metas \union {None}]
  BY <1>1, <1>2 DEF RunIsKnown, TypeOK
<1>4. RunIsKnown' /\ FinishedRunIsClean'
  BY <1>1, <1>2, <1>3 DEF RunIsKnown, FinishedRunIsClean
<1>5. SUFFICES FilesAreKnown' /\ PhasesAreKnown' /\ PartialsAreKnown'
  BY <1>4 DEF Known
<1>6. CASE Take(t, i)
  <2>1. /\ phase[i] = "queued"
        /\ phase' = [phase EXCEPT ![i] = "decode"]
        /\ partials' = partials \union {Partial("tdb", i)}
        /\ UNCHANGED <<prints, metas>>
    BY <1>6 DEF Take, Goto
  <2>2. i \in DOMAIN manifest /\ metas[i] = None
    BY <1>1, <1>2, <2>1 DEF PhasesAreKnown
  <2>3. FilesAreKnown'
    BY <1>1, <1>2, <2>1 DEF FilesAreKnown
  <2>4. PhasesAreKnown'
    BY <1>1, <1>2, <1>3, <2>1, <2>2 DEF PhasesAreKnown
  <2>5. PartialsAreKnown'
    BY <1>1, <1>2, <1>3, <2>1, <2>2, PartialsDiffer DEF PartialsAreKnown
  <2>6. QED
    BY <2>3, <2>4, <2>5
<1>7. CASE Decode(t, i)
  <2>1. phase[i] = "decode" /\ UNCHANGED <<prints, metas>>
    BY <1>7 DEF Decode, At
  <2>2. i \in DOMAIN manifest /\ metas[i] = None
    BY <1>1, <1>2, <2>1 DEF PhasesAreKnown
  <2>3. FilesAreKnown'
    BY <1>1, <1>2, <2>1 DEF FilesAreKnown
  <2>4. PICK p \in {"bands", "prints", "failed"} :
            phase' = [phase EXCEPT ![i] = p] /\ partials' \subseteq partials
    BY <1>7 DEF Decode, Goto
  <2>5. PhasesAreKnown'
    BY <1>1, <1>2, <1>3, <2>1, <2>2, <2>4 DEF PhasesAreKnown
  <2>6. PartialsAreKnown'
    BY <1>1, <1>2, <1>3, <2>1, <2>4 DEF PartialsAreKnown
  <2>7. QED
    BY <2>3, <2>5, <2>6
<1>8. CASE Help(t, i)
  BY <1>1, <1>2, <1>8 DEF Help, disk, FilesAreKnown, PhasesAreKnown, PartialsAreKnown
<1>9. CASE MapBands(t, i)
  <2>1. /\ phase[i] = "bands"
        /\ phase' = [phase EXCEPT ![i] = "prints"]
        /\ UNCHANGED <<prints, metas, partials>>
    BY <1>9 DEF MapBands, At, Goto, Following, disk
  <2>2. FilesAreKnown'
    BY <1>1, <1>2, <2>1 DEF FilesAreKnown
  <2>3. PhasesAreKnown'
    BY <1>1, <1>2, <1>3, <2>1 DEF PhasesAreKnown
  <2>4. PartialsAreKnown'
    BY <1>1, <1>2, <1>3, <2>1 DEF PartialsAreKnown
  <2>5. QED
    BY <2>2, <2>3, <2>4
<1>10. CASE PublishPrints(t, i)
  <2>1. /\ phase[i] = "prints"
        /\ phase' = [phase EXCEPT ![i] = "metadata"]
        /\ prints' = [prints EXCEPT ![i] = manifest[i].audio]
        /\ partials' = partials \ {Partial("tdb", i)}
        /\ UNCHANGED metas
    BY <1>10 DEF PublishPrints, At, Goto, Following
  <2>2. i \in DOMAIN manifest /\ metas[i] = None
    BY <1>1, <1>2, <2>1 DEF PhasesAreKnown
  <2>3. manifest[i].audio # None
    BY <1>3, <2>2, ManifestLines
  <2>4. FilesAreKnown'
    BY <1>1, <1>2, <1>3, <2>1, <2>2, <2>3 DEF FilesAreKnown
  <2>5. PhasesAreKnown'
    BY <1>1, <1>2, <1>3, <2>1, <2>2, <2>3 DEF PhasesAreKnown
  <2>6. PartialsAreKnown'
    BY <1>1, <1>2, <1>3, <2>1, <2>3 DEF PartialsAreKnown
  <2>7. QED
    BY <2>4, <2>5, <2>6
<1>11. CASE WriteMetadata(t, i)
  <2>1. /\ phase[i] = "metadata"
        /\ partials' = partials \union {Partial("meta", i)}
        /\ UNCHANGED <<prints, metas, phase>>
    BY <1>11 DEF WriteMetadata, At, pool
  <2>2. metas[i] = None /\ prints[i] # None
    BY <1>1, <1>2, <2>1 DEF PhasesAreKnown
  <2>3. FilesAreKnown' /\ PhasesAreKnown'
    BY <1>1, <1>2, <2>1 DEF FilesAreKnown, PhasesAreKnown
  <2>4. PartialsAreKnown'
    BY <1>1, <1>2, <2>1, <2>2, PartialsDiffer DEF PartialsAreKnown
  <2>5. QED
    BY <2>3, <2>4
<1>12. CASE PublishMetadata(t, i)
  <2>1. /\ phase[i] = "metadata"
        /\ phase' = [phase EXCEPT ![i] = "sync"]
        /\ metas' = [metas EXCEPT ![i] = [key |-> manifest[i].key, prints |-> manifest[i].audio]]
        /\ partials' = partials \ {Partial("meta", i)}
        /\ UNCHANGED prints
    BY <1>12 DEF PublishMetadata, At, Goto, Following, Meta
  <2>2. /\ i \in DOMAIN manifest
        /\ prints[i] # None
        /\ Partial("tdb", i) \notin partials
    BY <1>1, <1>2, <2>1 DEF PhasesAreKnown, PartialsAreKnown
  <2>3. [key |-> manifest[i].key, prints |-> manifest[i].audio] # None
    BY <1>3, <2>2, ManifestLines
  <2>4. FilesAreKnown'
    BY <1>1, <1>2, <1>3, <2>1, <2>2, <2>3 DEF FilesAreKnown
  <2>5. PhasesAreKnown'
    BY <1>1, <1>2, <1>3, <2>1, <2>2, <2>3 DEF PhasesAreKnown
  <2>6. PartialsAreKnown'
    BY <1>1, <1>2, <1>3, <2>1, <2>2, <2>3 DEF PartialsAreKnown
  <2>7. QED
    BY <2>4, <2>5, <2>6
<1>13. CASE SyncDirectory(t, i)
  <2>1. /\ phase[i] = "sync"
        /\ phase' = [phase EXCEPT ![i] = "done"]
        /\ UNCHANGED <<prints, metas, partials>>
    BY <1>13 DEF SyncDirectory, At, Goto, disk
  <2>2. FilesAreKnown'
    BY <1>1, <1>2, <2>1 DEF FilesAreKnown
  <2>3. PhasesAreKnown'
    BY <1>1, <1>2, <1>3, <2>1 DEF PhasesAreKnown
  <2>4. PartialsAreKnown'
    BY <1>1, <1>2, <1>3, <2>1 DEF PartialsAreKnown
  <2>5. QED
    BY <2>2, <2>3, <2>4
<1>14. CASE Break(t, i)
  <2>1. /\ phase[i] \in {"decode", "bands", "prints", "metadata", "sync"}
        /\ phase' = [phase EXCEPT ![i] = "error"]
        /\ UNCHANGED <<prints, metas, partials>>
    BY <1>14, RunningIsKnown DEF Break, Goto, disk
  <2>2. FilesAreKnown'
    BY <1>1, <1>2, <2>1 DEF FilesAreKnown
  <2>3. PhasesAreKnown'
    BY <1>1, <1>2, <1>3, <2>1 DEF PhasesAreKnown
  <2>4. PartialsAreKnown'
    BY <1>1, <1>2, <1>3, <2>1 DEF PartialsAreKnown
  <2>5. QED
    BY <2>2, <2>3, <2>4
<1>15. QED
  BY <1>6, <1>7, <1>8, <1>9, <1>10, <1>11, <1>12, <1>13, <1>14 DEF ProcessOne

-----------------------------------------------------------------------------
(* A step of the process outside the pool, and of the one who repairs.     *)

\* An exit leaves no process, so that only the files have to be known.
LEMMA ExitedKeepsKnown ==
    ASSUME IInv, NEW how \in {"error", "killed", "foreign", "invalid"}, Exited(how), UNCHANGED disk
    PROVE  Known'
<1>1. FilesAreKnown /\ PartialsAreKnown
  BY DEF IInv, Known
<1>2. /\ pc' = "idle" /\ status' = how
      /\ \A i \in Ids : phase'[i] = "none"
      /\ \A t \in Threads : stack'[t] = <<>>
      /\ UNCHANGED <<marker, prints, metas, failures, partials, decodable>>
  BY DEF Exited, disk
<1>3. RunIsKnown' /\ PhasesAreKnown' /\ FinishedRunIsClean'
  BY <1>2 DEF RunIsKnown, PhasesAreKnown, FinishedRunIsClean
<1>4. FilesAreKnown'
  BY <1>1, <1>2 DEF FilesAreKnown
<1>5. PartialsAreKnown'
  BY <1>1, <1>2 DEF PartialsAreKnown
<1>6. QED
  BY <1>3, <1>4, <1>5 DEF Known

\* When the failures are written every line was worked off, so that a
\* temporary of a file is of a line without metadata: one that failed.
LEMMA WriteFailuresIsClean ==
    ASSUME IInv, WriteFailures
    PROVE  /\ partials' \subseteq partials
           /\ \A x \in partials' : x.line \in failures'
           /\ \A i \in DOMAIN marker : metas[i] # None <=> i \notin failures'
           /\ marker \in Manifests /\ manifest = marker
           /\ failures' \subseteq DOMAIN marker
<1>1. TypeOK /\ RunIsKnown /\ FilesAreKnown /\ PhasesAreKnown /\ PartialsAreKnown
  BY DEF IInv, Known
<1>2. /\ pc = "report"
      /\ failures' = Failed
      /\ partials' = partials \ {FailuresPartial}
  BY DEF WriteFailures
<1>3. /\ marker = manifest /\ manifest \in Manifests /\ marker # None
  BY <1>1, <1>2, NoneAssumption DEF RunIsKnown
<1>4. \A i \in DOMAIN marker : i \in Ids
  BY <1>3, ManifestLines
<1>5. \A i \in DOMAIN marker : metas[i] # None <=> i \notin Failed
  BY <1>1, <1>2, <1>3, <1>4 DEF PhasesAreKnown, Failed
<1>6. Failed \subseteq DOMAIN marker
  BY <1>1, <1>2, <1>3 DEF PhasesAreKnown, Failed
<1>7. ASSUME NEW i \in Ids, Partial("tdb", i) \in partials \/ Partial("meta", i) \in partials
      PROVE  i \in Failed
  <2>1. metas[i] = None /\ i \in DOMAIN marker
    BY <1>1, <1>7 DEF PartialsAreKnown, FilesAreKnown
  <2>2. QED
    BY <1>5, <2>1
<1>8. MarkerPartial \notin partials
  BY <1>1, <1>3 DEF PartialsAreKnown
<1>9. ASSUME NEW x \in partials'
      PROVE  x.line \in failures'
  <2>1. PICK i \in Ids : x \in {Partial("tdb", i), Partial("meta", i)}
    BY <1>1, <1>2, <1>8, <1>9 DEF PartialsAreKnown
  <2>2. i \in Failed
    BY <1>2, <1>7, <1>9, <2>1
  <2>3. x.line = i
    BY <2>1 DEF Partial
  <2>4. QED
    BY <1>2, <2>2, <2>3
<1>10. QED
  BY <1>2, <1>3, <1>5, <1>6, <1>9

LEMMA NextKeepsKnown == IInv /\ [Next]_vars => Known'
<1> SUFFICES ASSUME IInv, [Next]_vars
             PROVE  Known'
  OBVIOUS
<1>1. /\ TypeOK /\ RunIsKnown /\ FilesAreKnown /\ PhasesAreKnown /\ PartialsAreKnown
      /\ FinishedRunIsClean
  BY DEF IInv, Known
<1>2. CASE UNCHANGED vars
  BY <1>1, <1>2
     DEF vars, disk, pool, Known, RunIsKnown, FilesAreKnown, PhasesAreKnown, PartialsAreKnown,
         FinishedRunIsClean
<1>3. CASE Start
  <2>1. /\ pc = "idle" /\ pc' = "pin" /\ status' = "none" /\ manifest' \in Manifests
        /\ UNCHANGED <<marker, prints, metas, failures, partials, decodable, phase, stack>>
    BY <1>3 DEF Start, disk, pool
  <2>2. RunIsKnown' /\ PhasesAreKnown' /\ FinishedRunIsClean'
    BY <1>1, <2>1 DEF RunIsKnown, PhasesAreKnown, FinishedRunIsClean
  <2>3. FilesAreKnown' /\ PartialsAreKnown'
    BY <1>1, <2>1 DEF FilesAreKnown, PartialsAreKnown
  <2>4. QED
    BY <2>2, <2>3 DEF Known
<1>4. CASE PinManifest
  <2>1. CASE Exited("foreign") /\ UNCHANGED disk
    BY <2>1, ExitedKeepsKnown
  <2>2. CASE ~(Exited("foreign") /\ UNCHANGED disk)
    <3>1. /\ pc = "pin"
          /\ UNCHANGED <<marker, prints, metas, decodable, manifest, phase, stack, status>>
          /\ \/ marker = None /\ partials' = partials \union {MarkerPartial} /\ pc' = "bind"
             \/ marker = manifest /\ partials' = partials /\ pc' = "scan"
      BY <1>4, <2>2 DEF PinManifest, disk, pool
    <3>2. RunIsKnown' /\ PhasesAreKnown' /\ FinishedRunIsClean'
      BY <1>1, <3>1 DEF RunIsKnown, PhasesAreKnown, FinishedRunIsClean
    <3>3. FilesAreKnown'
      BY <1>1, <3>1 DEF FilesAreKnown
    <3>4. PartialsAreKnown'
      BY <1>1, <3>1, PartialsDiffer DEF PartialsAreKnown
    <3>5. QED
      BY <3>2, <3>3, <3>4 DEF Known
  <2>3. QED
    BY <2>1, <2>2
<1>5. CASE Bind
  <2>1. /\ pc = "bind" /\ pc' = "scan" /\ marker = None /\ marker' = manifest
        /\ partials' = partials \ {MarkerPartial}
        /\ manifest \in Manifests /\ status = "none"
        /\ UNCHANGED <<prints, metas, decodable, manifest, phase, stack, status>>
    BY <1>1, <1>5 DEF Bind, pool, RunIsKnown
  <2>2. \A i \in Ids : prints[i] = None /\ metas[i] = None
    BY <1>1, <2>1, NoneAssumption DEF FilesAreKnown
  <2>3. RunIsKnown' /\ PhasesAreKnown' /\ FinishedRunIsClean'
    BY <1>1, <2>1 DEF RunIsKnown, PhasesAreKnown, FinishedRunIsClean
  <2>4. FilesAreKnown'
    BY <2>1, <2>2 DEF FilesAreKnown
  <2>5. PartialsAreKnown'
    BY <1>1, <2>1, <2>2, NoneAssumption DEF PartialsAreKnown
  <2>6. QED
    BY <2>3, <2>4, <2>5 DEF Known
<1>6. CASE Scan
  <2>1. CASE Exited("invalid") /\ UNCHANGED disk
    BY <2>1, ExitedKeepsKnown
  <2>2. CASE ~(Exited("invalid") /\ UNCHANGED disk)
    <3>1. /\ pc = "scan" /\ pc' = "work"
          /\ phase' = [i \in Ids |->
                         IF i \in DOMAIN manifest /\ metas[i] = None THEN "queued" ELSE "none"]
          /\ UNCHANGED <<marker, prints, metas, partials, decodable, manifest, status>>
      BY <1>6, <2>2 DEF Scan, disk
    <3>2. RunIsKnown' /\ FinishedRunIsClean'
      BY <1>1, <3>1 DEF RunIsKnown, FinishedRunIsClean
    <3>3. PhasesAreKnown'
      BY <1>1, <3>1 DEF PhasesAreKnown
    <3>4. FilesAreKnown'
      BY <1>1, <3>1 DEF FilesAreKnown
    <3>5. PartialsAreKnown'
      BY <1>1, <3>1 DEF PartialsAreKnown
    <3>6. QED
      BY <3>2, <3>3, <3>4, <3>5 DEF Known
  <2>3. QED
    BY <2>1, <2>2
<1>7. CASE Collect
  <2>1. CASE Exited("error") /\ UNCHANGED disk
    BY <2>1, ExitedKeepsKnown
  <2>2. CASE ~(Exited("error") /\ UNCHANGED disk)
    <3>1. /\ pc = "work" /\ pc' = "report" /\ Pending = {}
          /\ \A i \in Ids : phase[i] # "error"
          /\ partials' = partials \union {FailuresPartial}
          /\ UNCHANGED <<marker, prints, metas, decodable, manifest, phase, stack, status>>
      BY <1>7, <2>2 DEF Collect, pool
    <3>2. RunIsKnown' /\ FinishedRunIsClean'
      BY <1>1, <3>1 DEF RunIsKnown, FinishedRunIsClean
    <3>3. PhasesAreKnown'
      BY <1>1, <3>1 DEF PhasesAreKnown, Pending
    <3>4. FilesAreKnown'
      BY <1>1, <3>1 DEF FilesAreKnown
    <3>5. PartialsAreKnown'
      BY <1>1, <3>1, PartialsDiffer DEF PartialsAreKnown
    <3>6. QED
      BY <3>2, <3>3, <3>4, <3>5 DEF Known
  <2>3. QED
    BY <2>1, <2>2
<1>8. CASE WriteFailures
  <2>1. /\ pc' = "idle" /\ status' = "ok"
        /\ \A i \in Ids : phase'[i] = "none"
        /\ \A t \in Threads : stack'[t] = <<>>
        /\ partials' \subseteq partials
        /\ \A x \in partials' : x.line \in failures'
        /\ \A i \in DOMAIN marker : metas[i] # None \/ i \in failures'
        /\ UNCHANGED <<marker, prints, metas, decodable>>
    BY <1>8, WriteFailuresIsClean DEF WriteFailures, Exited
  <2>2. RunIsKnown' /\ PhasesAreKnown' /\ FinishedRunIsClean'
    BY <2>1 DEF RunIsKnown, PhasesAreKnown, FinishedRunIsClean
  <2>3. FilesAreKnown' /\ PartialsAreKnown'
    BY <1>1, <2>1 DEF FilesAreKnown, PartialsAreKnown
  <2>4. QED
    BY <2>2, <2>3 DEF Known
<1>9. CASE Kill
  BY <1>9, ExitedKeepsKnown DEF Kill
<1>10. CASE Repair
  <2>1. /\ pc = "idle" /\ decodable \subseteq decodable'
        /\ UNCHANGED <<marker, prints, metas, failures, partials>>
        /\ UNCHANGED <<pc, manifest, phase, stack, status>>
    BY <1>10 DEF Repair, disk, pool
  <2>2. RunIsKnown' /\ PhasesAreKnown' /\ FinishedRunIsClean'
    BY <1>1, <2>1 DEF RunIsKnown, PhasesAreKnown, FinishedRunIsClean
  <2>3. FilesAreKnown' /\ PartialsAreKnown'
    BY <1>1, <2>1 DEF FilesAreKnown, PartialsAreKnown
  <2>4. QED
    BY <2>2, <2>3 DEF Known
<1>11. ASSUME NEW t \in Threads, FinishHelp(t) PROVE Known'
  BY <1>1, <1>11
     DEF FinishHelp, disk, Known, RunIsKnown, FilesAreKnown, PhasesAreKnown, PartialsAreKnown,
         FinishedRunIsClean
<1>12. QED
  BY <1>2, <1>3, <1>4, <1>5, <1>6, <1>7, <1>8, <1>9, <1>10, <1>11, ProcessOneKeepsKnown DEF Next

-----------------------------------------------------------------------------
(* The invariant and what follows from it.                                 *)

LEMMA InitIInv == Init => IInv
<1> SUFFICES ASSUME Init
             PROVE  IInv
  OBVIOUS
<1>1. \A t \in Threads : stack[t] = <<>> /\ Len(stack[t]) = 0
  BY EmptySeq DEF Init
<1>2. TypeOK
  <2>1. stack \in [Threads -> Seq(Ids)] /\ runs \in 0 .. MaxRuns
    BY EmptySeq, MaxRunsAssumption DEF Init
  <2>2. /\ prints \in [Ids -> Audio \union {None}]
        /\ metas \in [Ids -> Metas \union {None}]
        /\ phase \in [Ids -> Phases]
        /\ helping \in [Threads -> Ids \union {None}]
    BY DEF Init, Phases
  <2>3. /\ marker \in Manifests \union {None}
        /\ failures \in (SUBSET Ids) \union {None}
        /\ partials = {}
        /\ decodable \subseteq Audio
        /\ manifest \in Manifests \union {None}
        /\ pc = "idle"
        /\ status = "none"
    BY DEF Init
  <2>4. QED
    BY <2>1, <2>2, <2>3 DEF TypeOK
<1>3. StacksAreKnown
  BY <1>1 DEF StacksAreKnown, Levels
<1>4. RunIsKnown /\ PhasesAreKnown /\ FinishedRunIsClean
  BY DEF Init, RunIsKnown, PhasesAreKnown, FinishedRunIsClean
<1>5. FilesAreKnown /\ PartialsAreKnown
  BY DEF Init, FilesAreKnown, PartialsAreKnown
<1>6. QED
  BY <1>2, <1>3, <1>4, <1>5 DEF IInv, Known

LEMMA NextKeepsIInv == IInv /\ [Next]_vars => IInv'
BY NextKeepsTypes, NextKeepsKnown DEF IInv

\* What a run and the runs before it know of the directory is always so.
THEOREM BatchInvariant == Spec => []IInv
<1>1. QED
  BY InitIInv, NextKeepsIInv, PTL DEF Spec

\* Every variable of the directory and of the process keeps its type.
THEOREM BatchTypes == Spec => []TypeOK
<1>1. IInv => TypeOK
  BY DEF IInv
<1>2. QED
  BY <1>1, BatchInvariant, PTL

\* Wherever a run is killed, and whatever run comes after it, a metadata file
\* stands for prints that are there and are the ones it declares.
THEOREM MetadataStaysComplete == Spec => []MetadataMeansComplete
<1>1. IInv => MetadataMeansComplete
  <2> SUFFICES ASSUME FilesAreKnown, NEW i \in Ids, metas[i] # None
               PROVE  prints[i] = metas[i].prints
    BY DEF IInv, Known, MetadataMeansComplete
  <2>1. metas[i] = [key |-> marker[i].key, prints |-> marker[i].audio] /\ prints[i] # None
    BY DEF FilesAreKnown
  <2>2. prints[i] = marker[i].audio
    BY <2>1 DEF FilesAreKnown
  <2>3. QED
    BY <2>1, <2>2
<1>2. QED
  BY <1>1, BatchInvariant, PTL

\* A run that ends well, whatever files failed in it, leaves no temporary, its
\* own or a killed run's, but of lines it lists as failures, and no line of its
\* manifest that is neither completed nor a listed failure.
THEOREM FinishedRunStaysClean == Spec => []FinishedRunIsClean
<1>1. IInv => FinishedRunIsClean
  BY DEF IInv, Known
<1>2. QED
  BY <1>1, BatchInvariant, PTL

\* What the earlier runs left turns a run away only when its manifest has a
\* key that a line of a metadata file cannot hold.
THEOREM ResumeStaysAccepted == Spec => []ResumeIsAccepted
<1>1. Init => ResumeIsAccepted
  BY DEF Init, ResumeIsAccepted
<1>2. IInv /\ ResumeIsAccepted /\ [Next]_vars => ResumeIsAccepted'
  <2> SUFFICES ASSUME IInv, ResumeIsAccepted, [Next]_vars
               PROVE  ResumeIsAccepted'
    OBVIOUS
  <2>1. CASE Scan
    <3>1. TypeOK /\ RunIsKnown /\ FilesAreKnown
      BY DEF IInv, Known
    <3>2. marker = manifest /\ manifest \in Manifests
      BY <2>1, <3>1 DEF Scan, RunIsKnown
    <3>3. ASSUME NEW i \in DOMAIN manifest, metas[i] # None, manifest[i].key \in Legible
          PROVE  Valid(i)
      <4>1. i \in Ids
        BY <3>2, ManifestLines
      <4>2. /\ prints[i] # None
            /\ metas[i] = [key |-> marker[i].key, prints |-> marker[i].audio]
            /\ prints[i] = marker[i].audio
        BY <3>1, <3>3, <4>1 DEF FilesAreKnown
      <4>3. QED
        BY <3>2, <3>3, <4>2 DEF Valid
    <3>4. CASE \E i \in DOMAIN manifest : metas[i] # None /\ ~Valid(i)
      <4>1. \E i \in DOMAIN manifest : manifest[i].key \notin Legible
        BY <3>3, <3>4
      <4>2. UNCHANGED marker
        BY <2>1, <3>4 DEF Scan, disk
      <4>3. QED
        BY <3>2, <4>1, <4>2 DEF ResumeIsAccepted
    <3>5. CASE ~\E i \in DOMAIN manifest : metas[i] # None /\ ~Valid(i)
      <4>1. UNCHANGED <<marker, status>>
        BY <2>1, <3>5 DEF Scan, disk
      <4>2. QED
        BY <4>1 DEF ResumeIsAccepted
    <3>6. QED
      BY <3>4, <3>5
  <2>2. CASE Bind
    <3>1. status' = "none"
      BY <2>2 DEF IInv, Known, RunIsKnown, Bind
    <3>2. QED
      BY <3>1 DEF ResumeIsAccepted
  <2>3. CASE ~Scan /\ ~Bind
    <3>1. UNCHANGED marker /\ (status' = status \/ status' # "invalid")
      BY <2>3
         DEF vars, disk, Next, Start, PinManifest, Collect, WriteFailures, Kill, Repair, FinishHelp,
             Exited, ProcessOne, Take, Decode, Help, MapBands, PublishPrints, WriteMetadata,
             PublishMetadata, SyncDirectory, Break
    <3>2. QED
      BY <3>1 DEF ResumeIsAccepted
  <2>4. QED
    BY <2>1, <2>2, <2>3
<1>3. QED
  BY <1>1, <1>2, BatchInvariant, PTL DEF Spec

-----------------------------------------------------------------------------
(* The refinement.                                                         *)

LEMMA ProducedIsAnItem ==
    ASSUME IInv, NEW i \in Ids, metas[i] # None
    PROVE  Produced(i) = marker[i] /\ Produced(i) # None
<1>1. /\ marker \in Manifests /\ i \in DOMAIN marker
      /\ metas[i] = [key |-> marker[i].key, prints |-> marker[i].audio]
      /\ prints[i] = marker[i].audio
  BY DEF IInv, Known, FilesAreKnown
<1>2. Produced(i) = [key |-> marker[i].key, audio |-> marker[i].audio]
  BY <1>1 DEF Produced
<1>3. QED
  BY <1>1, <1>2, ManifestLines

\* A step that changes no metadata file, and the prints of no line that has one.
LEMMA QuietStepsStutter ==
    ASSUME UNCHANGED <<marker, failures, metas>>,
           \A i \in Ids : metas[i] # None => prints'[i] = prints[i]
    PROVE  UNCHANGED Contract!vars
<1>1. \A i \in Ids : Produced(i)' = Produced(i)
  BY DEF Produced
<1>2. QED
  BY <1>1 DEF Contract!vars

LEMMA StepsAreContractSteps == IInv /\ IInv' /\ [Next]_vars => [Contract!Next]_(Contract!vars)
<1> SUFFICES ASSUME IInv, IInv', [Next]_vars
             PROVE  [Contract!Next]_(Contract!vars)
  OBVIOUS
<1>1. CASE UNCHANGED <<marker, failures, metas, prints>>
  BY <1>1, QuietStepsStutter
<1>2. CASE Bind
  <2>1. /\ marker = None /\ marker' \in Manifests
        /\ UNCHANGED <<failures, metas, prints>>
    BY <1>2 DEF Bind, IInv, Known, RunIsKnown
  <2>2. \A i \in Ids : Produced(i)' = Produced(i)
    BY <2>1 DEF Produced
  <2>3. Contract!Bind
    BY <2>1, <2>2 DEF Contract!Bind
  <2>4. QED
    BY <2>3 DEF Contract!Next
<1>3. CASE WriteFailures
  <2>1. /\ marker \in Manifests /\ marker # None
        /\ \A i \in DOMAIN marker : metas[i] # None <=> i \notin failures'
        /\ failures' \subseteq DOMAIN marker
        /\ \A i \in DOMAIN marker : i \in Ids
        /\ UNCHANGED <<marker, metas, prints>>
    BY <1>3, WriteFailuresIsClean, NoneAssumption, ManifestLines DEF WriteFailures
  <2>2. \A i \in DOMAIN marker : Produced(i) = None <=> i \in failures'
    BY <2>1, ProducedIsAnItem DEF Produced
  <2>3. \A i \in Ids : Produced(i)' = Produced(i)
    BY <2>1 DEF Produced
  <2>4. failures' = { i \in DOMAIN marker : [j \in Ids |-> Produced(j)][i] = None }
    BY <2>1, <2>2
  <2>5. Contract!Report
    BY <2>1, <2>3, <2>4 DEF Contract!Report
  <2>6. QED
    BY <2>5 DEF Contract!Next
<1>4. ASSUME NEW t \in Threads, NEW i \in Ids, PublishMetadata(t, i)
      PROVE  Contract!Produce(i)
  <2>1. /\ phase[i] = "metadata"
        /\ metas' = [metas EXCEPT ![i] = Meta(i)]
        /\ UNCHANGED <<marker, failures, prints>>
        /\ Running(t, i)
    BY <1>4 DEF PublishMetadata, At
  <2>2. /\ metas \in [Ids -> Metas \union {None}]
        /\ metas[i] = None
        /\ marker = manifest /\ manifest \in Manifests /\ i \in DOMAIN manifest
    BY <2>1, RunningIsKnown DEF IInv, Known, PhasesAreKnown, TypeOK
  <2>3. metas'[i] # None /\ marker # None
    BY <2>1, <2>2, ManifestLines, NoneAssumption DEF Meta
  <2>4. Produced(i)' = marker[i] /\ Produced(i) = None
    <3>1. prints[i] = marker[i].audio
      BY <2>1, <2>2, RunningIsKnown DEF IInv, Known, PhasesAreKnown, FilesAreKnown
    <3>2. metas'[i].key = marker[i].key /\ prints'[i] = marker[i].audio
      BY <2>1, <2>2, <3>1 DEF Meta
    <3>3. Produced(i)' = [key |-> marker[i].key, audio |-> marker[i].audio]
      BY <2>3, <3>2 DEF Produced
    <3>4. QED
      BY <2>2, <3>3, ManifestLines DEF Produced
  <2>5. \A j \in Ids \ {i} : Produced(j)' = Produced(j)
    BY <2>1, <2>2 DEF Produced
  <2>6. [j \in Ids |-> Produced(j)]' = [[j \in Ids |-> Produced(j)] EXCEPT ![i] = marker[i]]
    BY <2>4, <2>5
  <2>7. QED
    BY <2>1, <2>2, <2>3, <2>4, <2>6 DEF Contract!Produce
<1>5. ASSUME NEW t \in Threads, NEW i \in Ids, PublishPrints(t, i)
      PROVE  UNCHANGED Contract!vars
  <2>1. /\ phase[i] = "prints"
        /\ prints' = [prints EXCEPT ![i] = manifest[i].audio]
        /\ UNCHANGED <<marker, failures, metas>>
        /\ Running(t, i)
    BY <1>5 DEF PublishPrints, At
  <2>2. prints \in [Ids -> Audio \union {None}] /\ metas[i] = None
    BY <2>1, RunningIsKnown DEF IInv, Known, PhasesAreKnown, TypeOK
  <2>3. QED
    BY <2>1, <2>2, QuietStepsStutter
<1>6. QED
  <2>1. SUFFICES ASSUME ~UNCHANGED <<marker, failures, metas, prints>>, ~Bind, ~WriteFailures
                 PROVE  \E t \in Threads, i \in Ids : PublishMetadata(t, i) \/ PublishPrints(t, i)
    BY <1>1, <1>2, <1>3, <1>4, <1>5 DEF Contract!Next
  <2>2. QED
    BY <2>1
       DEF vars, disk, Next, Start, PinManifest, Scan, Collect, Kill, Repair, FinishHelp, Exited,
           ProcessOne, Take, Decode, Help, MapBands, WriteMetadata, SyncDirectory, Break

\* Through kills, errors and repeated runs the directory only takes the steps
\* of Batch: it is bound once, each resource is produced once, as its line
\* says, and a report names exactly the lines that are still missing.
THEOREM BatchIsImplemented == Spec => ImplementsBatch
<1>1. Init => Contract!Init
  BY DEF Init, Contract!Init, Produced
<1>2. QED
  BY <1>1, BatchInvariant, StepsAreContractSteps, PTL DEF Spec, ImplementsBatch, Contract!Spec

=============================================================================
