------------------------------- MODULE Daemon -------------------------------
(***************************************************************************)
(* The request executor of resident/src/daemon.rs: one rayon scope whose   *)
(* body reads stdin on a pool worker and spawns a task per line, the       *)
(* writer mutex, the shared Arc<Store> behind an RwLock, and stdout.       *)
(*                                                                         *)
(* A rayon worker that waits for a parallel section runs other tasks on    *)
(* top of the waiting one, so each worker has a stack of tasks and only    *)
(* the top one moves.  The store itself is the number of publications so   *)
(* far; Store.tla has its inside.                                          *)
(***************************************************************************)
EXTENDS Naturals, FiniteSets, Sequences, SequencesExt

CONSTANTS
    Workers,   \* the threads of rayon's global pool
    ScopeWorker, \* the one that rayon picks for the scope body
    Lines,     \* the request lines a client may send
    Kind,      \* what each line asks for
    Initial,   \* whether a store exists when the daemon starts
    Stdin,     \* the scope body, as a task
    Nobody     \* the holder of a free lock

ASSUME WorkersAssumption == ScopeWorker \in Workers /\ IsFiniteSet(Workers)
ASSUME LinesAssumption ==
    Stdin \notin Lines \union {Nobody} /\ Nobody \notin Lines /\ IsFiniteSet(Lines)
ASSUME KindAssumption == Kind \in [Lines -> {"read", "extract", "write", "enroll"}]
ASSUME InitialAssumption == Initial \in {0, 1}

VARIABLES
    stack,       \* worker -> its tasks, the running one last
    phase,       \* line -> how far its task is
    eof,         \* whether the client has closed stdin
    writer,      \* the line that holds the Mutex<()>, or Nobody
    guards,      \* the lines that hold a read guard of the RwLock
    root,        \* publications in the store root so far
    served,      \* the publication that the shared Arc holds, 0 for none
    snapshot,    \* line -> the publication its task works with
    outcome,     \* line -> what its response will say
    scratch,     \* worker -> the tasks that have its FFT_SCRATCH borrowed
    answers,     \* line -> its response lines on stdout
    acked        \* history: line -> newest write acknowledged before it was read

locks == <<writer, guards, scratch>>
store == <<root, served>>
vars == <<stack, phase, eof, writer, guards, root, served, snapshot, outcome, scratch, answers,
          acked>>

Tasks == Lines \union {Stdin}

Phases == {"unsent", "queued", "started", "guard", "clone", "compute", "decode", "hung", "fft",
           "transform", "lock", "publish", "swap", "respond", "answered"}

Outcomes == {"none", "answer", "published", "refused", "internal"}

-----------------------------------------------------------------------------
(* Stacks.                                                                 *)

IsIdle(w) == stack[w] = <<>>
Running(w, task) == ~IsIdle(w) /\ Last(stack[w]) = task

Suspended(w) == { stack[w][i] : i \in 1 .. Len(stack[w]) - 1 }

\* A task that is inside a parallel section lets its worker run another.
Waits(task) == IF task = Stdin THEN eof ELSE phase[task] \in {"compute", "transform"}

TakesTasks(w) == ~IsIdle(w) => Waits(Last(stack[w]))

At(w, l, p) == Running(w, l) /\ phase[l] = p
Goto(l, p) == phase' = [phase EXCEPT ![l] = p]

-----------------------------------------------------------------------------
(* Reading stdin.                                                          *)

WritesAcked == { snapshot[l] : l \in { l \in Lines : answers[l] > 0 /\ outcome[l] = "published" } }

ReadLine(w, l) ==
    /\ Running(w, Stdin)
    /\ ~eof
    /\ phase[l] = "unsent"
    /\ Goto(l, "queued")
    /\ acked' = [acked EXCEPT ![l] = WritesAcked]
    /\ UNCHANGED <<stack, eof, locks, store, snapshot, outcome, answers>>

CloseStdin(w) ==
    /\ Running(w, Stdin)
    /\ ~eof
    /\ eof' = TRUE
    /\ UNCHANGED <<stack, phase, locks, store, snapshot, outcome, answers, acked>>

\* Mutation: tasks are detached, the process exits at the end of stdin.
ExitAtEof(w) ==
    /\ Running(w, Stdin)
    /\ eof
    /\ stack' = [stack EXCEPT ![w] = <<>>]
    /\ UNCHANGED <<phase, eof, locks, store, snapshot, outcome, answers, acked>>

\* The scope ends when its tasks have; the process exits.
EndScope(w) ==
    /\ Running(w, Stdin)
    /\ eof
    /\ \A l \in Lines : phase[l] \in {"unsent", "answered"}
    /\ stack' = [stack EXCEPT ![w] = <<>>]
    /\ UNCHANGED <<phase, eof, locks, store, snapshot, outcome, answers, acked>>

\* A worker with nothing to do, or one that waits, takes any spawned task.
Take(w, l) ==
    /\ phase[l] = "queued"
    /\ TakesTasks(w)
    /\ stack' = [stack EXCEPT ![w] = Append(@, l)]
    /\ Goto(l, "started")
    /\ UNCHANGED <<eof, locks, store, snapshot, outcome, answers, acked>>

-----------------------------------------------------------------------------
(* handle.                                                                 *)

\* Mutation: the verb extract has no arm of its own.
NoExtractArm(l) ==
    CASE Kind[l] = "read"  -> "guard"
      [] Kind[l] = "write" -> "lock"
      [] OTHER -> "unsupported"

FirstPhase(l) ==
    CASE Kind[l] = "read"  -> "guard"
      [] Kind[l] = "write" -> "lock"
      [] Kind[l] \in {"extract", "enroll"} -> "decode"

\* A request refused before the store is looked at: bad JSON, an unknown verb,
\* a dump that does not load.
Dispatch(w, l) ==
    /\ At(w, l, "started")
    /\ \/ Goto(l, FirstPhase(l)) /\ UNCHANGED outcome
       \/ Goto(l, "respond") /\ outcome' = [outcome EXCEPT ![l] = "refused"]
    /\ UNCHANGED <<stack, eof, locks, store, snapshot, answers, acked>>

\* snapshot(state): the guard of the RwLock lives as long as the clone takes.
AcquireGuard(w, l) ==
    /\ At(w, l, "guard")
    /\ guards' = guards \union {l}
    /\ Goto(l, "clone")
    /\ UNCHANGED <<stack, eof, writer, scratch, store, snapshot, outcome, answers, acked>>

\* Without a store ping still answers, and every other query is refused.
SnapshotTaken(l) ==
    \/ served > 0 /\ Goto(l, "compute") /\ UNCHANGED outcome
    \/ /\ served = 0
       /\ Goto(l, "respond")
       /\ outcome' \in { [outcome EXCEPT ![l] = o] : o \in {"answer", "refused"} }

\* Mutation: the guard is kept while the request is computed.
KeepGuard(w, l) ==
    /\ At(w, l, "clone")
    /\ snapshot' = [snapshot EXCEPT ![l] = served]
    /\ SnapshotTaken(l)
    /\ UNCHANGED <<stack, eof, locks, store, answers, acked>>

CloneSnapshot(w, l) ==
    /\ At(w, l, "clone")
    /\ guards' = guards \ {l}
    /\ snapshot' = [snapshot EXCEPT ![l] = served]
    /\ SnapshotTaken(l)
    /\ UNCHANGED <<stack, eof, writer, scratch, store, answers, acked>>

\* The parallel lookups and votes of a query.
Compute(w, l) ==
    /\ At(w, l, "compute")
    /\ Goto(l, "respond")
    /\ outcome' \in { [outcome EXCEPT ![l] = o] : o \in {"answer", "refused"} }
    /\ UNCHANGED <<stack, eof, locks, store, snapshot, answers, acked>>

\* ffmpeg fills the spool, fails, or never ends: its stdout is drained before its
\* stderr, so the two processes may wait for each other (Decode.tla), and the
\* worker with them.
DecodeAudio(w, l) ==
    /\ At(w, l, "decode")
    /\ \/ Goto(l, "fft") /\ UNCHANGED outcome
       \/ Goto(l, "hung") /\ UNCHANGED outcome
       \/ Goto(l, "respond") /\ outcome' = [outcome EXCEPT ![l] = "refused"]
    /\ UNCHANGED <<stack, eof, locks, store, snapshot, answers, acked>>

\* process_fft: the worker's scratch is borrowed while a plan runs.
BorrowScratch(w, l) ==
    /\ At(w, l, "fft")
    /\ l \notin scratch[w]
    /\ scratch' = [scratch EXCEPT ![w] = @ \union {l}]
    /\ UNCHANGED <<stack, phase, eof, writer, guards, store, snapshot, outcome, answers, acked>>

\* Mutation: the scratch is still borrowed when the bands are mapped.
KeepScratch(w, l) ==
    /\ At(w, l, "fft")
    /\ l \in scratch[w]
    /\ Goto(l, "transform")
    /\ UNCHANGED <<stack, eof, locks, store, snapshot, outcome, answers, acked>>

ReturnScratch(w, l) ==
    /\ At(w, l, "fft")
    /\ l \in scratch[w]
    /\ scratch' = [scratch EXCEPT ![w] = @ \ {l}]
    /\ Goto(l, "transform")
    /\ UNCHANGED <<stack, eof, writer, guards, store, snapshot, outcome, answers, acked>>

\* The bands of a core are mapped in parallel; a file has several cores.
NextCore(w, l) ==
    /\ At(w, l, "transform")
    /\ Goto(l, "fft")
    /\ UNCHANGED <<stack, eof, locks, store, snapshot, outcome, answers, acked>>

\* The last core is done, or the spool could not be read back.
FinishExtraction(w, l) ==
    /\ At(w, l, "transform")
    /\ \/ Kind[l] = "enroll" /\ Goto(l, "lock") /\ UNCHANGED outcome
       \/ Kind[l] = "extract" /\ Goto(l, "respond") /\ outcome' = [outcome EXCEPT ![l] = "answer"]
       \/ Goto(l, "respond") /\ outcome' = [outcome EXCEPT ![l] = "refused"]
    /\ UNCHANGED <<stack, eof, locks, store, snapshot, answers, acked>>

AcquireWriter(w, l) ==
    /\ At(w, l, "lock")
    /\ writer = Nobody
    /\ writer' = l
    /\ Goto(l, "publish")
    /\ UNCHANGED <<stack, eof, guards, scratch, store, snapshot, outcome, answers, acked>>

\* Mutation: the mutex is released between the publication and the swap.
UnlockEarly(w, l) ==
    /\ At(w, l, "publish")
    /\ writer' = Nobody
    /\ \/ /\ root' \in {root, root + 1} \ {0}
          /\ snapshot' = [snapshot EXCEPT ![l] = root']
          /\ Goto(l, "swap")
          /\ UNCHANGED outcome
       \/ /\ root' \in {root, root + 1}
          /\ outcome' = [outcome EXCEPT ![l] = "internal"]
          /\ Goto(l, "respond")
          /\ UNCHANGED snapshot
    /\ UNCHANGED <<stack, eof, guards, scratch, served, answers, acked>>

\* Store::ingest or Store::retire: it publishes, finds nothing to do, refuses,
\* or fails on either side of its commit point.
Publish(w, l) ==
    /\ At(w, l, "publish")
    /\ \/ /\ root' = root + 1
          /\ snapshot' = [snapshot EXCEPT ![l] = root + 1]
          /\ Goto(l, "swap")
          /\ UNCHANGED <<outcome, writer>>
       \/ /\ root > 0
          /\ snapshot' = [snapshot EXCEPT ![l] = root]
          /\ Goto(l, "swap")
          /\ UNCHANGED <<outcome, writer, root>>
       \/ /\ root' \in {root, root + 1}
          /\ outcome' = [outcome EXCEPT ![l] = "internal"]
          /\ writer' = Nobody
          /\ Goto(l, "respond")
          /\ UNCHANGED snapshot
       \/ /\ outcome' = [outcome EXCEPT ![l] = "refused"]
          /\ writer' = Nobody
          /\ Goto(l, "respond")
          /\ UNCHANGED <<snapshot, root>>
    /\ UNCHANGED <<stack, eof, guards, scratch, served, answers, acked>>

\* Mutation: the shared Arc is set only the first time.
KeepFirstArc(w, l) ==
    /\ At(w, l, "swap")
    /\ guards = {}
    /\ served' = IF served = 0 THEN snapshot[l] ELSE served
    /\ writer' = Nobody
    /\ outcome' = [outcome EXCEPT ![l] = "published"]
    /\ Goto(l, "respond")
    /\ UNCHANGED <<stack, eof, guards, scratch, root, snapshot, answers, acked>>

\* The Arc is replaced under the writer mutex, which is then released.
SwapStore(w, l) ==
    /\ At(w, l, "swap")
    /\ guards = {}
    /\ served' = snapshot[l]
    /\ writer' = Nobody
    /\ outcome' = [outcome EXCEPT ![l] = "published"]
    /\ Goto(l, "respond")
    /\ UNCHANGED <<stack, eof, guards, scratch, root, snapshot, answers, acked>>

\* One whole line under the output mutex, and the task is over.
Respond(w, l) ==
    /\ At(w, l, "respond")
    /\ answers' = [answers EXCEPT ![l] = @ + 1]
    /\ stack' = [stack EXCEPT ![w] = Front(@)]
    /\ Goto(l, "answered")
    /\ UNCHANGED <<eof, locks, store, snapshot, outcome, acked>>

-----------------------------------------------------------------------------
Init ==
    /\ stack = [w \in Workers |-> IF w = ScopeWorker THEN <<Stdin>> ELSE <<>>]
    /\ phase = [l \in Lines |-> "unsent"]
    /\ eof = FALSE
    /\ writer = Nobody
    /\ guards = {}
    /\ root = Initial
    /\ served = Initial
    /\ snapshot = [l \in Lines |-> 0]
    /\ outcome = [l \in Lines |-> "none"]
    /\ scratch = [w \in Workers |-> {}]
    /\ answers = [l \in Lines |-> 0]
    /\ acked = [l \in Lines |-> {}]

Client(w) == CloseStdin(w) \/ \E l \in Lines : ReadLine(w, l)

Handle(w, l) ==
    \/ Dispatch(w, l) \/ AcquireGuard(w, l) \/ CloneSnapshot(w, l) \/ Compute(w, l)
    \/ DecodeAudio(w, l) \/ BorrowScratch(w, l) \/ ReturnScratch(w, l) \/ NextCore(w, l)
    \/ FinishExtraction(w, l)
    \/ AcquireWriter(w, l) \/ Publish(w, l) \/ SwapStore(w, l) \/ Respond(w, l)

Run(w) == EndScope(w) \/ \E l \in Lines : Take(w, l) \/ Handle(w, l)

Next == \E w \in Workers : Client(w) \/ Run(w)

Spec == Init /\ [][Next]_vars

\* Threads are scheduled, and what has been decoded has finitely many cores.
\* Nothing is assumed of ffmpeg, whose decode may hang, nor of the client: it may
\* stay silent, and keep stdin open, for ever.
Fairness ==
    /\ \A w \in Workers : WF_vars(Run(w))
    /\ \A l \in { l \in Lines : Kind[l] \in {"extract", "enroll"} } :
          SF_vars(\E w \in Workers : FinishExtraction(w, l))

FairSpec == Spec /\ Fairness

-----------------------------------------------------------------------------
(* Properties.                                                             *)

\* Every variable of the executor has its type.
TypeOK ==
    /\ stack \in [Workers -> Seq(Tasks)]
    /\ phase \in [Lines -> Phases]
    /\ eof \in BOOLEAN
    /\ writer \in Lines \union {Nobody}
    /\ guards \subseteq Lines
    /\ root \in Nat
    /\ served \in Nat
    /\ snapshot \in [Lines -> Nat]
    /\ outcome \in [Lines -> Outcomes]
    /\ scratch \in [Workers -> SUBSET Lines]
    /\ answers \in [Lines -> Nat]
    /\ acked \in [Lines -> SUBSET Nat]

\* Nothing that another task of the same worker may want is held by a task
\* that waits below it: not the writer mutex, not a guard of the RwLock, not
\* the thread's FFT_SCRATCH.  A worker would wait for itself for ever, or panic
\* on the second borrow.
NothingHeldIsSuspended ==
    \A w \in Workers : Suspended(w) \intersect (guards \union scratch[w] \union {writer}) = {}

\* FFT_SCRATCH is a RefCell: it is never borrowed while it is borrowed.
ScratchIsBorrowedOnce == \A w \in Workers : Cardinality(scratch[w]) <= 1

\* A publication and the swap of the Arc are one critical section: whenever
\* the mutex is free, queries are served from the newest generation, unless a
\* write failed after its commit point.
ServedIsNewest ==
    (writer = Nobody /\ \A l \in Lines : outcome[l] # "internal") => served = root

\* Queries never see the store go back to an earlier generation.
ServedNeverGoesBack == [][served' >= served]_vars

\* A query sent after a write was acknowledged sees that write, although the
\* tasks of different lines run in any order.
ReadYourWrites ==
    \A l \in Lines :
        Kind[l] = "read" /\ outcome[l] = "answer" => \A v \in acked[l] : snapshot[l] >= v

\* CONTRACT.md: "one response object per line out": none is written twice, and
\* when the process ends every line that was read has one.
ExitAnswersEveryLine ==
    /\ \A l \in Lines : answers[l] <= 1
    /\ eof /\ (\A w \in Workers : IsIdle(w)) =>
          \A l \in Lines : phase[l] # "unsent" => answers[l] = 1

\* Every line that was read is answered, although the client stays connected
\* and sends nothing more, unless a decode hangs: no lock, scratch or waiting
\* worker of the daemon's own keeps an answer back for ever.
EveryLineIsAnswered ==
    \A l \in Lines :
        phase[l] = "queued" ~> phase[l] = "answered" \/ \E m \in Lines : phase[m] = "hung"
=============================================================================
