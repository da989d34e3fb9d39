---------------------------- MODULE DaemonProofs ----------------------------
(***************************************************************************)
(* The daemon with any number of workers and lines: what a suspended task  *)
(* may hold, what queries are served from, and what is answered.           *)
(*                                                                         *)
(* The argument follows the stacks.  A line is on one stack at one place,  *)
(* every task below the top of a stack waits for a parallel section, and   *)
(* each lock and each borrowed scratch belongs to a line in a phase that   *)
(* does not wait.                                                          *)
(***************************************************************************)
EXTENDS Daemon, FiniteSetTheorems, SharedLemmas

Levels(w) == 1 .. Len(stack[w])

\* The scope has ended.
Over == eof /\ \A l \in Lines : phase[l] \in {"unsent", "answered"}

StacksAreConsistent ==
    /\ \A w \in Workers : \A i \in Levels(w) :
          stack[w][i] \in Lines => phase[stack[w][i]] \notin {"unsent", "queued", "answered"}
    /\ \A w, v \in Workers : \A i \in Levels(w), j \in Levels(v) :
          stack[w][i] = stack[v][j] => w = v /\ i = j
    /\ \A w \in Workers : \A i \in Levels(w) : stack[w][i] = Stdin => w = ScopeWorker /\ i = 1
    /\ \A w \in Workers : \A i \in Levels(w) : i # Len(stack[w]) => Waits(stack[w][i])
    /\ IF stack[ScopeWorker] = <<>> THEN Over ELSE stack[ScopeWorker][1] = Stdin

HoldersAreKnown ==
    /\ \A l \in guards : phase[l] = "clone"
    /\ \A l \in Lines : phase[l] \in {"publish", "swap"} <=> writer = l
    /\ \A w \in Workers : \A l \in scratch[w] : At(w, l, "fft")

\* A line has one response when it is over, and before it responds no result.
ResponsesAreKnown ==
    \A l \in Lines :
        /\ phase[l] \notin {"respond", "answered"} => outcome[l] = "none"
        /\ answers[l] = IF phase[l] = "answered" THEN 1 ELSE 0

\* Only the line between its publication and its swap is ahead of the Arc.
StoreIsServed ==
    /\ served <= root
    /\ \A l \in Lines : phase[l] = "swap" => snapshot[l] = root
    /\ (\A l \in Lines : outcome[l] # "internal" /\ phase[l] # "swap") => served = root

AcknowledgedIsServed ==
    \A l \in Lines :
        /\ outcome[l] = "published" => snapshot[l] <= served
        /\ \A v \in acked[l] : v <= served
        /\ phase[l] = "compute" \/ (outcome[l] = "answer" /\ Kind[l] = "read") =>
              \A v \in acked[l] : v <= snapshot[l]

IInv ==
    /\ TypeOK
    /\ StacksAreConsistent
    /\ HoldersAreKnown
    /\ ResponsesAreKnown
    /\ StoreIsServed
    /\ AcknowledgedIsServed

-----------------------------------------------------------------------------
(* Stacks.                                                                 *)

LEMMA RunningIsOnTop ==
    ASSUME TypeOK, NEW w \in Workers, NEW t, Running(w, t)
    PROVE  /\ stack[w] \in Seq(Tasks)
           /\ stack[w] # <<>>
           /\ Len(stack[w]) \in Levels(w)
           /\ stack[w][Len(stack[w])] = t
BY DEF TypeOK, Running, IsIdle, Last, Levels

\* The running line moves on: no other task does.
LEMMA StepKeepsStacks ==
    ASSUME TypeOK, StacksAreConsistent, NEW w \in Workers, NEW l \in Lines, Running(w, l),
           NEW p \in Phases \ {"unsent", "queued", "answered"}, Goto(l, p), UNCHANGED <<stack, eof>>
    PROVE  StacksAreConsistent'
<1>1. /\ Len(stack[w]) \in Levels(w)
      /\ stack[w][Len(stack[w])] = l
  BY RunningIsOnTop
<1>2. phase' = [phase EXCEPT ![l] = p] /\ phase \in [Lines -> Phases]
  BY DEF Goto, TypeOK
<1>3. phase[l] \notin {"unsent", "queued", "answered"}
  BY <1>1 DEF StacksAreConsistent
<1>4. \A v \in Workers : \A i \in Levels(v) : i # Len(stack[v]) => stack[v][i] # l
  BY <1>1 DEF StacksAreConsistent
<1>5. \A v \in Workers : \A i \in Levels(v) : i # Len(stack[v]) => Waits(stack[v][i])'
  BY <1>2, <1>4, LinesAssumption DEF StacksAreConsistent, Waits, TypeOK, Tasks, Levels
<1>6. \A v \in Workers : \A i \in Levels(v) :
          stack[v][i] \in Lines => phase'[stack[v][i]] \notin {"unsent", "queued", "answered"}
  BY <1>2 DEF StacksAreConsistent
<1>7. stack[ScopeWorker] # <<>>
  BY <1>3 DEF StacksAreConsistent, Over
<1>8. QED
  BY <1>5, <1>6, <1>7 DEF StacksAreConsistent, Levels

\* A worker takes a queued line on top of its stack.
LEMMA TakeKeepsStacks ==
    ASSUME TypeOK, StacksAreConsistent, NEW w \in Workers, NEW l \in Lines, Take(w, l)
    PROVE  StacksAreConsistent'
<1> DEFINE n == Len(stack[w])
<1>1. /\ stack[w] \in Seq(Tasks)
      /\ l \in Tasks
      /\ stack \in [Workers -> Seq(Tasks)]
      /\ phase \in [Lines -> Phases]
  BY DEF TypeOK, Tasks
<1>2. /\ n \in Nat
      /\ stack'[w] = Append(stack[w], l)
      /\ Len(stack'[w]) = n + 1
      /\ \A i \in 1 .. n : stack'[w][i] = stack[w][i]
      /\ stack'[w][n + 1] = l
      /\ \A v \in Workers \ {w} : stack'[v] = stack[v]
  BY <1>1, Pushed, LenProperties DEF Take
<1>3. /\ phase[l] = "queued"
      /\ phase' = [phase EXCEPT ![l] = "started"]
      /\ eof' = eof
      /\ TakesTasks(w)
  BY DEF Take, Goto
<1>4. \A v \in Workers : \A i \in Levels(v) : stack[v][i] # l
  BY <1>3 DEF StacksAreConsistent
<1>5. \A i \in 1 .. n : Waits(stack[w][i])
  <2>1. CASE stack[w] = <<>>
    BY <2>1, EmptySeq
  <2>2. CASE stack[w] # <<>>
    BY <2>2, <1>3 DEF StacksAreConsistent, TakesTasks, IsIdle, Last, Levels
  <2>3. QED
    BY <2>1, <2>2
<1>6. \A v \in Workers : \A i \in Levels(v)' :
          \/ v = w /\ i = n + 1 /\ stack'[v][i] = l
          \/ i \in Levels(v) /\ stack'[v][i] = stack[v][i] /\ stack[v][i] # l
  BY <1>2, <1>4 DEF Levels
<1>7. \A v \in Workers : \A i \in Levels(v)' :
          stack'[v][i] \in Lines => phase'[stack'[v][i]] \notin {"unsent", "queued", "answered"}
  BY <1>1, <1>3, <1>6 DEF StacksAreConsistent
<1>8. \A u, v \in Workers : \A i \in Levels(u)', j \in Levels(v)' :
          stack'[u][i] = stack'[v][j] => u = v /\ i = j
  BY <1>6 DEF StacksAreConsistent
<1>9. \A v \in Workers : \A i \in Levels(v)' : stack'[v][i] = Stdin => v = ScopeWorker /\ i = 1
  BY <1>6, LinesAssumption DEF StacksAreConsistent
<1>10. \A v \in Workers : \A i \in Levels(v)' : i # Len(stack'[v]) => Waits(stack[v][i])'
  <2> SUFFICES ASSUME NEW v \in Workers, NEW i \in Levels(v)', i # Len(stack'[v])
               PROVE  Waits(stack[v][i])'
    OBVIOUS
  <2>1. i \in Levels(v) /\ stack'[v][i] = stack[v][i] /\ stack[v][i] # l
    BY <1>2, <1>6
  <2>2. Waits(stack[v][i])
    BY <2>1, <1>2, <1>5 DEF StacksAreConsistent, Levels
  <2>3. stack[v][i] \in Tasks
    BY <2>1, <1>1, ElementOfSeq DEF Levels
  <2>4. QED
    BY <2>1, <2>2, <2>3, <1>1, <1>3, LinesAssumption DEF Waits, Tasks
<1>11. stack[ScopeWorker] # <<>> /\ stack[ScopeWorker][1] = Stdin
  BY <1>3 DEF StacksAreConsistent, Over
<1>12. stack'[ScopeWorker] # <<>> /\ stack'[ScopeWorker][1] = Stdin
  <2>1. Len(stack[ScopeWorker]) \in Nat \ {0}
    BY <1>1, <1>11, WorkersAssumption, EmptySeq
  <2>2. stack'[ScopeWorker][1] = Stdin
    BY <2>1, <1>2, <1>11, WorkersAssumption
  <2>3. Len(stack'[ScopeWorker]) # 0
    BY <2>1, <1>2, WorkersAssumption
  <2>4. QED
    BY <2>2, <2>3, EmptySeq
<1>13. QED
  BY <1>7, <1>8, <1>9, <1>10, <1>12 DEF StacksAreConsistent

\* A line that has responded leaves its stack.
LEMMA RespondKeepsStacks ==
    ASSUME TypeOK, StacksAreConsistent, NEW w \in Workers, NEW l \in Lines, Respond(w, l)
    PROVE  StacksAreConsistent'
<1> DEFINE n == Len(stack[w])
<1>1. /\ stack[w] \in Seq(Tasks)
      /\ stack[w] # <<>>
      /\ n \in Levels(w)
      /\ stack[w][n] = l
      /\ stack \in [Workers -> Seq(Tasks)]
      /\ phase \in [Lines -> Phases]
      /\ phase[l] = "respond"
  BY RunningIsOnTop DEF Respond, At, TypeOK
<1>2. /\ n \in Nat \ {0}
      /\ stack'[w] = Front(stack[w])
      /\ Len(stack'[w]) = n - 1
      /\ \A i \in 1 .. n - 1 : stack'[w][i] = stack[w][i]
      /\ stack'[w] = <<>> => n = 1
      /\ \A v \in Workers \ {w} : stack'[v] = stack[v]
  BY <1>1, Popped DEF Respond
<1>3. phase' = [phase EXCEPT ![l] = "answered"] /\ eof' = eof
  BY DEF Respond, Goto
<1>4. \A v \in Workers : \A i \in Levels(v)' :
          /\ i \in Levels(v)
          /\ stack'[v][i] = stack[v][i]
          /\ stack[v][i] # l
          /\ v = w => i # n
  <2> SUFFICES ASSUME NEW v \in Workers, NEW i \in Levels(v)'
               PROVE  /\ i \in Levels(v)
                      /\ stack'[v][i] = stack[v][i]
                      /\ stack[v][i] # l
                      /\ v = w => i # n
    OBVIOUS
  <2>1. i \in Levels(v) /\ stack'[v][i] = stack[v][i] /\ (v = w => i # n)
    BY <1>2 DEF Levels
  <2>2. QED
    BY <2>1, <1>1 DEF StacksAreConsistent
<1>5. \A v \in Workers : \A i \in Levels(v)' :
          stack'[v][i] \in Lines => phase'[stack'[v][i]] \notin {"unsent", "queued", "answered"}
  BY <1>1, <1>3, <1>4 DEF StacksAreConsistent
<1>6. \A u, v \in Workers : \A i \in Levels(u)', j \in Levels(v)' :
          stack'[u][i] = stack'[v][j] => u = v /\ i = j
  BY <1>4 DEF StacksAreConsistent
<1>7. \A v \in Workers : \A i \in Levels(v)' : stack'[v][i] = Stdin => v = ScopeWorker /\ i = 1
  BY <1>4 DEF StacksAreConsistent
<1>8. \A v \in Workers : \A i \in Levels(v)' : i # Len(stack'[v]) => Waits(stack[v][i])'
  <2> SUFFICES ASSUME NEW v \in Workers, NEW i \in Levels(v)', i # Len(stack'[v])
               PROVE  Waits(stack[v][i])'
    OBVIOUS
  <2>1. i \in Levels(v) /\ stack'[v][i] = stack[v][i] /\ stack[v][i] # l /\ i # Len(stack[v])
    BY <1>2, <1>4
  <2>2. Waits(stack[v][i])
    BY <2>1 DEF StacksAreConsistent
  <2>3. stack[v][i] \in Tasks
    BY <2>1, <1>1, ElementOfSeq DEF Levels
  <2>4. QED
    BY <2>1, <2>2, <2>3, <1>1, <1>3, LinesAssumption DEF Waits, Tasks
<1>9. stack[ScopeWorker] # <<>> /\ stack[ScopeWorker][1] = Stdin
  BY <1>1 DEF StacksAreConsistent, Over
<1>10. stack'[ScopeWorker] # <<>> /\ stack'[ScopeWorker][1] = Stdin
  <2>1. CASE w = ScopeWorker
    <3>1. n # 1
      BY <2>1, <1>1, <1>9, LinesAssumption
    <3>2. QED
      BY <3>1, <2>1, <1>2, <1>9
  <2>2. CASE w # ScopeWorker
    BY <2>2, <1>2, <1>9, WorkersAssumption
  <2>3. QED
    BY <2>1, <2>2
<1>11. QED
  BY <1>5, <1>6, <1>7, <1>8, <1>10 DEF StacksAreConsistent

LEMMA EndScopeKeepsStacks ==
    ASSUME TypeOK, StacksAreConsistent, NEW w \in Workers, EndScope(w)
    PROVE  StacksAreConsistent'
<1>1. /\ stack \in [Workers -> Seq(Tasks)]
      /\ stack' = [stack EXCEPT ![w] = <<>>]
      /\ UNCHANGED <<phase, eof>>
      /\ Over
  BY DEF TypeOK, EndScope, Over
<1>2. w = ScopeWorker
  BY RunningIsOnTop DEF EndScope, StacksAreConsistent
<1>3. stack'[w] = <<>> /\ \A v \in Workers \ {w} : stack'[v] = stack[v]
  BY <1>1
<1>4. \A v \in Workers : \A i \in Levels(v)' :
          i \in Levels(v) /\ stack'[v][i] = stack[v][i] /\ stack'[v] = stack[v]
  BY <1>3, EmptySeq DEF Levels
<1>5. \A v \in Workers : \A i \in Levels(v)' : i # Len(stack'[v]) => Waits(stack[v][i])'
  BY <1>1, <1>4 DEF StacksAreConsistent, Waits
<1>6. Over' /\ stack'[ScopeWorker] = <<>>
  BY <1>1, <1>2, <1>3 DEF Over
<1>7. QED
  BY <1>1, <1>4, <1>5, <1>6 DEF StacksAreConsistent

LEMMA ClientKeepsStacks ==
    ASSUME TypeOK, StacksAreConsistent, NEW w \in Workers, Client(w)
    PROVE  StacksAreConsistent'
<1>1. CASE CloseStdin(w)
  <2>1. UNCHANGED <<stack, phase>> /\ eof' = TRUE
    BY <1>1 DEF CloseStdin
  <2>2. QED
    BY <2>1 DEF StacksAreConsistent, Waits, Levels, Over
<1>2. ASSUME NEW l \in Lines, ReadLine(w, l) PROVE StacksAreConsistent'
  <2>1. /\ UNCHANGED <<stack, eof>>
        /\ phase' = [phase EXCEPT ![l] = "queued"]
        /\ phase[l] = "unsent"
        /\ ~eof
    BY <1>2 DEF ReadLine, Goto
  <2>2. /\ stack \in [Workers -> Seq(Tasks)]
        /\ phase \in [Lines -> Phases]
    BY DEF TypeOK
  <2>3. \A v \in Workers : \A i \in Levels(v) : stack[v][i] # l /\ stack[v][i] \in Tasks
    BY <2>1, <2>2, ElementOfSeq DEF StacksAreConsistent, Levels
  <2>4. \A v \in Workers : \A i \in Levels(v) : Waits(stack[v][i]) => Waits(stack[v][i])'
    BY <2>1, <2>2, <2>3 DEF Waits, Tasks
  <2>5. \A v \in Workers : \A i \in Levels(v) :
            stack[v][i] \in Lines => phase'[stack[v][i]] \notin {"unsent", "queued", "answered"}
    BY <2>1, <2>2, <2>3 DEF StacksAreConsistent
  <2>6. stack[ScopeWorker] # <<>>
    BY <2>1 DEF StacksAreConsistent, Over
  <2>7. QED
    BY <2>1, <2>4, <2>5, <2>6 DEF StacksAreConsistent, Levels
<1>3. QED
  BY <1>1, <1>2 DEF Client

LEMMA HandleKeepsStacks ==
    ASSUME TypeOK, StacksAreConsistent, NEW w \in Workers, NEW l \in Lines, Handle(w, l)
    PROVE  StacksAreConsistent'
<1>1. CASE Respond(w, l)
  BY <1>1, RespondKeepsStacks
<1>2. CASE BorrowScratch(w, l)
  BY <1>2 DEF BorrowScratch, StacksAreConsistent, Waits, Levels, Over
<1>3. ASSUME Handle(w, l), ~Respond(w, l), ~BorrowScratch(w, l)
      PROVE  /\ Running(w, l)
             /\ UNCHANGED <<stack, eof>>
             /\ \E p \in Phases \ {"unsent", "queued", "answered"} : Goto(l, p)
  <2>1. CASE Dispatch(w, l)
    BY <2>1, KindAssumption DEF Dispatch, At, FirstPhase, Phases
  <2>2. CASE AcquireGuard(w, l)
    BY <2>2 DEF AcquireGuard, At, Phases
  <2>3. CASE CloneSnapshot(w, l)
    BY <2>3 DEF CloneSnapshot, SnapshotTaken, At, Phases
  <2>4. CASE Compute(w, l)
    BY <2>4 DEF Compute, At, Phases
  <2>5. CASE ReturnScratch(w, l)
    BY <2>5 DEF ReturnScratch, At, Phases
  <2>6. CASE NextCore(w, l)
    BY <2>6 DEF NextCore, At, Phases
  <2>7. CASE DecodeAudio(w, l) \/ FinishExtraction(w, l)
    BY <2>7 DEF DecodeAudio, FinishExtraction, At, Phases
  <2>8. CASE AcquireWriter(w, l)
    BY <2>8 DEF AcquireWriter, At, Phases
  <2>9. CASE Publish(w, l)
    BY <2>9 DEF Publish, At, Phases
  <2>10. CASE SwapStore(w, l)
    BY <2>10 DEF SwapStore, At, Phases
  <2>11. QED
    BY <1>3, <2>1, <2>2, <2>3, <2>4, <2>5, <2>6, <2>7, <2>8, <2>9, <2>10 DEF Handle
<1>4. QED
  BY <1>1, <1>2, <1>3, StepKeepsStacks

LEMMA NextKeepsStacks == TypeOK /\ StacksAreConsistent /\ [Next]_vars => StacksAreConsistent'
<1> SUFFICES ASSUME TypeOK, StacksAreConsistent, [Next]_vars
             PROVE  StacksAreConsistent'
  OBVIOUS
<1>1. CASE UNCHANGED vars
  BY <1>1 DEF vars, StacksAreConsistent, Waits, Levels, Over
<1>2. ASSUME NEW w \in Workers, Client(w) \/ Run(w) PROVE StacksAreConsistent'
  BY <1>2, ClientKeepsStacks, EndScopeKeepsStacks, TakeKeepsStacks, HandleKeepsStacks DEF Run
<1>3. QED
  BY <1>1, <1>2 DEF Next

-----------------------------------------------------------------------------
(* Types.                                                                  *)

LEMMA HandleKeepsTypes ==
    ASSUME TypeOK, NEW w \in Workers, NEW l \in Lines, Handle(w, l)
    PROVE  TypeOK'
<1>1. CASE Dispatch(w, l)
  <2>1. FirstPhase(l) \in Phases
    BY KindAssumption DEF FirstPhase, Phases
  <2>2. phase' \in [Lines -> Phases] /\ outcome' \in [Lines -> Outcomes]
    BY <1>1, <2>1 DEF Dispatch, TypeOK, Goto, Phases, Outcomes
  <2>3. QED
    BY <1>1, <2>2 DEF Dispatch, TypeOK, locks, store
<1>2. CASE AcquireGuard(w, l)
  BY <1>2 DEF AcquireGuard, TypeOK, Goto, Phases, store
<1>3. CASE CloneSnapshot(w, l)
  BY <1>3 DEF CloneSnapshot, SnapshotTaken, TypeOK, Outcomes, Goto, Phases, store
<1>4. CASE Compute(w, l)
  BY <1>4 DEF Compute, TypeOK, Outcomes, Goto, Phases, locks, store
<1>5. CASE BorrowScratch(w, l)
  BY <1>5 DEF BorrowScratch, TypeOK, store
<1>6. CASE ReturnScratch(w, l)
  BY <1>6 DEF ReturnScratch, TypeOK, Goto, Phases, store
<1>7. CASE NextCore(w, l)
  BY <1>7 DEF NextCore, TypeOK, Goto, Phases, locks, store
<1>8. CASE DecodeAudio(w, l) \/ FinishExtraction(w, l)
  BY <1>8 DEF DecodeAudio, FinishExtraction, TypeOK, Outcomes, Goto, Phases, locks, store
<1>9. CASE AcquireWriter(w, l)
  BY <1>9 DEF AcquireWriter, TypeOK, Goto, Phases, store
<1>10. CASE Publish(w, l)
  <2>1. /\ phase' \in [Lines -> Phases]
        /\ outcome' \in [Lines -> Outcomes]
    BY <1>10 DEF Publish, TypeOK, Goto, Phases, Outcomes
  <2>2. root' \in Nat /\ writer' \in Lines \union {Nobody}
    BY <1>10 DEF Publish, TypeOK
  <2>3. snapshot' \in [Lines -> Nat]
    BY <1>10 DEF Publish, TypeOK
  <2>4. QED
    BY <1>10, <2>1, <2>2, <2>3 DEF Publish, TypeOK
<1>11. CASE SwapStore(w, l)
  BY <1>11 DEF SwapStore, TypeOK, Outcomes, Goto, Phases
<1>12. CASE Respond(w, l)
  <2>1. stack' = [stack EXCEPT ![w] = Front(stack[w])] /\ stack \in [Workers -> Seq(Tasks)]
    BY <1>12 DEF Respond, TypeOK
  <2>2. Front(stack[w]) \in Seq(Tasks)
    BY <1>12, RunningIsOnTop, Popped DEF Respond, At
  <2>3. stack' \in [Workers -> Seq(Tasks)]
    BY <2>1, <2>2
  <2>4. QED
    BY <1>12, <2>3 DEF Respond, TypeOK, Goto, Phases, locks, store
<1>13. QED
  BY <1>1, <1>2, <1>3, <1>4, <1>5, <1>6, <1>7, <1>8, <1>9, <1>10, <1>11, <1>12 DEF Handle

LEMMA NextKeepsTypes == TypeOK /\ [Next]_vars => TypeOK'
<1> SUFFICES ASSUME TypeOK, [Next]_vars
             PROVE  TypeOK'
  OBVIOUS
<1>1. CASE UNCHANGED vars
  BY <1>1 DEF vars, locks, store, TypeOK
<1>2. ASSUME NEW w \in Workers, NEW l \in Lines, ReadLine(w, l) PROVE TypeOK'
  <2>1. WritesAcked \subseteq Nat
    BY DEF WritesAcked, TypeOK
  <2>2. QED
    BY <1>2, <2>1 DEF ReadLine, TypeOK, Goto, Phases, locks, store
<1>3. ASSUME NEW w \in Workers, CloseStdin(w) PROVE TypeOK'
  BY <1>3 DEF CloseStdin, TypeOK, locks, store
<1>4. ASSUME NEW w \in Workers, EndScope(w) PROVE TypeOK'
  <2>1. stack' \in [Workers -> Seq(Tasks)]
    BY <1>4, EmptySeq DEF EndScope, TypeOK
  <2>2. QED
    BY <1>4, <2>1 DEF EndScope, TypeOK, locks, store
<1>5. ASSUME NEW w \in Workers, NEW l \in Lines, Take(w, l) PROVE TypeOK'
  <2>1. stack' \in [Workers -> Seq(Tasks)]
    BY <1>5, Pushed DEF Take, TypeOK, Tasks
  <2>2. QED
    BY <1>5, <2>1 DEF Take, TypeOK, Goto, Phases, locks, store
<1>6. QED
  BY <1>1, <1>2, <1>3, <1>4, <1>5, HandleKeepsTypes DEF Next, Client, Run

-----------------------------------------------------------------------------
(* Locks and scratches.                                                    *)

\* A step of the line between phases that hold nothing.
LEMMA StepKeepsHolders ==
    ASSUME TypeOK, HoldersAreKnown, NEW l \in Lines, NEW p \in Phases,
           phase[l] \notin {"clone", "fft", "publish", "swap"},
           p \notin {"publish", "swap"}, Goto(l, p), UNCHANGED <<stack, locks>>
    PROVE  HoldersAreKnown'
BY DEF TypeOK, HoldersAreKnown, Goto, At, Running, IsIdle, locks

\* A worker whose stack changes has no scratch borrowed.
LEMMA StackedStepKeepsHolders ==
    ASSUME TypeOK, HoldersAreKnown, NEW w \in Workers, NEW s, stack' = [stack EXCEPT ![w] = s],
           \A l \in Lines : ~At(w, l, "fft"), UNCHANGED locks,
           \/ UNCHANGED phase
           \/ \E l \in Lines, p \in {"started", "answered"} :
                 phase[l] \in {"queued", "respond"} /\ Goto(l, p)
    PROVE  HoldersAreKnown'
<1>1. scratch[w] = {} /\ scratch' = scratch
  BY DEF TypeOK, HoldersAreKnown, locks
<1>2. \A v \in Workers \ {w} : stack'[v] = stack[v]
  BY DEF TypeOK
<1>3. \A v \in Workers : \A l \in scratch[v] : v # w /\ At(v, l, "fft") /\ l \in Lines
  BY <1>1 DEF TypeOK, HoldersAreKnown
<1>4. \A v \in Workers : \A l \in scratch'[v] : At(v, l, "fft")'
  BY <1>1, <1>2, <1>3 DEF TypeOK, At, Running, IsIdle, Goto
<1>5. QED
  BY <1>4 DEF TypeOK, HoldersAreKnown, Goto, locks

\* Only one line runs on a worker.
LEMMA OneRuns ==
    ASSUME TypeOK, StacksAreConsistent, NEW w \in Workers, NEW v \in Workers, NEW l, NEW k,
           Running(w, l), Running(v, k)
    PROVE  w = v <=> l = k
<1>1. /\ Len(stack[w]) \in Levels(w) /\ stack[w][Len(stack[w])] = l
      /\ Len(stack[v]) \in Levels(v) /\ stack[v][Len(stack[v])] = k
  BY RunningIsOnTop
<1>2. QED
  BY <1>1 DEF StacksAreConsistent

LEMMA HandleKeepsHolders ==
    ASSUME TypeOK, StacksAreConsistent, HoldersAreKnown, NEW w \in Workers, NEW l \in Lines,
           Handle(w, l)
    PROVE  HoldersAreKnown'
<1>1. CASE Dispatch(w, l)
  BY <1>1, KindAssumption, StepKeepsHolders DEF Dispatch, At, FirstPhase, Phases
<1>2. CASE AcquireGuard(w, l)
  BY <1>2 DEF AcquireGuard, TypeOK, HoldersAreKnown, Goto, At, Running, IsIdle
<1>3. CASE CloneSnapshot(w, l)
  BY <1>3 DEF CloneSnapshot, SnapshotTaken, TypeOK, HoldersAreKnown, Goto, At, Running, IsIdle
<1>4. CASE Compute(w, l)
  BY <1>4, StepKeepsHolders DEF Compute, At, Phases
<1>5. CASE BorrowScratch(w, l)
  BY <1>5 DEF BorrowScratch, TypeOK, HoldersAreKnown, At, Running, IsIdle
<1>6. CASE ReturnScratch(w, l)
  <2>1. \A v \in Workers : \A k \in scratch'[v] : k \in scratch[v] /\ k # l
    <3> SUFFICES ASSUME NEW v \in Workers, NEW k \in scratch'[v]
                 PROVE  k \in scratch[v] /\ k # l
      OBVIOUS
    <3>1. k \in scratch[v] /\ (v = w => k # l)
      BY <1>6 DEF ReturnScratch, TypeOK
    <3>2. Running(v, k) /\ Running(w, l)
      BY <1>6, <3>1 DEF ReturnScratch, HoldersAreKnown, At
    <3>3. QED
      BY <3>1, <3>2, OneRuns
  <2>2. QED
    BY <1>6, <2>1 DEF ReturnScratch, TypeOK, HoldersAreKnown, Goto, At, Running, IsIdle
<1>7. CASE NextCore(w, l)
  BY <1>7, StepKeepsHolders DEF NextCore, At, Phases
<1>8. CASE DecodeAudio(w, l) \/ FinishExtraction(w, l)
  BY <1>8, StepKeepsHolders DEF DecodeAudio, FinishExtraction, At, Phases
<1>9. CASE AcquireWriter(w, l)
  BY <1>9, LinesAssumption DEF AcquireWriter, TypeOK, HoldersAreKnown, Goto, At, Running, IsIdle
<1>10. CASE Publish(w, l)
  <2>1. writer = l /\ phase[l] = "publish" /\ UNCHANGED <<stack, guards, scratch>>
    BY <1>10 DEF Publish, At, HoldersAreKnown
  <2>2. \/ Goto(l, "swap") /\ writer' = writer
        \/ Goto(l, "respond") /\ writer' = Nobody
    BY <1>10 DEF Publish
  <2>3. QED
    BY <2>1, <2>2, LinesAssumption DEF TypeOK, HoldersAreKnown, Goto, At, Running, IsIdle
<1>11. CASE SwapStore(w, l)
  BY <1>11, LinesAssumption DEF SwapStore, TypeOK, HoldersAreKnown, Goto, At, Running, IsIdle
<1>12. CASE Respond(w, l)
  <2>1. \A k \in Lines : ~At(w, k, "fft")
    BY <1>12, OneRuns DEF Respond, At
  <2>2. QED
    BY <1>12, <2>1, StackedStepKeepsHolders DEF Respond, At
<1>13. QED
  BY <1>1, <1>2, <1>3, <1>4, <1>5, <1>6, <1>7, <1>8, <1>9, <1>10, <1>11, <1>12 DEF Handle

LEMMA NextKeepsHolders ==
    TypeOK /\ StacksAreConsistent /\ HoldersAreKnown /\ [Next]_vars => HoldersAreKnown'
<1> SUFFICES ASSUME TypeOK, StacksAreConsistent, HoldersAreKnown, [Next]_vars
             PROVE  HoldersAreKnown'
  OBVIOUS
<1>1. CASE UNCHANGED vars
  BY <1>1 DEF vars, locks, HoldersAreKnown, At, Running, IsIdle
<1>2. ASSUME NEW w \in Workers, NEW l \in Lines, ReadLine(w, l) PROVE HoldersAreKnown'
  BY <1>2, StepKeepsHolders DEF ReadLine, Phases
<1>3. ASSUME NEW w \in Workers, CloseStdin(w) PROVE HoldersAreKnown'
  BY <1>3 DEF CloseStdin, locks, HoldersAreKnown, At, Running, IsIdle
<1>4. ASSUME NEW w \in Workers, EndScope(w) PROVE HoldersAreKnown'
  <2>1. \A l \in Lines : ~At(w, l, "fft")
    BY <1>4 DEF EndScope, At
  <2>2. QED
    BY <1>4, <2>1, StackedStepKeepsHolders DEF EndScope
<1>5. ASSUME NEW w \in Workers, NEW l \in Lines, Take(w, l) PROVE HoldersAreKnown'
  <2>1. \A k \in Lines : ~At(w, k, "fft")
    BY <1>5, LinesAssumption DEF Take, TakesTasks, Waits, At, Running
  <2>2. QED
    BY <1>5, <2>1, StackedStepKeepsHolders DEF Take
<1>6. QED
  BY <1>1, <1>2, <1>3, <1>4, <1>5, HandleKeepsHolders DEF Next, Client, Run

-----------------------------------------------------------------------------
(* Responses.                                                              *)

LEMMA NextKeepsResponses ==
    TypeOK /\ ResponsesAreKnown /\ [Next]_vars => ResponsesAreKnown'
<1> SUFFICES ASSUME TypeOK, ResponsesAreKnown, [Next]_vars
             PROVE  ResponsesAreKnown'
  OBVIOUS
<1> USE DEF TypeOK, ResponsesAreKnown
<1>1. CASE UNCHANGED vars
  BY <1>1 DEF vars
<1>2. ASSUME NEW w \in Workers, Client(w) PROVE ResponsesAreKnown'
  BY <1>2 DEF Client, ReadLine, CloseStdin, Goto
<1>3. ASSUME NEW w \in Workers, EndScope(w) PROVE ResponsesAreKnown'
  BY <1>3 DEF EndScope
<1>4. ASSUME NEW w \in Workers, NEW l \in Lines, Take(w, l) PROVE ResponsesAreKnown'
  BY <1>4 DEF Take, Goto
<1>5. ASSUME NEW w \in Workers, NEW l \in Lines, Handle(w, l) PROVE ResponsesAreKnown'
  <2>1. CASE Dispatch(w, l)
    BY <2>1, KindAssumption DEF Dispatch, FirstPhase, At, Goto
  <2>2. CASE AcquireGuard(w, l)
    BY <2>2 DEF AcquireGuard, At, Goto
  <2>3. CASE CloneSnapshot(w, l)
    BY <2>3 DEF CloneSnapshot, SnapshotTaken, At, Goto
  <2>4. CASE Compute(w, l)
    BY <2>4 DEF Compute, At, Goto
  <2>5. CASE BorrowScratch(w, l) \/ ReturnScratch(w, l) \/ NextCore(w, l)
    BY <2>5 DEF BorrowScratch, ReturnScratch, NextCore, At, Goto
  <2>6. CASE DecodeAudio(w, l) \/ FinishExtraction(w, l)
    BY <2>6 DEF DecodeAudio, FinishExtraction, At, Goto
  <2>7. CASE AcquireWriter(w, l)
    BY <2>7 DEF AcquireWriter, At, Goto
  <2>8. CASE Publish(w, l)
    BY <2>8 DEF Publish, At, Goto
  <2>9. CASE SwapStore(w, l)
    BY <2>9 DEF SwapStore, At, Goto
  <2>10. CASE Respond(w, l)
    BY <2>10 DEF Respond, At, Goto
  <2>11. QED
    BY <1>5, <2>1, <2>2, <2>3, <2>4, <2>5, <2>6, <2>7, <2>8, <2>9, <2>10 DEF Handle
<1>6. QED
  BY <1>1, <1>2, <1>3, <1>4, <1>5 DEF Next, Run

-----------------------------------------------------------------------------
(* What queries are served from.                                           *)

\* What a step of line l that neither publishes nor swaps does to snapshots.
Snapshotted(l) ==
    \/ snapshot' = snapshot
    \/ phase[l] = "clone" /\ snapshot' = [snapshot EXCEPT ![l] = served]

Results(l, o) == Goto(l, "respond") /\ outcome' = [outcome EXCEPT ![l] = o]

\* The line moves on without a result.
LEMMA MoveKeepsServed ==
    ASSUME TypeOK, ResponsesAreKnown, StoreIsServed, AcknowledgedIsServed, NEW l \in Lines,
           NEW p \in Phases \ {"swap"}, Goto(l, p), phase[l] # "swap", Snapshotted(l),
           UNCHANGED <<store, acked, outcome>>,
           p = "compute" => \A v \in acked[l] : v <= snapshot'[l]
    PROVE  StoreIsServed' /\ AcknowledgedIsServed'
<1>1. StoreIsServed'
  BY DEF TypeOK, StoreIsServed, Goto, store, Snapshotted
<1>2. AcknowledgedIsServed'
  BY DEF TypeOK, AcknowledgedIsServed, Goto, store, ResponsesAreKnown, Snapshotted
<1>3. QED
  BY <1>1, <1>2

\* The line has a result.
LEMMA ResultKeepsServed ==
    ASSUME TypeOK, ResponsesAreKnown, StoreIsServed, AcknowledgedIsServed, NEW l \in Lines,
           phase[l] \notin {"swap", "respond", "answered"}, Snapshotted(l),
           UNCHANGED <<store, acked>>,
           NEW o \in {"answer", "refused"}, Results(l, o),
           o = "answer" /\ Kind[l] = "read" => \A v \in acked[l] : v <= snapshot'[l]
    PROVE  StoreIsServed' /\ AcknowledgedIsServed'
<1>1. StoreIsServed'
  BY DEF TypeOK, StoreIsServed, Goto, store, Snapshotted, ResponsesAreKnown, Results
<1>2. AcknowledgedIsServed'
  BY DEF TypeOK, AcknowledgedIsServed, Goto, store, ResponsesAreKnown, Snapshotted, Results
<1>3. QED
  BY <1>1, <1>2

LEMMA PublishKeepsServed ==
    ASSUME TypeOK, HoldersAreKnown, ResponsesAreKnown, StoreIsServed, AcknowledgedIsServed,
           NEW w \in Workers, NEW l \in Lines, Publish(w, l)
    PROVE  StoreIsServed' /\ AcknowledgedIsServed'
<1>1. /\ phase[l] = "publish"
      /\ outcome[l] = "none"
      /\ \A k \in Lines : phase[k] # "swap"
      /\ served' = served /\ acked' = acked
  <2>1. phase[l] = "publish" /\ served' = served /\ acked' = acked
    BY DEF Publish, At
  <2>2. writer = l
    BY <2>1 DEF HoldersAreKnown
  <2>3. QED
    BY <2>1, <2>2 DEF HoldersAreKnown, ResponsesAreKnown
<1>2. root \in Nat /\ served \in Nat /\ served <= root
  BY DEF TypeOK, StoreIsServed
<1>3. CASE /\ root' \in {root, root + 1}
           /\ snapshot' = [snapshot EXCEPT ![l] = root']
           /\ Goto(l, "swap")
           /\ outcome' = outcome
  <2>1. StoreIsServed'
    BY <1>1, <1>2, <1>3 DEF TypeOK, StoreIsServed, Goto
  <2>2. AcknowledgedIsServed'
    BY <1>1, <1>3 DEF TypeOK, AcknowledgedIsServed, Goto
  <2>3. QED
    BY <2>1, <2>2
<1>4. CASE /\ root' \in {root, root + 1}
           /\ outcome' = [outcome EXCEPT ![l] = "internal"]
           /\ Goto(l, "respond")
           /\ snapshot' = snapshot
  <2>1. outcome'[l] = "internal"
    BY <1>4 DEF TypeOK
  <2>2. StoreIsServed'
    BY <1>1, <1>2, <1>4, <2>1 DEF TypeOK, StoreIsServed, Goto
  <2>3. AcknowledgedIsServed'
    BY <1>1, <1>4 DEF TypeOK, AcknowledgedIsServed, Goto
  <2>4. QED
    BY <2>2, <2>3
<1>5. CASE /\ outcome' = [outcome EXCEPT ![l] = "refused"]
           /\ Goto(l, "respond")
           /\ UNCHANGED <<root, snapshot>>
  <2>1. Results(l, "refused") /\ Snapshotted(l) /\ UNCHANGED <<store, acked>>
    BY <1>1, <1>5 DEF Results, Snapshotted, store
  <2>2. QED
    BY <1>1, <2>1, ResultKeepsServed
<1>6. QED
  BY <1>3, <1>4, <1>5 DEF Publish

LEMMA SwapKeepsServed ==
    ASSUME TypeOK, HoldersAreKnown, StoreIsServed, AcknowledgedIsServed,
           NEW w \in Workers, NEW l \in Lines, SwapStore(w, l)
    PROVE  StoreIsServed' /\ AcknowledgedIsServed' /\ served' >= served
<1>1. /\ phase[l] = "swap"
      /\ served' = snapshot[l]
      /\ outcome' = [outcome EXCEPT ![l] = "published"]
      /\ Goto(l, "respond")
      /\ UNCHANGED <<root, snapshot, acked>>
  BY DEF SwapStore, At
<1>2. root \in Nat /\ served \in Nat /\ served <= root /\ snapshot[l] = root
  BY <1>1 DEF TypeOK, StoreIsServed
<1>3. StoreIsServed'
  BY <1>1, <1>2 DEF TypeOK, StoreIsServed, Goto
<1>4. AcknowledgedIsServed'
  <2> SUFFICES ASSUME NEW k \in Lines
               PROVE  /\ outcome'[k] = "published" => snapshot'[k] <= served'
                      /\ \A v \in acked'[k] : v <= served'
                      /\ phase'[k] = "compute" \/ (outcome'[k] = "answer" /\ Kind[k] = "read") =>
                            \A v \in acked'[k] : v <= snapshot'[k]
    BY DEF AcknowledgedIsServed
  <2>1. snapshot[k] \in Nat /\ acked[k] \subseteq Nat
    BY DEF TypeOK
  <2>2. /\ outcome'[k] = IF k = l THEN "published" ELSE outcome[k]
        /\ phase'[k] = IF k = l THEN "respond" ELSE phase[k]
    BY <1>1 DEF TypeOK, Goto
  <2>3. QED
    BY <1>1, <1>2, <2>1, <2>2 DEF AcknowledgedIsServed
<1>5. QED
  BY <1>1, <1>2, <1>3, <1>4

LEMMA HandleKeepsServed ==
    ASSUME TypeOK, HoldersAreKnown, ResponsesAreKnown, StoreIsServed, AcknowledgedIsServed,
           NEW w \in Workers, NEW l \in Lines, Handle(w, l)
    PROVE  StoreIsServed' /\ AcknowledgedIsServed' /\ served' >= served
<1>1. served \in Nat
  BY DEF TypeOK
<1>4. CASE Dispatch(w, l)
  <2>1. FirstPhase(l) \in Phases \ {"compute", "swap"}
    BY KindAssumption DEF FirstPhase, Phases
  <2>2. UNCHANGED <<store, acked, snapshot>> /\ phase[l] = "started"
    BY <1>4 DEF Dispatch, At
  <2>3. CASE Goto(l, FirstPhase(l)) /\ UNCHANGED outcome
    BY <1>1, <2>1, <2>2, <2>3, MoveKeepsServed DEF store, Snapshotted
  <2>4. CASE Results(l, "refused")
    BY <1>1, <2>2, <2>4, ResultKeepsServed DEF store, Snapshotted
  <2>5. QED
    BY <1>4, <2>3, <2>4 DEF Dispatch, Results
<1>5. CASE CloneSnapshot(w, l)
  <2>1. /\ phase[l] = "clone"
        /\ UNCHANGED <<store, acked>>
        /\ Snapshotted(l)
        /\ \A v \in acked[l] : v <= snapshot'[l]
    BY <1>5 DEF CloneSnapshot, At, AcknowledgedIsServed, TypeOK, Snapshotted
  <2>2. CASE Goto(l, "compute") /\ UNCHANGED outcome
    BY <1>1, <2>1, <2>2, MoveKeepsServed DEF store, Phases
  <2>3. CASE /\ Goto(l, "respond")
             /\ outcome' \in { [outcome EXCEPT ![l] = o] : o \in {"answer", "refused"} }
    <3>1. PICK o \in {"answer", "refused"} : Results(l, o)
      BY <2>3 DEF Results
    <3>2. QED
      BY <1>1, <2>1, <3>1, ResultKeepsServed DEF store
  <2>4. QED
    BY <1>5, <2>2, <2>3 DEF CloneSnapshot, SnapshotTaken
<1>6. CASE Compute(w, l)
  <2>1. /\ phase[l] = "compute"
        /\ UNCHANGED <<store, acked, snapshot>>
        /\ \A v \in acked[l] : v <= snapshot'[l]
    BY <1>6 DEF Compute, At, AcknowledgedIsServed
  <2>2. PICK o \in {"answer", "refused"} : Results(l, o)
    BY <1>6 DEF Compute, Results
  <2>3. QED
    BY <1>1, <2>1, <2>2, ResultKeepsServed DEF store, Snapshotted
<1>7. CASE DecodeAudio(w, l) \/ FinishExtraction(w, l)
  <2>1. phase[l] \in {"decode", "transform"} /\ UNCHANGED <<store, acked, snapshot>>
    BY <1>7 DEF DecodeAudio, FinishExtraction, At
  <2>2. CASE (\E p \in {"fft", "hung", "lock"} : Goto(l, p)) /\ UNCHANGED outcome
    BY <1>1, <2>1, <2>2, MoveKeepsServed DEF store, Snapshotted, Phases
  <2>3. CASE /\ Kind[l] = "extract"
             /\ Results(l, "answer")
    BY <1>1, <2>1, <2>3, ResultKeepsServed DEF store, Snapshotted
  <2>4. CASE Results(l, "refused")
    BY <1>1, <2>1, <2>4, ResultKeepsServed DEF store, Snapshotted
  <2>5. QED
    BY <1>7, <2>2, <2>3, <2>4 DEF DecodeAudio, FinishExtraction, Results
<1>8. CASE BorrowScratch(w, l)
  BY <1>1, <1>8 DEF BorrowScratch, store, StoreIsServed, AcknowledgedIsServed
<1>9. CASE Publish(w, l)
  BY <1>1, <1>9, PublishKeepsServed DEF Publish
<1>10. CASE SwapStore(w, l)
  BY <1>10, SwapKeepsServed
<1>11. CASE Respond(w, l)
  <2>1. /\ phase[l] = "respond"
        /\ UNCHANGED <<store, acked, snapshot, outcome>>
        /\ Goto(l, "answered")
    BY <1>11 DEF Respond, At
  <2>2. QED
    BY <1>1, <2>1, MoveKeepsServed DEF store, Snapshotted, Phases
<1>12. CASE AcquireGuard(w, l) \/ ReturnScratch(w, l) \/ NextCore(w, l) \/ AcquireWriter(w, l)
  <2>1. /\ phase[l] \in {"guard", "fft", "transform", "lock"}
        /\ UNCHANGED <<store, acked, snapshot, outcome>>
        /\ \E p \in {"clone", "transform", "fft", "publish"} : Goto(l, p)
    BY <1>12 DEF AcquireGuard, ReturnScratch, NextCore, AcquireWriter, At
  <2>2. QED
    BY <1>1, <2>1, MoveKeepsServed DEF store, Snapshotted, Phases
<1>13. QED
  BY <1>4, <1>5, <1>6, <1>7, <1>8, <1>9, <1>10, <1>11, <1>12 DEF Handle

LEMMA NextKeepsServed ==
    IInv /\ [Next]_vars => StoreIsServed' /\ AcknowledgedIsServed' /\ served' >= served
<1> SUFFICES ASSUME IInv, [Next]_vars
             PROVE  StoreIsServed' /\ AcknowledgedIsServed' /\ served' >= served
  OBVIOUS
<1>1. TypeOK /\ ResponsesAreKnown /\ HoldersAreKnown /\ StoreIsServed /\ AcknowledgedIsServed
  BY DEF IInv
<1>2. served \in Nat /\ root \in Nat /\ outcome \in [Lines -> Outcomes]
  BY <1>1 DEF TypeOK
<1>3. CASE /\ UNCHANGED <<phase, store, snapshot, outcome, acked>>
  BY <1>1, <1>2, <1>3 DEF store, StoreIsServed, AcknowledgedIsServed
<1>4. ASSUME NEW w \in Workers, NEW l \in Lines, Take(w, l)
      PROVE  StoreIsServed' /\ AcknowledgedIsServed' /\ served' >= served
  <2>1. /\ phase[l] = "queued"
        /\ Goto(l, "started")
        /\ UNCHANGED <<store, acked, snapshot, outcome>>
    BY <1>4 DEF Take
  <2>2. QED
    BY <1>1, <1>2, <2>1, MoveKeepsServed DEF store, Snapshotted, Phases
<1>5. ASSUME NEW w \in Workers, NEW l \in Lines, ReadLine(w, l)
      PROVE  StoreIsServed' /\ AcknowledgedIsServed' /\ served' >= served
  <2>1. /\ phase[l] = "unsent"
        /\ phase' = [phase EXCEPT ![l] = "queued"]
        /\ acked' = [acked EXCEPT ![l] = WritesAcked]
        /\ UNCHANGED <<root, served, snapshot, outcome>>
        /\ outcome[l] = "none"
    BY <1>1, <1>5 DEF ReadLine, Goto, store, ResponsesAreKnown
  <2>2. \A v \in WritesAcked : v <= served
    BY <1>1 DEF WritesAcked, AcknowledgedIsServed
  <2>3. StoreIsServed'
    BY <1>1, <2>1 DEF StoreIsServed, TypeOK
  <2>4. AcknowledgedIsServed'
    BY <1>1, <2>1, <2>2 DEF AcknowledgedIsServed, TypeOK
  <2>5. QED
    BY <1>2, <2>1, <2>3, <2>4
<1>6. QED
  <2>1. CASE UNCHANGED vars
    BY <2>1, <1>3 DEF vars, store
  <2>2. ASSUME NEW w \in Workers, CloseStdin(w) \/ EndScope(w)
        PROVE  StoreIsServed' /\ AcknowledgedIsServed' /\ served' >= served
    BY <2>2, <1>3 DEF CloseStdin, EndScope
  <2>3. QED
    BY <1>1, <1>4, <1>5, <2>1, <2>2, HandleKeepsServed DEF Next, Client, Run

-----------------------------------------------------------------------------
(* The invariant, and what follows from it.                                *)

LEMMA InitIInv == Init => IInv
<1> SUFFICES ASSUME Init PROVE IInv
  OBVIOUS
<1>1. \A w \in Workers : stack[w] = IF w = ScopeWorker THEN <<Stdin>> ELSE <<>>
  BY DEF Init
<1>2. TypeOK
  <2>1. <<Stdin>> \in Seq(Tasks) /\ <<>> \in Seq(Tasks)
    BY DEF Tasks
  <2>2. stack \in [Workers -> Seq(Tasks)]
    BY <2>1 DEF Init
  <2>3. root \in Nat /\ served \in Nat /\ writer \in Lines \union {Nobody} /\ guards \subseteq Lines
    BY InitialAssumption DEF Init
  <2>4. /\ phase \in [Lines -> Phases]
        /\ outcome \in [Lines -> Outcomes]
        /\ snapshot \in [Lines -> Nat] /\ answers \in [Lines -> Nat]
        /\ acked \in [Lines -> SUBSET Nat] /\ scratch \in [Workers -> SUBSET Lines]
    BY DEF Init, Phases, Outcomes
  <2>5. QED
    BY <2>2, <2>3, <2>4 DEF Init, TypeOK
<1>3. StacksAreConsistent
  <2>1. \A w \in Workers : \A i \in Levels(w) : w = ScopeWorker /\ i = 1 /\ stack[w][i] = Stdin
    BY <1>1 DEF Levels
  <2>2. Len(stack[ScopeWorker]) = 1 /\ stack[ScopeWorker] = <<Stdin>>
    BY <1>1, WorkersAssumption
  <2>3. QED
    BY <2>1, <2>2, LinesAssumption, WorkersAssumption DEF StacksAreConsistent, Levels
<1>4. QED
  BY <1>2, <1>3, LinesAssumption, InitialAssumption
  DEF Init, IInv, HoldersAreKnown, ResponsesAreKnown, StoreIsServed, AcknowledgedIsServed

LEMMA NextKeepsIInv == IInv /\ [Next]_vars => IInv'
BY NextKeepsTypes, NextKeepsStacks, NextKeepsHolders, NextKeepsResponses, NextKeepsServed DEF IInv

\* The invariant holds in every behaviour of the daemon.
THEOREM DaemonInvariant == Spec => []IInv
BY InitIInv, NextKeepsIInv, PTL DEF Spec

\* Every variable of the executor keeps its type (daemon.rs, the whole state).
THEOREM DaemonTypes == Spec => []TypeOK
BY DaemonInvariant, PTL DEF IInv

\* Whatever is suspended under another task holds no lock and no scratch: this
\* is what makes it safe to serve requests and to compute on one pool.
THEOREM NothingHeldStaysSuspended == Spec => []NothingHeldIsSuspended
<1>1. IInv => NothingHeldIsSuspended
  <2> SUFFICES ASSUME IInv, NEW w \in Workers, NEW i \in 1 .. Len(stack[w]) - 1
               PROVE  stack[w][i] \notin guards \union scratch[w] \union {writer}
    BY DEF NothingHeldIsSuspended, Suspended
  <2>1. /\ stack[w] \in Seq(Tasks) /\ guards \subseteq Lines /\ scratch[w] \subseteq Lines
        /\ writer \in Lines \union {Nobody}
    BY DEF IInv, TypeOK
  <2>2. i \in Levels(w) /\ i # Len(stack[w])
    BY <2>1, LenProperties DEF Levels
  <2>3. Waits(stack[w][i]) /\ stack[w][i] \in Lines \union {Stdin}
    BY <2>1, <2>2, ElementOfSeq DEF IInv, StacksAreConsistent, Levels, Tasks
  <2>4. QED
    BY <2>1, <2>3, LinesAssumption DEF IInv, HoldersAreKnown, Waits, At
<1>2. QED
  BY <1>1, DaemonInvariant, PTL

\* process_fft never finds the scratch of its thread borrowed.
THEOREM ScratchStaysBorrowedOnce == Spec => []ScratchIsBorrowedOnce
<1>1. IInv => ScratchIsBorrowedOnce
  <2> SUFFICES ASSUME IInv, NEW w \in Workers
               PROVE  Cardinality(scratch[w]) <= 1
    BY DEF ScratchIsBorrowedOnce
  <2>1. \A l \in scratch[w] : l = Last(stack[w])
    BY DEF IInv, HoldersAreKnown, At, Running
  <2> DEFINE top == {Last(stack[w])}
  <2>2. scratch[w] \in SUBSET top
    BY <2>1
  <2>3. IsFiniteSet(top) /\ Cardinality(top) = 1
    BY FS_Singleton
  <2> HIDE DEF top
  <2>4. Cardinality(scratch[w]) <= Cardinality(top)
    BY <2>2, <2>3, FS_Subset
  <2>5. QED
    BY <2>3, <2>4
<1>2. QED
  BY <1>1, DaemonInvariant, PTL

\* When no write is in progress and none has failed, queries are served from
\* the newest generation.
THEOREM ServedStaysNewest == Spec => []ServedIsNewest
<1>1. IInv => ServedIsNewest
  BY LinesAssumption DEF IInv, HoldersAreKnown, StoreIsServed, ServedIsNewest
<1>2. QED
  BY <1>1, DaemonInvariant, PTL

\* The shared Arc never goes back to an earlier generation.
THEOREM ServedStaysMonotone == Spec => ServedNeverGoesBack
<1>1. IInv /\ [Next]_vars => [served' >= served]_vars
  BY NextKeepsServed
<1>2. QED
  BY <1>1, DaemonInvariant, PTL DEF Spec, ServedNeverGoesBack

\* A query sees every write that was acknowledged before it was sent.
THEOREM WritesAreRead == Spec => []ReadYourWrites
<1>1. IInv => ReadYourWrites
  BY DEF IInv, TypeOK, AcknowledgedIsServed, ReadYourWrites
<1>2. QED
  BY <1>1, DaemonInvariant, PTL

\* The process ends with one response for every line that it read.
THEOREM ExitIsComplete == Spec => []ExitAnswersEveryLine
<1>1. IInv => ExitAnswersEveryLine
  BY WorkersAssumption
  DEF IInv, ResponsesAreKnown, StacksAreConsistent, Over, IsIdle, ExitAnswersEveryLine
<1>2. QED
  BY <1>1, DaemonInvariant, PTL
=============================================================================
