-------------------------------- MODULE Query --------------------------------
(***************************************************************************)
(* The queries of the daemon that compare prints: match (matcher.rs), span *)
(* and crosscheck (span.rs), with one line for each resource or, on        *)
(* request, all of them, and the lines that passages and discover are made *)
(* from (passage.rs): all of them, in regions that overlap.                *)
(*                                                                         *)
(* A request reads two immutable stores: a, which holds the probes, and b, *)
(* the target.  It cuts the probe's window into regions, one after the     *)
(* other, and then every pair of a region and a resource is a task of the  *)
(* pool that votes for line after line.  Seconds are counted in ticks: bin *)
(* t is Latency + t * Step.  Of the arithmetic of f64 the model keeps what *)
(* a window can tell: some bins' seconds are rounded up to the next bin.   *)
(***************************************************************************)
EXTENDS Matcher

CONSTANTS
    Worlds,       \* pairs of stores: a and b, the prints of their keys, and whether
                  \* their configurations are compatible
    Scripts,      \* the sequences of requests a client sends
    MaxBin,       \* u32::MAX
    Latency,      \* the ticks before bin 0
    Step,         \* the ticks of a bin
    RoundedBins,  \* the bins t for which seconds_to_bin(bins_to_seconds(t)) is t + 1
    RegionBins,   \* the bins of REGION_SECONDS
    WindowBins,   \* the bins of a region of PASSAGE_GEOMETRY
    HopBins,      \* and those from its start to the next one's
    None

ASSUME QueryAssumption ==
    /\ MaxBin \in Nat /\ Latency \in Nat
    /\ {Step, RegionBins, WindowBins, HopBins} \subseteq Nat \ {0}
    /\ RoundedBins \subseteq Nat /\ None \notin Nat

\* A print that is stored or sent.
Fingerprint == [hash : Nat, t : 0 .. MaxBin, f : Nat]

InOrder(prints) == \A i, j \in DOMAIN prints : i < j => prints[i].t <= prints[j].t

\* Of the stores, a shard holds the prints of a resource by their times.
ASSUME WorldsAssumption ==
    \A w \in Worlds :
        /\ w.a \in Seq(Seq(Fingerprint)) /\ w.b \in Seq(Seq(Fingerprint)) /\ w.compatible \in BOOLEAN
        /\ \A key \in DOMAIN w.a : InOrder(w.a[key])

\* A request as the protocol admits it.  A pair query has one target.
IsPair(q) == q.verb \in {"span", "passages"}

Request ==
    [verb : {"match", "span", "crosscheck", "passages", "discover"}, prints : Seq(Fingerprint),
     key : Nat, window : {None} \cup (Nat \X Nat), targets : {None} \cup SUBSET Nat,
     k : Nat, multi : BOOLEAN]

ASSUME ScriptsAssumption ==
    /\ Scripts \subseteq Seq(Request)
    /\ \A s \in Scripts : \A i \in DOMAIN s :
           IsPair(s[i]) => /\ s[i].targets # None
                           /\ \E r \in s[i].targets : s[i].targets = {r}

VARIABLES
    world,     \* the stores
    script,    \* the requests that have not been answered
    pc,        \* "idle", "regions" or "vote"
    cursor,    \* region_prints: where the next region starts
    stop,      \* region_prints: the bin after the last one
    regions,   \* the prints of the regions so far
    tasks,     \* for a region and a resource: the hits left, the lines found, over or not
    answers    \* the requests that have been answered, with their answers

vars == <<world, script, pc, cursor, stop, regions, tasks, answers>>

request == Head(script)

\* The verbs of the passage lane, which always look at all lines.
IsPassages(q) == q.verb \in {"passages", "discover"}
AllLines(q) == q.multi \/ IsPassages(q)

-----------------------------------------------------------------------------
(* The time grid.                                                          *)

\* Mutation: an addition in a wider type.
Widen(n) == n

\* saturating_add.
Saturate(n) == Least(n, MaxBin)

Ticks(t) == Latency + t * Step

\* Mutation: the bin that the second falls in.
BinBefore(second) ==
    IF second < Latency THEN None ELSE (second - Latency) \div Step

\* The quotient of a bin's second may come out above the bin.
IsRounded(second) == \E t \in RoundedBins : second = Ticks(t)

\* seconds_to_bin: the first bin that is not before the second, or the next.
SecondsToBin(second) ==
    LET exact == (second - Latency + Step - 1) \div Step
        bin == IF IsRounded(second) THEN exact + 1 ELSE exact
    IN  IF second < Latency \/ bin > MaxBin THEN None ELSE bin

-----------------------------------------------------------------------------
(* The regions of a stored probe.                                          *)

Probe(q) == world.a[q.key]
Times(q) == { Probe(q)[i].t : i \in DOMAIN Probe(q) }

\* A resource without prints has the extent 0 .. 0; passages start at zero.
NaturalStart(q) == IF Times(q) = {} \/ IsPassages(q) THEN 0 ELSE Min(Times(q))
NaturalStop(q) == IF Times(q) = {} THEN Saturate(1) ELSE Saturate(Max(Times(q)) + 1)

OrElse(bin, default) == IF bin = None THEN default ELSE bin

WindowStart(q) ==
    IF q.window = None THEN NaturalStart(q) ELSE OrElse(SecondsToBin(q.window[1]), 0)
WindowStop(q) ==
    IF q.window = None THEN NaturalStop(q)
    ELSE Least(OrElse(SecondsToBin(q.window[2]), MaxBin), NaturalStop(q))

Targets(q) == IF q.targets = None THEN DOMAIN world.b ELSE q.targets

\* What is refused before a region is read.
Refused(q) ==
    \/ q.verb \in {"match", "crosscheck"} /\ q.k = 0
    \/ q.verb = "match" /\ q.prints = <<>>
    \/ q.verb # "match"
       /\ \/ ~world.compatible
          \/ ~(Targets(q) \subseteq DOMAIN world.b)
          \/ q.key \notin DOMAIN world.a
          \/ q.window # None /\ q.window[1] >= q.window[2]
          \/ WindowStart(q) >= WindowStop(q)

-----------------------------------------------------------------------------
(* The answers, from the lines of every pair of a region and a resource.   *)

\* match_restricted looks at one resource for a pair, at all of them otherwise.
Consulted(q) == IF IsPair(q) THEN Targets(q) ELSE DOMAIN world.b

\* The most rows of a region: k for match, and otherwise as many as there are.
RowLimit(q) == IF q.verb = "match" THEN q.k ELSE None

\* The rows of a region by score, resource and starts.
Ranked(rows) ==
    StableSort(rows, LAMBDA x, y :
        \/ x.score > y.score
        \/ x.score = y.score
           /\ \/ x.ref < y.ref
              \/ x.ref = y.ref
                 /\ \/ x.start < y.start
                    \/ x.start = y.start /\ x.ref_start < y.ref_start)

\* Mutation: every verb keeps k rows of a region.
FirstOfRequest(q, s) == SubSeq(s, 1, Least(q.k, Len(s)))

FirstRows(q, s) == IF RowLimit(q) = None THEN s ELSE SubSeq(s, 1, Least(RowLimit(q), Len(s)))

RegionRows(q, lines, g) ==
    LET rows(r) == [n \in DOMAIN lines[g, r] |-> Row(r, lines[g, r][n])]
    IN  FirstRows(q, Ranked(FlattenSeq(
            [r \in DOMAIN world.b |-> IF r \in Consulted(q) THEN rows(r) ELSE <<>>])))

\* stable_segments.
ByStart(segments) ==
    StableSort(segments, LAMBDA x, y :
        \/ x.start < y.start
        \/ x.start = y.start
           /\ \/ x.ref_start < y.ref_start
              \/ x.ref_start = y.ref_start /\ x.score > y.score)

\* The segments of a resource: by their starts, but with all the lines by
\* region and by rank in it.
Segments(q, count, lines, r) ==
    LET found == FlattenSeq([g \in 1 .. count |->
                     Selected(RegionRows(q, lines, g), LAMBDA row : row.ref = r)])
    IN  IF AllLines(q) THEN found ELSE ByStart(found)

Total(segments) == SumFunction([n \in DOMAIN segments |-> segments[n].score])

\* A CrosscheckMatch.
MatchOf(q, count, lines, r) ==
    LET segments == Segments(q, count, lines, r)
    IN  [ref |-> r, segments |-> segments, score_total |-> Total(segments)]

\* The targets with a segment by total and key; the first k of them, but a
\* discovery is of all.
Matches(q, count, lines) ==
    LET found == Selected([r \in DOMAIN world.b |-> MatchOf(q, count, lines, r)],
                          LAMBDA m : m.ref \in Targets(q) /\ m.segments # <<>>)
        order == StableSort(found, LAMBDA m, n : m.score_total > n.score_total)
    IN  IF IsPassages(q) THEN order ELSE SubSeq(order, 1, Least(q.k, Len(order)))

Result(q, count, lines) ==
    CASE q.verb = "match" -> RegionRows(q, lines, 1)
      [] IsPair(q) -> Segments(q, count, lines, CHOOSE r \in Targets(q) : TRUE)
      [] q.verb \in {"crosscheck", "discover"} -> Matches(q, count, lines)

-----------------------------------------------------------------------------
(* The steps.                                                              *)

Reply(ok, rows) ==
    /\ answers' = Append(answers, [request |-> request, ok |-> ok, rows |-> rows])
    /\ script' = Tail(script)
    /\ pc' = "idle"
    /\ cursor' = 0 /\ stop' = 0 /\ regions' = <<>> /\ tasks' = <<>>
    /\ UNCHANGED world

Refuse ==
    /\ pc = "idle" /\ script # <<>>
    /\ Refused(request)
    /\ Reply(FALSE, <<>>)

\* Mutation: the prints of a region are added to those before it.
TasksOfBuffer(q, probes) ==
    [task \in (DOMAIN probes) \X Consulted(q) |->
        [rest |-> Cloud(FlattenSeq(SubSeq(probes, 1, task[1])), world.b, Consulted(q), task[2]),
         lines |-> <<>>, over |-> FALSE]]

\* All pairs of a region and a resource, with the hits and no line yet.
Tasks(q, probes) ==
    [task \in (DOMAIN probes) \X Consulted(q) |->
        [rest |-> Cloud(probes[task[1]], world.b, Consulted(q), task[2]),
         lines |-> <<>>, over |-> FALSE]]

\* The prints of a match request are its only region.
Match ==
    /\ pc = "idle" /\ script # <<>>
    /\ ~Refused(request) /\ request.verb = "match"
    /\ pc' = "vote"
    /\ regions' = <<request.prints>>
    /\ tasks' = Tasks(request, <<request.prints>>)
    /\ UNCHANGED <<world, script, cursor, stop, answers>>

StartRegions ==
    /\ pc = "idle" /\ script # <<>>
    /\ ~Refused(request) /\ request.verb # "match"
    /\ pc' = "regions"
    /\ cursor' = WindowStart(request)
    /\ stop' = WindowStop(request)
    /\ UNCHANGED <<world, script, regions, tasks, answers>>

\* Store::forward.
Forward(q, from, to) == Selected(Probe(q), LAMBDA print : from <= print.t /\ print.t < to)

\* Where a region ends.
RegionStop(q, from) == Saturate(from + IF IsPassages(q) THEN WindowBins ELSE RegionBins)

\* Mutation: a region starts where the one before it ends.
NextToStop(q, from) == RegionStop(q, from)

\* Mutation: an addition of u32 that wraps.
WrappedStart(q, from) == (from + RegionBins) % (MaxBin + 1)

\* Where the next region starts.
NextStart(q, from) == Saturate(from + IF IsPassages(q) THEN HopBins ELSE RegionBins)

\* A region without prints is left out.
NextRegion ==
    /\ pc = "regions" /\ cursor < stop
    /\ LET prints == Forward(request, cursor, Least(RegionStop(request, cursor), stop))
       IN  regions' = IF prints = <<>> THEN regions ELSE Append(regions, prints)
    /\ cursor' = NextStart(request, cursor)
    /\ UNCHANGED <<world, script, pc, stop, tasks, answers>>

NoRegion ==
    /\ pc = "regions" /\ cursor >= stop
    /\ regions = <<>>
    /\ Reply(FALSE, <<>>)

StartVote ==
    /\ pc = "regions" /\ cursor >= stop
    /\ regions # <<>>
    /\ pc' = "vote"
    /\ tasks' = Tasks(request, regions)
    /\ UNCHANGED <<world, script, cursor, stop, regions, answers>>

\* One round of vote_lines, or the only vote of the default.
VoteLine(task) ==
    /\ pc = "vote" /\ ~tasks[task].over
    /\ LET rest == tasks[task].rest
           lines == tasks[task].lines
           line == IF Len(rest) >= MinHits THEN Vote(rest) ELSE <<>>
       IN  tasks' = [tasks EXCEPT ![task] =
               IF line = <<>> THEN [rest |-> rest, lines |-> lines, over |-> TRUE]
               ELSE [rest |-> Remaining(rest, line), lines |-> Append(lines, line),
                     over |-> ~AllLines(request) \/ Len(lines) + 1 = RowLimit(request)]]
    /\ UNCHANGED <<world, script, pc, cursor, stop, regions, answers>>

Answer ==
    /\ pc = "vote"
    /\ \A task \in DOMAIN tasks : tasks[task].over
    /\ Reply(TRUE, Result(request, Len(regions), [task \in DOMAIN tasks |-> tasks[task].lines]))

\* The client asks nothing more.
Done ==
    /\ script = <<>>
    /\ UNCHANGED vars

Init ==
    /\ world \in Worlds
    /\ script \in Scripts
    /\ pc = "idle"
    /\ cursor = 0 /\ stop = 0
    /\ regions = <<>> /\ tasks = <<>> /\ answers = <<>>

Next ==
    \/ Refuse \/ Match \/ StartRegions
    \/ NextRegion \/ NoRegion \/ StartVote
    \/ \E task \in DOMAIN tasks : VoteLine(task)
    \/ Answer
    \/ Done

Spec == Init /\ [][Next]_vars

-----------------------------------------------------------------------------
(* Properties.                                                             *)

\* Types: every variable holds what the code's types and its control allow.
TypeOK ==
    /\ pc \in {"idle", "regions", "vote"}
    /\ world \in Worlds
    /\ cursor \in 0 .. MaxBin /\ stop \in 0 .. MaxBin
    /\ \A task \in DOMAIN tasks :
           /\ task[1] \in DOMAIN regions /\ task[2] \in DOMAIN world.b
           /\ tasks[task].over \in BOOLEAN

\* "Windows are [start, stop) seconds" (CONTRACT.md:26).
InWindow(window, print) ==
    \/ window = None
    \/ window[1] <= Ticks(print.t) /\ Ticks(print.t) < window[2]

\* Whether a bin is at or after a second, when the second of a rounded bin
\* counts as after that bin.
Reaches(t, second) == second < Ticks(t) \/ (second = Ticks(t) /\ t \notin RoundedBins)

\* The prints of a stored probe in a window, of the window's edges as rounded.
Probed(q) ==
    Selected(Probe(q), LAMBDA print :
        /\ print.t < MaxBin
        /\ q.window = None \/ (Reaches(print.t, q.window[1]) /\ ~Reaches(print.t, q.window[2])))

\* A window on the time grid: it starts before the last bin, and does not end
\* before the first.
IsOnGrid(window) == window = None \/ (window[1] < Ticks(MaxBin) /\ Latency <= window[2])

\* The regions of a window are cut without a gap, an overlap or an end too
\* late: together they hold the prints of the window each once and in order
\* (span.rs region_prints, config.rs seconds_to_bin).  They are those of the
\* window in seconds but at an edge that is the second of a rounded bin: there
\* the bin counts as before the edge, so that a window which starts at it leaves
\* its prints out, against CONTRACT.md:26.  Of a window that is off the time
\* grid see WindowIsHalfOpen; bin MaxBin is no region's.
PrintsAreProbed ==
    (/\ script # <<>> /\ request.verb \in {"span", "crosscheck"} /\ pc # "idle"
     /\ IsOnGrid(request.window))
    => IF pc = "regions" THEN IsPrefix(FlattenSeq(regions), Probed(request))
       ELSE FlattenSeq(regions) = Probed(request)

\* The regions of the passage lane overlap so far that what is close enough is
\* seen together: any two prints of the window that are no further apart than a
\* region reaches past the start of the next are in one region, and a region
\* holds prints of the window in order, the window's edges as rounded (span.rs
\* region_prints with PASSAGE_GEOMETRY, passage.rs:17).
CloseIsTogether ==
    (/\ script # <<>> /\ pc = "vote" /\ request.verb \in {"passages", "discover"}
     /\ IsOnGrid(request.window))
    => LET probed == Probed(request)
       IN  /\ \A g \in DOMAIN regions : \E i, j \in DOMAIN probed :
                  regions[g] = SubSeq(probed, i, j)
           /\ \A i, j \in DOMAIN probed :
                  (i <= j /\ probed[j].t - probed[i].t <= WindowBins - HopBins)
                  => \E g \in DOMAIN regions : {probed[i], probed[j]} \subseteq ToSet(regions[g])

\* No print outside the window is in a region.
WindowIsHalfOpen ==
    (pc # "idle" /\ request.verb # "match")
    => \A g \in DOMAIN regions : \A i \in DOMAIN regions[g] : InWindow(request.window, regions[g][i])

\* Peeling loses no hit and uses none twice: the hits of the lines and the
\* hits left are the hits of the cloud, each as often (matcher.rs vote_lines,
\* which removes hits by a key and a count).
HitsVoteOnce ==
    \A task \in DOMAIN tasks :
        LET all == Cloud(regions[task[1]], world.b, Consulted(request), task[2])
            spent == FlattenSeq(tasks[task].lines) \o tasks[task].rest
            Count(s, hit) == Cardinality({ i \in DOMAIN s : s[i] = hit })
        IN  /\ Len(spent) = Len(all)
            /\ \A hit \in ToSet(all) : Count(spent, hit) = Count(all, hit)

SameProbe(x, y) ==
    /\ x.verb # "match" /\ y.verb # "match"
    /\ x.key = y.key /\ x.window = y.window

\* What an answer says of one resource.
SegmentsOf(answer, r) ==
    IF IsPair(answer.request) THEN answer.rows
    ELSE LET found == Selected(answer.rows, LAMBDA match : match.ref = r)
         IN  IF found = <<>> THEN <<>> ELSE found[1].segments

\* A pair query, which looks at one resource's postings, answers exactly what
\* the fan-out says of that resource: the order of the hits, and with it every
\* tie, is the one of the whole store (matcher.rs match_restricted, has_match;
\* SPEC.md:73).  So does a passages request of a discovery's lines.
SpanIsCrosscheck ==
    \A m, n \in DOMAIN answers :
        LET span == answers[m]
            fan == answers[n]
        IN  (/\ \/ /\ span.request.verb = "span" /\ fan.request.verb = "crosscheck"
                   /\ fan.request.k >= Cardinality(DOMAIN world.b)
                \/ span.request.verb = "passages" /\ fan.request.verb = "discover"
             /\ SameProbe(span.request, fan.request)
             /\ span.request.multi = fan.request.multi
             /\ span.ok /\ fan.ok)
            => \A r \in span.request.targets \cap Targets(fan.request) :
                   span.rows = SegmentsOf(fan, r)

\* All lines include the default's line, with the same score and the same ends
\* (CONTRACT.md:44).
DefaultIsAmongLines ==
    \A m, n \in DOMAIN answers :
        LET one == answers[m]
            all == answers[n]
        IN  (/\ one.request.verb = "span" /\ all.request.verb = "span"
             /\ SameProbe(one.request, all.request)
             /\ one.request.targets = all.request.targets
             /\ ~one.request.multi /\ all.request.multi)
            => ToSet(one.rows) \subseteq ToSet(all.rows)

\* Regions are independent: when a window is cut at a second whose bin, as
\* rounded, is the start of a region, the two spans together are the span of
\* the whole.  The windows are on the time grid, or the bounds are others than
\* those that were asked for.
RegionsAreIndependent ==
    \A m, n, o \in DOMAIN answers :
        LET whole == answers[m]
            left == answers[n]
            right == answers[o]
            requests == { whole.request, left.request, right.request }
        IN  (/\ \A x \in requests : x.verb = "span" /\ x.window # None
             /\ \A x, y \in requests :
                    x.key = y.key /\ x.targets = y.targets /\ x.multi = y.multi
             /\ whole.request.window[1] = left.request.window[1]
             /\ whole.request.window[2] = right.request.window[2]
             /\ left.request.window[2] = right.request.window[1]
             /\ Latency <= left.request.window[1]
             /\ left.request.window[1] <= left.request.window[2]
             /\ left.request.window[2] <= right.request.window[2]
             /\ left.request.window[2] < Ticks(MaxBin)
             /\ (SecondsToBin(left.request.window[2]) - SecondsToBin(left.request.window[1]))
                    % RegionBins = 0)
            => ToSet(whole.rows) = ToSet(left.rows) \cup ToSet(right.rows)

Phase(p) == CASE p = "idle" -> 0 [] p = "regions" -> 1 [] p = "vote" -> 2

\* Every request ends: a step answers it, or goes on to the next phase, or
\* moves the region's start forward, or takes hits from a task or ends it.  So
\* no request keeps its thread: the loop over the regions ends at the last bin
\* too, and peeling ends (span.rs region_prints, matcher.rs vote_lines).
Progress ==
    \/ Len(script') < Len(script)
    \/ /\ script' = script
       /\ \/ Phase(pc') > Phase(pc)
          \/ pc' = pc /\ cursor' > cursor
          \/ /\ pc' = pc
             /\ \E task \in DOMAIN tasks :
                    /\ \/ Len(tasks'[task].rest) < Len(tasks[task].rest)
                       \/ ~tasks[task].over /\ tasks'[task].over
                    /\ \A other \in DOMAIN tasks \ {task} : tasks'[other] = tasks[other]

EveryStepIsProgress == [][Progress]_vars
=============================================================================
