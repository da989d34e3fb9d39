-------------------------------- MODULE Passages --------------------------------
(***************************************************************************)
(* The passage lane of core/src/passage.rs: how the lines that span and    *)
(* crosscheck find region by region become passages of one pair, and which *)
(* passages are questions of their own.                                    *)
(*                                                                         *)
(* A request compares resource a with one reference (passages) or with     *)
(* many, one after the other (discover).  The lines of a reference are     *)
(* placed on tracks, each track becomes a passage, and the passages are    *)
(* divided into primaries and alternates, the strongest first.             *)
(***************************************************************************)
EXTENDS Partition

CONSTANTS
    Worlds,          \* [key, extent, refs] of a, with [extent, segments] of each reference
    Scripts,         \* the sequences of requests a client sends
    None,
    MaxGap, MaxLockedGap,                \* MAX_ALIGNMENT_GAP_SECONDS and its locked form
    MaxJump, MaxLockedJump,              \* MAX_OFFSET_JUMP_SECONDS and its locked form
    MaxFactorJump, MaxLockedFactorJump,  \* of time factors and of pitch factors
    MaxHitGap,       \* MAX_SUPPORT_HIT_GAP_SECONDS
    Coverage,        \* SAME_AUDIO_MIN_COVERAGE in percent
    MaxEdgeDelta, MaxUnitDelta,          \* SAME_AUDIO_MAX_EDGE_DELTA_SECONDS, .._FACTOR_DELTA
    Unit             \* the factor 1

ASSUME PassageAssumption ==
    /\ {MaxGap, MaxLockedGap, MaxJump, MaxLockedJump} \subseteq Nat
    /\ MaxHitGap \in Nat \ {0}
    /\ {MaxFactorJump, MaxLockedFactorJump, MaxEdgeDelta, MaxUnitDelta, Unit} \subseteq Nat
    /\ Coverage \in 1 .. 100

\* A segment, as the voter accepts it, has hits.
Hit == [q : Int, ref : Int, hash : Int]
Segment == [hits : Seq(Hit) \ {<<>>}, time : Int, pitch : Int]

ASSUME WorldsAssumption ==
    \A w \in Worlds :
        /\ None \notin DOMAIN w.refs /\ DOMAIN w.refs \subseteq Int
        /\ \A r \in DOMAIN w.refs : w.refs[r].segments \in Seq(Segment)

\* Requests name references of the store, the request for a pair one of them.
RequestsOf(w) ==
    { q \in [verb : {"passages", "discover"}, targets : SUBSET DOMAIN w.refs,
             exclude : SUBSET Int, evidence : BOOLEAN] :
          q.verb = "passages" => \E r \in q.targets : q.targets = {r} }

ASSUME ScriptsAssumption == \A w \in Worlds : Scripts \subseteq Seq(RequestsOf(w))

VARIABLES
    world,
    script,      \* the requests that have not been answered
    pc,          \* "idle", "next", "stitch" or "partition"
    todo,        \* the references that have not been looked at
    ref,         \* the one that is
    waiting,     \* its segments that are on no track
    tracks,      \* the tracks, sequences of segments
    found,       \* the matches of the request
    answers      \* the requests that have been answered, with their matches

pair == <<waiting, tracks, partition_vars>>
vars == <<world, script, pc, todo, ref, pair, found, answers>>

request == Head(script)
segments == world.refs[ref].segments

-----------------------------------------------------------------------------
(* Segments, and when one continues another.                               *)

Start(segment) == segment.hits[1].q
Stop(segment) == Last(segment.hits).q
RefStart(segment) == segment.hits[1].ref
RefStop(segment) == Last(segment.hits).ref
Score(segment) == Len(segment.hits)

OffsetJump(previous, next) ==
    Magnitude((RefStart(next) - Start(next)) - (RefStop(previous) - Stop(previous)))

Within(previous, next, gap, jump, factor) ==
    /\ Start(next) - Stop(previous) <= gap
    /\ RefStart(next) - RefStop(previous) <= gap
    /\ OffsetJump(previous, next) <= jump
    /\ Magnitude(next.time - previous.time) <= factor
    /\ Magnitude(next.pitch - previous.pitch) <= factor

Compatible(previous, next) ==
    /\ Start(next) + MaxJump >= Start(previous)
    /\ RefStart(next) + MaxJump >= RefStart(previous)
    /\ \/ Within(previous, next, MaxGap, MaxJump, MaxFactorJump)
       \/ Within(previous, next, MaxLockedGap, MaxLockedJump, MaxLockedFactorJump)

\* The order in which segments are placed.
Sooner(x, y) ==
    LET s == segments[x]
        t == segments[y]
    IN  \/ Start(s) < Start(t)
        \/ Start(s) = Start(t)
           /\ \/ RefStart(s) < RefStart(t)
              \/ RefStart(s) = RefStart(t)
                 /\ (Score(s) > Score(t) \/ (Score(s) = Score(t) /\ x < y))

-----------------------------------------------------------------------------
(* The support of a track and its passage.                                 *)

Less(g, h) ==
    \/ g.q < h.q
    \/ g.q = h.q /\ (g.ref < h.ref \/ (g.ref = h.ref /\ g.hash < h.hash))

\* Mutation: the hits of all regions.
HitsWithRepeats(track) ==
    StableSort(FlattenSeq([n \in DOMAIN track |-> segments[track[n]].hits]), Less)

\* The hits of a track in order, without the repeats of regions that overlap.
HitsOf(track) ==
    LET all == HitsWithRepeats(track)
    IN  ElementsAt(all, { i \in DOMAIN all : i = 1 \/ all[i] # all[i - 1] })

\* Mutation: only the query's clock is looked at.
ContinuesOnA(span, hit) == hit.q - span.stop <= MaxHitGap

Continues(span, hit) ==
    /\ hit.q - span.stop <= MaxHitGap
    /\ hit.ref - span.ref_stop <= MaxHitGap
    /\ hit.ref + MaxJump >= span.ref_stop

Opened(hit) ==
    [start |-> hit.q, stop |-> hit.q, ref_start |-> hit.ref, ref_stop |-> hit.ref, hits |-> 1]

Extended(span, hit) ==
    [start |-> span.start, stop |-> hit.q,
     ref_start |-> Least(span.ref_start, hit.ref),
     ref_stop |-> Greatest(span.ref_stop, hit.ref), hits |-> span.hits + 1]

Taken(spans, hit) ==
    IF spans # <<>> /\ Continues(Last(spans), hit)
    THEN Append(Front(spans), Extended(Last(spans), hit))
    ELSE Append(spans, Opened(hit))

\* support_from_hits: a span goes on while hits follow closely on both clocks.
Support(hits) ==
    LET spans[n \in 0 .. Len(hits)] ==
            IF n = 0 THEN <<>> ELSE Taken(spans[n - 1], hits[n])
    IN  spans[Len(hits)]

Sum(s) ==
    LET sum[n \in 0 .. Len(s)] == IF n = 0 THEN 0 ELSE sum[n - 1] + s[n]
    IN  sum[Len(s)]

Seconds(support) == Sum([n \in DOMAIN support |-> support[n].stop - support[n].start])

\* The passage of a track; its id is the digest of its support.
PassageOf(track) ==
    LET hits == HitsOf(track)
        support == Support(hits)
        times == { segments[track[n]].time : n \in DOMAIN track }
        pitches == { segments[track[n]].pitch : n \in DOMAIN track }
    IN  [support |-> support,
         start |-> support[1].start,
         stop |-> Last(support).stop,
         ref_start |-> Min({ support[n].ref_start : n \in DOMAIN support }),
         ref_stop |-> Max({ support[n].ref_stop : n \in DOMAIN support }),
         hits |-> Len(hits),
         seconds |-> Seconds(support),
         gap |-> Max({0} \cup { support[n].start - support[n - 1].stop : n \in 2 .. Len(support) }),
         score |-> Max({ Score(segments[track[n]]) : n \in DOMAIN track }),
         time |-> <<Min(times), Max(times)>>,
         pitch |-> <<Min(pitches), Max(pitches)>>,
         segments |-> track]

\* passage_order.
Before(p, r) ==
    \/ p.start < r.start
    \/ p.start = r.start
       /\ \/ p.ref_start < r.ref_start
          \/ p.ref_start = r.ref_start /\ Digest(p.support) < Digest(r.support)

\* A primary that covers both resources whole, at the same place and speed.
IsSameAudio(p) ==
    LET a_extent == world.extent
        b_extent == world.refs[ref].extent
    IN  /\ a_extent > 0 /\ b_extent > 0
        /\ 100 * p.seconds >= Coverage * a_extent
        /\ 100 * p.seconds >= Coverage * b_extent
        /\ Magnitude(p.ref_start - p.start) <= MaxEdgeDelta
        /\ Magnitude(p.ref_stop - p.stop) <= MaxEdgeDelta
        /\ \A i \in 1 .. 2 : /\ Magnitude(p.time[i] - Unit) <= MaxUnitDelta
                             /\ Magnitude(p.pitch[i] - Unit) <= MaxUnitDelta

\* The id of the last of those with the greatest cover, which is clamped to 1.
SameAudio(ordered) ==
    LET covers(i) == Least(ordered[i].seconds, Greatest(world.extent, world.refs[ref].extent))
        candidates == { i \in DOMAIN ordered : IsSameAudio(ordered[i]) }
    IN  IF candidates = {} THEN None
        ELSE ordered[CHOOSE i \in candidates : \A j \in candidates \ {i} :
                         covers(i) > covers(j) \/ (covers(i) = covers(j) /\ i > j)].support

\* Segments are returned when they are asked for.
Shown(p) == IF request.evidence THEN p ELSE [p EXCEPT !.segments = <<>>]

\* A PassageMatch, or the answer for a pair.
MatchOf ==
    LET ordered == StableSort([n \in DOMAIN primaries |-> passages[primaries[n]]], Before)
        owned == SelectSeq(Places(passages), LAMBDA n : n \in DOMAIN alternates)
    IN  [ref |-> ref,
         passages |-> [n \in DOMAIN ordered |-> Shown(ordered[n])],
         alternates |-> [n \in DOMAIN owned |->
             [primary |-> passages[alternates[owned[n]]].support,
              passage |-> Shown(passages[owned[n]])]],
         same |-> SameAudio(ordered),
         hits |-> Sum([n \in DOMAIN ordered |-> ordered[n].hits]),
         seconds |-> Sum([n \in DOMAIN ordered |-> ordered[n].seconds])]

\* The matches of a discovery by seconds, hits and key.
Ranked(matches) ==
    StableSort(matches, LAMBDA x, y :
        \/ x.seconds > y.seconds
        \/ x.seconds = y.seconds /\ (x.hits > y.hits \/ (x.hits = y.hits /\ x.ref < y.ref)))

-----------------------------------------------------------------------------
(* The steps.                                                              *)

\* Mutation: the excluded keys are those of the request only.
CallersExclusions == request.exclude

\* A resource is no evidence of its own recurrence.
Excluded == {world.key} \cup request.exclude

\* The references of a request: of a discovery, those with a segment.
Ask ==
    /\ pc = "idle" /\ script # <<>>
    /\ pc' = "next"
    /\ todo' = IF request.verb = "passages" THEN request.targets
               ELSE { r \in request.targets \ Excluded : world.refs[r].segments # <<>> }
    /\ UNCHANGED <<world, script, ref, pair, found, answers>>

Total(r) == Sum([n \in DOMAIN world.refs[r].segments |-> Score(world.refs[r].segments[n])])

\* The next match of the fan-out: by score and key.
Open(r) ==
    /\ pc = "next" /\ r \in todo
    /\ \A s \in todo \ {r} : Total(r) > Total(s) \/ (Total(r) = Total(s) /\ r < s)
    /\ pc' = "stitch"
    /\ ref' = r /\ todo' = todo \ {r}
    /\ waiting' = DOMAIN world.refs[r].segments
    /\ tracks' = <<>> /\ passages' = <<>>
    /\ pending' = {} /\ primaries' = <<>> /\ alternates' = <<>>
    /\ UNCHANGED <<world, script, found, answers>>

\* The tracks that a segment continues, and the first of the nearest.
Fits(s) == { n \in DOMAIN tracks : Compatible(segments[Last(tracks[n])], segments[s]) }

Nearest(s) ==
    LET jump(n) == OffsetJump(segments[Last(tracks[n])], segments[s])
    IN  CHOOSE n \in Fits(s) : \A m \in Fits(s) \ {n} :
            jump(n) < jump(m) \/ (jump(n) = jump(m) /\ n < m)

\* Mutation: a segment is put on every track that it continues.
PlacedOnAll(s) ==
    [n \in DOMAIN tracks |-> IF n \in Fits(s) THEN Append(tracks[n], s) ELSE tracks[n]]

Placed(s) == [tracks EXCEPT ![Nearest(s)] = Append(@, s)]

Place(s) ==
    /\ pc = "stitch" /\ s \in waiting
    /\ \A t \in waiting \ {s} : Sooner(s, t)
    /\ waiting' = waiting \ {s}
    /\ tracks' = IF Fits(s) = {} THEN Append(tracks, <<s>>) ELSE Placed(s)
    /\ UNCHANGED <<world, script, pc, todo, ref, partition_vars, found, answers>>

\* Mutation: counted from zero.
CandidatesFromZero == 0 .. Len(tracks) - 1

Candidates == DOMAIN tracks

Build ==
    /\ pc = "stitch" /\ waiting = {}
    /\ pc' = "partition"
    /\ passages' = StableSort([n \in DOMAIN tracks |-> PassageOf(tracks[n])], Before)
    /\ pending' = Candidates
    /\ UNCHANGED <<world, script, todo, ref, waiting, tracks, primaries, alternates, found,
                   answers>>

\* partition_passages, one passage after the other.
PartitionPassages ==
    /\ pc = "partition"
    /\ \E n \in pending : Divide(n)
    /\ UNCHANGED <<world, script, pc, todo, ref, waiting, tracks, found, answers>>

\* A discovery leaves out a reference without a primary.
Close ==
    /\ pc = "partition" /\ pending = {}
    /\ pc' = "next"
    /\ found' = IF request.verb = "discover" /\ primaries = <<>> THEN found
                ELSE Append(found, MatchOf)
    /\ UNCHANGED <<world, script, todo, ref, pair, answers>>

Answer ==
    /\ pc = "next" /\ todo = {}
    /\ pc' = "idle"
    /\ script' = Tail(script)
    /\ answers' = Append(answers, [request |-> request, matches |-> Ranked(found)])
    /\ found' = <<>>
    /\ UNCHANGED <<world, todo, ref, pair>>

\* The client asks nothing more.
Done ==
    /\ pc = "idle" /\ script = <<>>
    /\ UNCHANGED vars

Init ==
    /\ world \in Worlds
    /\ script \in Scripts
    /\ pc = "idle"
    /\ todo = {} /\ ref = None
    /\ waiting = {} /\ tracks = <<>> /\ passages = <<>>
    /\ pending = {} /\ primaries = <<>> /\ alternates = <<>>
    /\ found = <<>> /\ answers = <<>>

Next ==
    \/ Ask
    \/ \E r \in todo : Open(r)
    \/ \E s \in waiting : Place(s)
    \/ Build
    \/ PartitionPassages
    \/ Close
    \/ Answer
    \/ Done

Spec == Init /\ [][Next]_vars

-----------------------------------------------------------------------------
(* Properties.                                                             *)

\* Types: every variable holds what the code's types and its control allow.
TypeOK ==
    /\ world \in Worlds
    /\ pc \in {"idle", "next", "stitch", "partition"}
    /\ todo \subseteq DOMAIN world.refs
    /\ ref \in DOMAIN world.refs \cup {None}
    /\ pc \in {"stitch", "partition"} => ref # None /\ waiting \subseteq DOMAIN segments
    /\ \A n \in DOMAIN tracks : tracks[n] # <<>> /\ ToSet(tracks[n]) \subseteq DOMAIN segments
    /\ \A n \in DOMAIN passages : IsPassage(passages[n])
    /\ pending \subseteq DOMAIN passages
    /\ ToSet(primaries) \subseteq DOMAIN passages
    /\ DOMAIN alternates \subseteq DOMAIN passages

HitsOfSegments(S) == UNION { ToSet(segments[s].hits) : s \in S }

Covers(span, hit) ==
    /\ span.start <= hit.q /\ hit.q <= span.stop
    /\ span.ref_start <= hit.ref /\ hit.ref <= span.ref_stop

CountsItsHits(p) ==
    LET hits == HitsOfSegments(ToSet(p.segments))
    IN  /\ p.hits = Cardinality(hits)
        /\ Sum([i \in DOMAIN p.support |-> p.support[i].hits]) = p.hits
        /\ \A hit \in hits : \E i \in DOMAIN p.support : Covers(p.support[i], hit)
        /\ \A i \in DOMAIN p.support :
               {p.support[i].start, p.support[i].stop} \subseteq { hit.q : hit \in hits }

\* What is accepted is reported, and counted once: every line is in exactly one
\* passage, and the support of a passage counts each of its distinct hits once,
\* covers all of them, and begins and ends with one, however the regions
\* overlapped (passage_from_track; "the quality count deduplicates them",
\* CONTRACT.md:102).
HitsCountOnce ==
    pc = "partition"
    => /\ \A s \in DOMAIN segments :
              Cardinality({ p \in (DOMAIN passages) \X (DOMAIN segments) :
                  p[2] \in DOMAIN passages[p[1]].segments
                  /\ passages[p[1]].segments[p[2]] = s }) = 1
       /\ \A n \in DOMAIN passages : CountsItsHits(passages[n])

\* No stretch from one moment to another that is longer than a limit is without
\* a hit.
IsDense(from, to, moments, limit) ==
    \A t \in from .. to - limit : \E u \in moments : t < u /\ u <= t + limit

Covered(span, hits) == { hit \in hits : Covers(span, hit) }

\* On b's clock a span has no hole from a hit at its beginning on, and reaches
\* back before that hit by a jump at most.
IsDenseOnB(span, hits) ==
    \E first \in hits :
        /\ first.q = span.start /\ span.ref_start + MaxJump >= first.ref
        /\ IsDense(first.ref, span.ref_stop, { hit.ref : hit \in hits }, MaxHitGap)

HasNoHoles(p) ==
    LET all == HitsOfSegments(ToSet(p.segments))
    IN  /\ \A i \in DOMAIN p.support :
               LET span == p.support[i]
                   hits == Covered(span, all)
               IN  /\ IsDense(span.start, span.stop, { hit.q : hit \in hits }, MaxHitGap)
                   /\ IsDenseOnB(span, hits)
        /\ \A i \in 2 .. Len(p.support) : p.support[i - 1].stop <= p.support[i].start

\* A hole is not reported as support while both clocks move forward: a span has
\* no stretch longer than MaxHitGap without a hit on a's clock, nor on b's but
\* where b's clock runs back before the span's beginning, by a jump at most;
\* and spans follow each other on a's clock (support_from_hits; "only `support`
\* does", CONTRACT.md:93).  Of the run back see SupportSplitsAtHoles.
SupportHasNoHoles ==
    pc = "partition" => \A n \in DOMAIN passages : HasNoHoles(passages[n])

\* As the documents have it, no span has a stretch longer than MaxHitGap
\* without a hit on b's clock either ("support runs split when either clock
\* lacks an accepted hit for more than 1.5 seconds", SPEC.md:85).
SupportSplitsAtHoles ==
    pc = "partition"
    => \A n \in DOMAIN passages : \A i \in DOMAIN passages[n].support :
           LET span == passages[n].support[i]
               hits == Covered(span, HitsOfSegments(ToSet(passages[n].segments)))
           IN  IsDense(span.ref_start, span.ref_stop, { hit.ref : hit \in hits }, MaxHitGap)

Bare(p) == [p EXCEPT !.segments = <<>>]

BareAlternate(alternate) ==
    [primary |-> alternate.primary, passage |-> Bare(alternate.passage)]

\* What a match says whether raw segments are returned or not.
Plain(match) ==
    [ref |-> match.ref,
     passages |-> [n \in DOMAIN match.passages |-> Bare(match.passages[n])],
     alternates |-> [n \in DOMAIN match.alternates |-> BareAlternate(match.alternates[n])],
     same |-> match.same, hits |-> match.hits, seconds |-> match.seconds]

OfReference(matches, r) == Selected(matches, LAMBDA match : match.ref = r)

\* Discovery is exhaustive and adds nothing: of the references asked for, but
\* for a's own key and the excluded ones, it answers once, and exactly what the
\* pair request answers, whether raw segments are returned or not, for each
\* that has a passage (discover_passages_between, CONTRACT.md:132).
DiscoveryIsPairs ==
    \A m, n \in DOMAIN answers :
        LET pairs == answers[m]
            all == answers[n]
            r == CHOOSE t \in pairs.request.targets : TRUE
            of_r == OfReference(all.matches, r)
        IN  (pairs.request.verb = "passages" /\ all.request.verb = "discover")
            => IF \/ r \notin all.request.targets \ ({world.key} \cup all.request.exclude)
                  \/ pairs.matches[1].passages = <<>>
               THEN of_r = <<>>
               ELSE Len(of_r) = 1 /\ Plain(of_r[1]) = Plain(pairs.matches[1])
=============================================================================
