------------------------------- MODULE Extract -------------------------------
(****************************************************************************)
(* Streaming extraction (extract.rs): a file that was decoded to the spool  *)
(* is read in overlapping chunks, each chunk becomes rows of magnitudes, a  *)
(* window of TimeFilter rows yields event points, and a queue of events     *)
(* yields fingerprints, which the caller's emit takes one by one.           *)
(*                                                                          *)
(* The transform of rustfft is external.  `level` of a file is the          *)
(* magnitude that band b has at sample s when s has Support samples of      *)
(* context on both sides, or all there are; with less it comes out as       *)
(* something else.  Magnitudes are naturals: they are compared, added and   *)
(* never divided.                                                           *)
(****************************************************************************)
EXTENDS Decode

CONSTANTS
    Hop, AudioBlock,            \* samples of a frame and of a block
    StreamCore,                 \* STREAM_CORE_SAMPLES
    Support,                    \* GABORATOR_ANALYSIS_SUPPORT, in samples
    BandCount,
    NativeStep,                 \* samples between two values of a band
    FrequencyFilter, TimeFilter,
    MinTime, MaxTime,           \* distances between the events of a landmark
    MinFrequency, MaxFrequency

\* A frame is no longer than a block and a chunk is a whole number of frames,
\* a landmark's events differ in time, and the filters have a middle.
ASSUME ExtractAssumption ==
    /\ Hop \in Nat \ {0} /\ AudioBlock \in Nat /\ AudioBlock >= Hop
    /\ StreamCore \in Nat \ {0} /\ StreamCore % Hop = 0
    /\ Support \in Nat
    /\ TimeFilter \in Nat /\ TimeFilter >= 3 /\ TimeFilter % 2 = 1
    /\ FrequencyFilter \in Nat /\ FrequencyFilter % 2 = 1
    /\ BandCount \in Nat /\ BandCount >= 3
    /\ MinTime \in Nat \ {0} /\ MaxTime \in Nat

\* The magnitudes of a file's samples are naturals.
ASSUME LevelsAssumption ==
    \A f \in Files : \A band \in 0 .. BandCount - 1, s \in 0 .. f.bytes \div 2 - 1 :
        f.level[band][s] \in Nat

VARIABLES
    phase,          \* "decode", "chunk", "rows", and at the end "ok" or "error"
    core,           \* where the next chunk's core starts, in samples
    rows,           \* rows of the present chunk that are not pushed yet
    magnitudes,     \* EventStream: the last rows, and
    vertical,       \* their maxima over neighbouring frequencies
    frame_count,
    events,         \* EventPacker: events that can still begin a landmark
    emitted         \* the fingerprints that the caller has been given

stream_vars == <<magnitudes, vertical, frame_count, events>>
vars == <<decode_vars, phase, core, rows, stream_vars, emitted>>

Bands == 0 .. BandCount - 1
Center == TimeFilter \div 2
Saturated(a, b) == IF a >= b THEN a - b ELSE 0

SampleCount == spool \div 2

\* The frames of a file, zero for one that is too short to have events.
Frames(samples) ==
    LET padded == ((samples + AudioBlock - 1) \div AudioBlock) * AudioBlock
        ring == (Support + 2 * AudioBlock) \div Hop
        frames == Saturated(Saturated(padded, Support + 1) \div Hop, ring)
    IN  IF samples < Hop * TimeFilter \/ frames < TimeFilter THEN 0 ELSE frames

CoreStop(start) == Least(start + StreamCore, SampleCount)

\* The samples a chunk reads and the frames it answers for, both half open.
Input(start) ==
    [start |-> Saturated(start, Support),
     stop |-> Least(CoreStop(start) + Support, SampleCount)]

\* Mutation: the chunks' frames are cut where their cores are.
OutputOfCore(start) == start \div Hop

OutputStart(start) == IF start = 0 THEN 0 ELSE start \div Hop - 1

OutputStop(start) ==
    IF CoreStop(start) = SampleCount
    THEN Frames(SampleCount)
    ELSE Least(CoreStop(start) \div Hop - 1, Frames(SampleCount))

Filtered(input, band, sample) ==
    IF /\ Least(sample, Support) <= sample - input.start
       /\ Least(SampleCount - sample, Support) <= input.stop - sample
    THEN file.level[band][sample]
    ELSE file.level[band][sample] + 1

\* The largest of a band's values in a frame; sample 0 is in none, and a band
\* whose step is longer than a frame has none in most of them.
BandMagnitude(input, band, frame) ==
    Max({0} \cup { Filtered(input, band, s) :
                   s \in { s \in Greatest(1, input.start) .. input.stop - 1 :
                               s % NativeStep[band] = 0 /\ s \div Hop = frame + 1 } })

RowAt(input, frame) == [band \in Bands |-> BandMagnitude(input, band, frame)]

ChunkRows(start) ==
    LET first == OutputStart(start)
    IN  [i \in 1 .. Saturated(OutputStop(start), first) |-> RowAt(Input(start), first + i - 1)]

\* The padding of the row: its first value to the left, zero to the right.
Padded(row) ==
    LET radius == FrequencyFilter \div 2
    IN  [i \in 0 .. BandCount + 2 * radius - 1 |->
            IF i < radius THEN row[0]
            ELSE IF i < radius + BandCount THEN row[i - radius] ELSE 0]

\* What a new value leaves of the indexes that may still be a maximum.
Kept(padded, fifo, i) ==
    IF padded[i] <= padded[i - 1]
    THEN fifo
    ELSE SubSeq(fifo, 1, Max({0} \cup { n \in 1 .. Len(fifo) - 1 : padded[fifo[n]] >= padded[i] }))

\* Mutation: an index leaves the queue one value late.
QueueLate(padded, i, fifo) ==
    LET pushed == Append(Kept(padded, fifo, i), i)
    IN  IF i = FrequencyFilter + Head(pushed) + 1 THEN Tail(pushed) ELSE pushed

Queue(padded, i, fifo) ==
    LET pushed == Append(Kept(padded, fifo, i), i)
    IN  IF i = FrequencyFilter + Head(pushed) THEN Tail(pushed) ELSE pushed

\* lemire_vertical_max_row: the running maximum, by a queue of indexes.
VerticalMax(row) ==
    LET padded == Padded(row)
        fifo[i \in 0 .. BandCount + FrequencyFilter - 2] ==
            IF i = 0 THEN <<0>> ELSE Queue(padded, i, fifo[i - 1])
    IN  [f \in Bands |-> padded[Head(fifo[f + FrequencyFilter - 1])]]

Around(window, f) ==
    LET Three(row) == row[f - 1] + row[f] + row[f + 1]
    IN  Three(window[Center]) + Three(window[Center + 1]) + Three(window[Center + 2])

\* The centre of the window at f is no smaller than its neighbours in the row,
\* nor than theirs in all rows of the window but the newest.
IsEvent(window, maxima, f) ==
    LET value == window[Center + 1][f]
    IN  /\ value # 0
        /\ maxima[Center + 1][f] = value
        /\ \A n \in 1 .. TimeFilter - 1 : maxima[n][f] <= value

EventAt(window, f, time) == [t |-> time, f |-> f, magnitude |-> Around(window, f)]

\* Mutation: the loop over frequencies starts one early.
EventsFromOne(window, maxima, time) ==
    ElementsAt([n \in 1 .. BandCount - 2 |-> EventAt(window, n, time)],
               { n \in 1 .. BandCount - 2 : IsEvent(window, maxima, n) })

EventsOf(window, maxima, time) ==
    ElementsAt([n \in 1 .. BandCount - 3 |-> EventAt(window, n + 1, time)],
               { n \in 1 .. BandCount - 3 : IsEvent(window, maxima, n + 1) })

Bit(condition) == IF condition THEN 1 ELSE 0

LandmarkHash(first, second, third) ==
    LET df21 == Magnitude(second.f - first.f)
        df32 == Magnitude(third.f - second.f)
    IN    ((second.t - first.t) * 64) \div (third.t - first.t)
        + 64 * Bit(first.f > second.f)
        + 128 * Bit(second.f > third.f)
        + 256 * Bit(third.f > first.f)
        + 512 * Bit(first.magnitude > second.magnitude)
        + 1024 * Bit(second.magnitude > third.magnitude)
        + 2048 * Bit(third.magnitude > first.magnitude)
        + 4096 * Bit(second.t - first.t > third.t - second.t)
        + 8192 * Bit(df21 > df32)
        + 16384 * ((first.f \div 32) % 256)         \* 8 bits from the 14th
        + 4194304 * ((df21 \div 4) % 64)            \* 6 bits from the 22nd
        + 268435456 * ((df32 \div 4) % 64)          \* 6 bits from the 28th

Fingerprint(first, second, third) ==
    [hash |-> LandmarkHash(first, second, third), t |-> first.t, f |-> first.f]

\* Two events that may stand next to each other in a landmark.
IsNext(a, b) ==
    /\ b.t - a.t \in MinTime .. MaxTime
    /\ Magnitude(b.f - a.f) \in MinFrequency .. MaxFrequency

Nexts(queue, i) ==
    ElementsAt([n \in 1 .. Len(queue) - i |-> i + n],
               { n \in 1 .. Len(queue) - i : IsNext(queue[i], queue[i + n]) })

\* The landmarks that begin with the queue's i-th event, as pack_first would
\* emit them when it is the first.
Landmarks(queue, i) ==
    LET Thirds(j) == LET thirds == Nexts(queue, j)
                     IN  [n \in DOMAIN thirds |->
                             Fingerprint(queue[i], queue[j], queue[thirds[n]])]
        seconds == Nexts(queue, i)
    IN  FlattenSeq([n \in DOMAIN seconds |-> Thirds(seconds[n])])

PackFirst(queue, n) == FlattenSeq([i \in 1 .. n |-> Landmarks(queue, i)])

\* Mutation: the queue forgets that a landmark has a third event.
IsDueForSeconds(event, time) == time > event.t + MaxTime

IsDue(event, time) == time > event.t + 2 * MaxTime

\* Mutation: one event leaves the queue with each row.
DueOnce(queue, time) ==
    IF queue # <<>> /\ IsDue(Head(queue), time) THEN 1 ELSE 0

\* How many events at the head of the queue can begin no further landmark.
Due(queue, time) ==
    Max({ n \in 0 .. Len(queue) : \A i \in 1 .. n : IsDue(queue[i], time) })

-----------------------------------------------------------------------------
Init ==
    /\ DecodeInit
    /\ phase = "decode"
    /\ core = 0
    /\ rows = <<>>
    /\ magnitudes = <<>>
    /\ vertical = <<>>
    /\ frame_count = 0
    /\ events = <<>>
    /\ emitted = <<>>

DecodeStep ==
    /\ DecodeNext
    /\ UNCHANGED <<phase, core, rows, stream_vars, emitted>>

\* extract_chunks: a file with too few frames has a duration and no prints.
ExtractChunks ==
    /\ phase = "decode" /\ reader = "decoded"
    /\ phase' = IF Frames(SampleCount) = 0 THEN "ok" ELSE "chunk"
    /\ UNCHANGED <<decode_vars, core, rows, stream_vars, emitted>>

GiveUp ==
    /\ phase = "decode" /\ reader \in {"refused", "failed"}
    /\ phase' = "error"
    /\ UNCHANGED <<decode_vars, core, rows, stream_vars, emitted>>

ReadChunk ==
    /\ phase = "chunk" /\ core < SampleCount
    /\ rows' = ChunkRows(core)
    /\ phase' = IF rows' = <<>> THEN "chunk" ELSE "rows"
    /\ core' = core + StreamCore
    /\ UNCHANGED <<decode_vars, stream_vars, emitted>>

\* The spool cannot be read; what was emitted stays with the caller.
ReadFails ==
    /\ phase = "chunk" /\ core < SampleCount
    /\ phase' = "error"
    /\ UNCHANGED <<decode_vars, core, rows, stream_vars, emitted>>

\* EventStream::push for one row, with the queue's advance.
PushRow ==
    /\ phase = "rows"
    /\ LET window == Append(magnitudes, Head(rows))
           maxima == Append(vertical, VerticalMax(Head(rows)))
           time == frame_count - Center
           queue == events \o EventsOf(window, maxima, time)
           due == Due(queue, time)
       IN  IF Len(window) < TimeFilter
           THEN /\ magnitudes' = window
                /\ vertical' = maxima
                /\ UNCHANGED <<events, emitted>>
           ELSE /\ magnitudes' = Tail(window)
                /\ vertical' = Tail(maxima)
                /\ events' = SubSeq(queue, due + 1, Len(queue))
                /\ emitted' = emitted \o PackFirst(queue, due)
    /\ frame_count' = frame_count + 1
    /\ rows' = Tail(rows)
    /\ phase' = IF rows' = <<>> THEN "chunk" ELSE "rows"
    /\ UNCHANGED <<decode_vars, core>>

Finish ==
    /\ phase = "chunk" /\ core >= SampleCount
    /\ emitted' = emitted \o PackFirst(events, Len(events))
    /\ events' = <<>>
    /\ phase' = "ok"
    /\ UNCHANGED <<decode_vars, core, rows, magnitudes, vertical, frame_count>>

Next ==
    \/ DecodeStep
    \/ ExtractChunks \/ GiveUp
    \/ ReadChunk \/ ReadFails
    \/ PushRow
    \/ Finish

Spec == Init /\ [][Next]_vars /\ DecodeFairness

-----------------------------------------------------------------------------
IsEventRecord(event) ==
    /\ event.t \in Nat /\ event.f \in Bands /\ event.magnitude \in Nat \ {0}
    /\ DOMAIN event = {"t", "f", "magnitude"}

\* Every variable has its type; the two windows are the same length and no
\* event is in the first two bands or the last.
TypeOK ==
    /\ file \in Files
    /\ ffmpeg \in {"none", "running", "exited", "reaped"}
    /\ status \in BOOLEAN
    /\ {written, said, spool, core, frame_count} \subseteq Nat
    /\ {stdout, stderr} \subseteq 0 .. PipeSize
    /\ reader \in {"spawn", "copy", "wait", "validate", "decoded", "refused", "failed"}
    /\ phase \in {"decode", "chunk", "rows", "ok", "error"}
    /\ rows \in Seq([Bands -> Nat])
    /\ magnitudes \in Seq([Bands -> Nat])
    /\ vertical \in Seq([Bands -> Nat])
    /\ Len(vertical) = Len(magnitudes)
    /\ \A i \in DOMAIN events : IsEventRecord(events[i]) /\ events[i].f \in 2 .. BandCount - 2
    /\ \A i \in DOMAIN emitted : emitted[i].hash \in Nat /\ emitted[i].t \in 0 .. frame_count

\* The largest magnitude of the frequencies around one.
Highest(line, f) ==
    Max({ line[g] : g \in { g \in Bands : Magnitude(g - f) <= FrequencyFilter \div 2 } })

\* Frame t of the rows has an event at f, and what is summed up around it.
IsPeak(row, t, f) ==
    /\ row[t][f] # 0
    /\ row[t][f] = Highest(row[t], f)
    /\ \A u \in t - Center .. t + Center - 1 : Highest(row[u], f) <= row[t][f]

Surround(row, t, f) ==
    LET Line(u) == row[u][f - 1] + row[u][f] + row[u][f + 1]
    IN  Line(t - 1) + Line(t) + Line(t + 1)

PeaksOf(row, t) ==
    ElementsAt([m \in 1 .. BandCount - 3 |->
                   [t |-> t, f |-> m + 1, magnitude |-> Surround(row, t, m + 1)]],
               { m \in 1 .. BandCount - 3 : IsPeak(row, t, m + 1) })

\* The file as one chunk, its maxima by definition and its events and landmarks
\* by exhaustive search: what extract.rs's own test helper event_points says.
WholeRows ==
    [t \in 0 .. Frames(SampleCount) - 1 |-> RowAt([start |-> 0, stop |-> SampleCount], t)]

WholeEvents ==
    LET row == WholeRows
    IN  FlattenSeq([n \in 1 .. Saturated(Frames(SampleCount), 2 * Center) |->
                       PeaksOf(row, n + Center - 1)])

Whole ==
    LET all == WholeEvents
        n == Len(all)
    IN  FlattenSeq([i \in 1 .. n |-> FlattenSeq([j \in 1 .. n |->
            IF j <= i \/ ~IsNext(all[i], all[j]) THEN <<>>
            ELSE FlattenSeq([k \in 1 .. n |->
                    IF k <= j \/ ~IsNext(all[j], all[k]) THEN <<>>
                    ELSE <<Fingerprint(all[i], all[j], all[k])>>])])])

\* Nothing is emitted of a file that did not decode, nor of a part of one: a
\* killed or failing ffmpeg, an early end of its output and an odd number of
\* bytes are found out before the first frame (validate_ffmpeg_output).
OnlyWholeFilesAreEmitted ==
    emitted # <<>> => reader = "decoded" /\ spool = file.bytes /\ file.success

\* What the caller is given is, print by print and in order, what the whole
\* file gives at once, and all of it when the call succeeds ("Decode with
\* bounded RAM and emit fingerprints in canonical extraction order",
\* extract.rs:66).
StreamIsWhole ==
    /\ OnlyWholeFilesAreEmitted
    /\ phase = "chunk" => IsPrefix(emitted, Whole)
    /\ phase = "ok" => emitted = IF Frames(SampleCount) = 0 THEN <<>> ELSE Whole

\* The memory of a stream does not grow with the file: less than a filter of
\* rows is kept, and only events that a landmark can still begin with
\* (extract_audio_streaming, "with bounded RAM").
StreamIsBounded ==
    /\ Len(magnitudes) < TimeFilter
    /\ Len(rows) <= StreamCore \div Hop
    /\ \A i \in DOMAIN events : events[i].t + 2 * MaxTime + Center + 1 >= frame_count

\* Each kept row has with it, at every frequency, the largest magnitude of the
\* neighbouring frequencies (lemire_vertical_max_row).
VerticalIsMaximum ==
    \A i \in DOMAIN magnitudes : \A f \in Bands :
        vertical[i][f] = Highest(magnitudes[i], f)

\* A file whose messages fit in a pipe is decoded or refused, however ffmpeg
\* mixes them with the samples: the thread that only reads samples is not kept
\* from it for ever (extract.rs:70-88).
DecodeEnds ==
    file.messages <= PipeSize ~> reader \in {"decoded", "refused", "failed"}
=============================================================================
