---------------------------- MODULE ExtractProofs ----------------------------
(****************************************************************************)
(* Whatever ffmpeg does, however it mixes samples and messages and whenever *)
(* it is killed, for any files and any size of the pipes: an extraction     *)
(* that emits a fingerprint has all the samples of its file.                *)
(*                                                                          *)
(* The first invariant accounts for every byte: what ffmpeg has written is  *)
(* in the pipe or in the spool, an exit with success is one after the last  *)
(* byte, and the thread leaves the copy with an empty pipe and ffmpeg gone. *)
(*                                                                          *)
(* The second one is about the stream, for every size of the filters, the   *)
(* chunks and the file: its windows hold less than a filter of rows, each   *)
(* with the maxima that a search would find, and its events are in order    *)
(* and recent.  It needs that a chunk has no more rows than its core has    *)
(* frames, and that the queue of lemire_vertical_max_row has a place for    *)
(* the largest of all values in reach.                                      *)
(*                                                                          *)
(* The third one says where the stream is in the file: the rows to come are *)
(* the frames from here on whatever chunk they were read in, the window has *)
(* the frames before, the queue is the end of the events so far, and the    *)
(* landmarks of all events before it were given.  An event leaves the queue *)
(* when no later event is near enough to be in a landmark of its, so that   *)
(* what is given is, in order, what an exhaustive search of the whole file  *)
(* finds.                                                                   *)
(****************************************************************************)
EXTENDS Extract, SharedLemmas

BytesAreAccounted ==
    /\ file \in Files
    /\ written \in Nat /\ stdout \in Nat /\ spool \in Nat
    /\ written = stdout + spool

\* What a status says of the file.
StatusIsTrue ==
    /\ status \in BOOLEAN
    /\ ffmpeg \in {"exited", "reaped"} /\ status => written = file.bytes /\ file.success

\* What the extracting thread has seen.
ReaderIsKnown ==
    /\ reader \in {"wait", "validate", "decoded", "refused"} =>
         stdout = 0 /\ ffmpeg \in {"exited", "reaped"}
    /\ reader = "decoded" => status

StreamIsDecoded ==
    /\ phase \in {"chunk", "rows"} => reader = "decoded"
    /\ emitted # <<>> => reader = "decoded"

IInv ==
    /\ BytesAreAccounted
    /\ StatusIsTrue
    /\ ReaderIsKnown
    /\ StreamIsDecoded

-----------------------------------------------------------------------------
LEMMA InitIInv == Init => IInv
BY DEF Init, DecodeInit, IInv, BytesAreAccounted, StatusIsTrue, ReaderIsKnown, StreamIsDecoded

\* Steps of the stream leave the decoder alone.
LEMMA StreamKeepsIInv ==
    ASSUME IInv, UNCHANGED decode_vars,
           phase' \in {"chunk", "rows"} \/ emitted' # emitted => reader = "decoded"
    PROVE  IInv'
BY DEF IInv, decode_vars, BytesAreAccounted, StatusIsTrue, ReaderIsKnown, StreamIsDecoded

\* A byte that ffmpeg writes is in the pipe.
LEMMA FfmpegKeepsIInv ==
    ASSUME IInv, Ffmpeg \/ FfmpegIsKilled, UNCHANGED <<phase, emitted>>
    PROVE  IInv'
<1>1. CASE FfmpegWrites
  <2> DEFINE n == Least(file.bytes - written, PipeSize - stdout)
  <2>1. /\ n > 0 /\ written' = written + n /\ stdout' = stdout + n
        /\ ffmpeg = "running"
        /\ UNCHANGED <<file, ffmpeg, status, spool, reader>>
    BY <1>1 DEF FfmpegWrites
  <2>2. n \in Int
    BY FilesAssumption, PipeSizeAssumption DEF Least, IInv, BytesAreAccounted
  <2> HIDE DEF n
  <2>3. BytesAreAccounted'
    BY <2>1, <2>2 DEF IInv, BytesAreAccounted
  <2>4. QED
    BY <2>1, <2>3 DEF IInv, StatusIsTrue, ReaderIsKnown, StreamIsDecoded
<1>2. CASE FfmpegComplains
  BY <1>2 DEF FfmpegComplains, IInv, BytesAreAccounted, StatusIsTrue, ReaderIsKnown, StreamIsDecoded
<1>3. CASE FfmpegExits
  BY <1>3, FilesAssumption
     DEF FfmpegExits, IInv, BytesAreAccounted, StatusIsTrue, ReaderIsKnown, StreamIsDecoded
<1>4. CASE FfmpegIsKilled
  BY <1>4 DEF FfmpegIsKilled, IInv, BytesAreAccounted, StatusIsTrue, ReaderIsKnown, StreamIsDecoded
<1>5. QED
  BY <1>1, <1>2, <1>3, <1>4 DEF Ffmpeg

\* The thread moves the bytes on, and leaves the copy when there are no more.
LEMMA ReaderKeepsIInv ==
    ASSUME IInv, Reader \/ SpoolFails, UNCHANGED <<phase, emitted>>
    PROVE  IInv'
<1>1. CASE Spawn
  BY <1>1 DEF Spawn, IInv, BytesAreAccounted, StatusIsTrue, ReaderIsKnown, StreamIsDecoded
<1>2. CASE CopyStdout
  BY <1>2 DEF CopyStdout, IInv, BytesAreAccounted, StatusIsTrue, ReaderIsKnown, StreamIsDecoded
<1>3. CASE WaitWithOutput
  BY <1>3 DEF WaitWithOutput, IInv, BytesAreAccounted, StatusIsTrue, ReaderIsKnown, StreamIsDecoded
<1>4. CASE Validate
  BY <1>4
     DEF Validate, IsValid, IInv, BytesAreAccounted, StatusIsTrue, ReaderIsKnown, StreamIsDecoded
<1>5. CASE SpoolFails
  BY <1>5 DEF SpoolFails, IInv, BytesAreAccounted, StatusIsTrue, ReaderIsKnown, StreamIsDecoded
<1>6. QED
  BY <1>1, <1>2, <1>3, <1>4, <1>5 DEF Reader

LEMMA NextKeepsIInv == IInv /\ [Next]_vars => IInv'
<1> SUFFICES ASSUME IInv, [Next]_vars PROVE IInv'
  OBVIOUS
<1>1. CASE DecodeStep
  BY <1>1, FfmpegKeepsIInv, ReaderKeepsIInv DEF DecodeStep, DecodeNext
<1>2. CASE ExtractChunks
  BY <1>2, StreamKeepsIInv DEF ExtractChunks
<1>3. CASE GiveUp
  BY <1>3, StreamKeepsIInv DEF GiveUp
<1>4. CASE ReadChunk
  BY <1>4, StreamKeepsIInv DEF ReadChunk, IInv, StreamIsDecoded
<1>5. CASE ReadFails
  BY <1>5, StreamKeepsIInv DEF ReadFails
<1>6. CASE PushRow
  <2>1. reader = "decoded" /\ UNCHANGED decode_vars
    BY <1>6 DEF PushRow, IInv, StreamIsDecoded
  <2>2. QED
    BY <2>1, StreamKeepsIInv
<1>7. CASE Finish
  BY <1>7, StreamKeepsIInv DEF Finish, IInv, StreamIsDecoded
<1>8. CASE UNCHANGED vars
  BY <1>8, StreamKeepsIInv DEF vars, IInv, StreamIsDecoded
<1>9. QED
  BY <1>1, <1>2, <1>3, <1>4, <1>5, <1>6, <1>7, <1>8 DEF Next

\* An extraction keeps account of the bytes that its decoder wrote.
THEOREM ExtractInvariant == Spec => []IInv
BY InitIInv, NextKeepsIInv, PTL DEF Spec

-----------------------------------------------------------------------------
\* extract_audio_streaming emits nothing of a file that ffmpeg did not decode
\* to the end.
THEOREM OnlyWholeFilesStayEmitted == Spec => []OnlyWholeFilesAreEmitted
<1>1. IInv => OnlyWholeFilesAreEmitted
  BY DEF IInv, BytesAreAccounted, StatusIsTrue, ReaderIsKnown, StreamIsDecoded,
     OnlyWholeFilesAreEmitted
<1>2. QED
  BY <1>1, ExtractInvariant, PTL

-----------------------------------------------------------------------------
(* Sequences.                                                              *)

-----------------------------------------------------------------------------
(* The running maximum.                                                    *)

\* The queue after value i: places of the last FrequencyFilter values, in order
\* and with no value larger than the one before, i the last of them.  For every
\* place in reach there is one that is no earlier and has no smaller a value.
IsQueue(padded, i, q) ==
    /\ q \in Seq(Nat) /\ Len(q) \in Nat \ {0}
    /\ q[Len(q)] = i
    /\ \A n \in 1 .. Len(q) : q[n] \in 0 .. i /\ i < q[n] + FrequencyFilter
    /\ \A m, n \in 1 .. Len(q) : m < n => q[m] < q[n] /\ padded[q[m]] >= padded[q[n]]
    /\ \A j \in 0 .. i : i < j + FrequencyFilter =>
           \E n \in 1 .. Len(q) : j <= q[n] /\ padded[q[n]] >= padded[j]

\* What stays is the beginning of the queue, up to the last value that is no
\* smaller than the new one.
LEMMA KeptIsBeginning ==
    ASSUME NEW last \in Nat, NEW padded \in [0 .. last -> Nat], NEW i \in 1 .. last,
           NEW q, IsQueue(padded, i - 1, q)
    PROVE  /\ Kept(padded, q, i) \in Seq(Nat)
           /\ Len(Kept(padded, q, i)) \in 0 .. Len(q)
           /\ \A n \in 1 .. Len(Kept(padded, q, i)) :
                 Kept(padded, q, i)[n] = q[n] /\ padded[q[n]] >= padded[i]
           /\ \A n \in Len(Kept(padded, q, i)) + 1 .. Len(q) : padded[q[n]] <= padded[i]
<1> DEFINE size == Len(q)
           value == [n \in 1 .. size |-> padded[q[n]]]
<1>a. /\ q \in Seq(Nat) /\ size \in Nat \ {0} /\ q[size] = i - 1
      /\ \A n \in 1 .. size : q[n] \in 0 .. i - 1
      /\ \A m, n \in 1 .. size : m < n => padded[q[m]] >= padded[q[n]]
  BY DEF IsQueue
<1>s. size = Len(q)
  OBVIOUS
<1>b. i \in 0 .. last /\ padded[i] \in Nat /\ \A j \in 0 .. i - 1 : j \in 0 .. last
  OBVIOUS
<1> HIDE DEF size
<1>c. \A n \in 1 .. size : value[n] = padded[q[n]] /\ q[n] \in 0 .. last
  BY <1>a, <1>b
<1> HIDE DEF value
<1>d. \A n \in 1 .. size : value[n] \in Nat
  BY <1>c
<1>e. size \in 1 .. size
  BY <1>a
<1>1. /\ q \in Seq(Nat) /\ size \in Nat \ {0} /\ q[size] = i - 1
      /\ \A n \in 1 .. size : q[n] \in Nat /\ value[n] \in Nat /\ value[n] = padded[q[n]]
      /\ \A m, n \in 1 .. size : m < n => value[m] >= value[n]
      /\ padded[i] \in Nat /\ padded[i - 1] = value[size]
  BY <1>a, <1>b, <1>c, <1>d, <1>e, SMTT(30)
<1>2. CASE padded[i] <= padded[i - 1]
  <2>1. Kept(padded, q, i) = q
    BY <1>2 DEF Kept
  <2>2. ASSUME NEW n \in 1 .. size PROVE value[n] >= padded[i]
    <3>1. CASE n = size
      BY <1>1, <1>2, <3>1
    <3>2. CASE n < size
      <4>1. size \in 1 .. size /\ value[n] >= value[size]
        BY <1>1, <3>2
      <4>2. QED
        BY <1>1, <1>2, <4>1, SMTT(30)
    <3>3. QED
      BY <1>1, <3>1, <3>2
  <2>3. QED
    BY <1>1, <1>s, <2>1, <2>2, SMTT(30)
<1>3. CASE ~(padded[i] <= padded[i - 1])
  <2> DEFINE larger == { n \in 1 .. size - 1 : padded[q[n]] >= padded[i] }
             c == Max({0} \cup larger)
             k == SubSeq(q, 1, c)
  <2>1. Kept(padded, q, i) = k
    BY <1>3, <1>s DEF Kept
  <2>2. c \in {0} \cup larger /\ \A n \in larger : n <= c
    <3>1. IsFiniteSet(larger)
      <4>1. IsFiniteSet(1 .. size - 1)
        <5>1. size - 1 \in Int /\ 1 \in Int
          BY <1>1
        <5>2. QED
          BY <5>1, FS_Interval
      <4>2. QED
        BY <4>1, FS_Subset
    <3>a. larger \in SUBSET Nat
      BY <1>1
    <3>2. IsFiniteSet({0} \cup larger) /\ {0} \cup larger # {} /\ {0} \cup larger \in SUBSET Nat
      <4> HIDE DEF larger
      <4>1. IsFiniteSet({0})
        BY FS_Singleton
      <4>2. IsFiniteSet({0} \cup larger)
        BY <3>1, <4>1, FS_Union
      <4>3. QED
        BY <3>a, <4>2
    <3> HIDE DEF larger
    <3>3. QED
      BY <3>2, GreatestElement
  <2> HIDE DEF c
  <2>3. c \in 0 .. size - 1 /\ (c # 0 => value[c] >= padded[i])
    <3>1. c = 0 \/ c \in larger
      BY <2>2
    <3>2. c \in larger => c \in 1 .. size - 1 /\ padded[q[c]] >= padded[i] /\ c \in 1 .. size
      BY <1>1
    <3> HIDE DEF larger
    <3>3. CASE c = 0
      BY <1>1, <3>3
    <3>4. CASE c \in larger
      <4>1. c \in 1 .. size /\ c \in 0 .. size - 1 /\ padded[q[c]] >= padded[i]
        BY <1>1, <3>2, <3>4
      <4>2. QED
        BY <1>1, <4>1
    <3>5. QED
      BY <3>1, <3>3, <3>4
  <2>4. k \in Seq(Nat) /\ Len(k) = c /\ \A n \in 1 .. c : k[n] = q[n]
    <3>1. \A n \in 1 .. c : q[n] \in Nat
      <4>1. \A n \in 1 .. c : n \in 1 .. size
        BY <1>1, <2>3
      <4>2. QED
        BY <1>1, <4>1
    <3>2. k \in Seq(Nat) /\ Len(k) = (IF 1 <= c THEN c - 1 + 1 ELSE 0) /\ \A n \in 1 .. c - 1 + 1 : k[n] = q[1 + n - 1]
      BY <2>3, <3>1, SubSeqProperties
    <3>3. QED
      BY <2>3, <3>2
  <2> HIDE DEF k
  <2>5. ASSUME NEW n \in 1 .. c PROVE value[n] >= padded[i]
    <3>1. n = c \/ value[n] >= value[c]
      <4>1. n \in 1 .. size /\ c \in 1 .. size /\ (n = c \/ n < c)
        BY <1>1, <2>3
      <4>2. QED
        BY <1>1, <4>1
    <3>2. value[n] \in Nat /\ value[c] \in Nat /\ value[c] >= padded[i]
      BY <1>1, <2>3
    <3>3. QED
      BY <1>1, <3>1, <3>2
  <2>6. ASSUME NEW n \in c + 1 .. size PROVE value[n] <= padded[i]
    <3>1. CASE n = size
      BY <1>1, <1>3, <3>1
    <3>2. CASE n # size
      <4>1. n \in 1 .. size - 1 /\ n \in 1 .. size /\ n \notin larger
        BY <1>1, <2>2, <2>3, <3>2
      <4>2. ~(value[n] >= padded[i]) /\ value[n] \in Nat
        BY <1>1, <4>1
      <4>3. QED
        BY <1>1, <4>2
    <3>3. QED
      BY <3>1, <3>2
  <2>7. \A n \in 1 .. c : n \in 1 .. size
    BY <1>1, <2>3
  <2>8. \A n \in c + 1 .. size : n \in 1 .. size
    BY <1>1, <2>3
  <2>9. /\ \A n \in 1 .. c : k[n] = q[n] /\ padded[q[n]] >= padded[i]
        /\ \A n \in c + 1 .. size : padded[q[n]] <= padded[i]
        /\ c \in 0 .. size
    <3>1. ASSUME NEW n \in 1 .. c PROVE padded[q[n]] >= padded[i]
      BY <1>1, <2>5, <2>7
    <3>2. ASSUME NEW n \in c + 1 .. size PROVE padded[q[n]] <= padded[i]
      BY <1>1, <2>6, <2>8
    <3>3. c \in 0 .. size
      BY <1>1, <2>3
    <3>4. QED
      BY <2>4, <3>1, <3>2, <3>3
  <2>10. QED
    BY <1>s, <2>1, <2>4, <2>9
<1>4. QED
  BY <1>2, <1>3
\* p is the first c places of q and i.
IsPushed(p, padded, i, q, c) ==
    /\ p \in Seq(Nat) /\ c \in 0 .. Len(q) /\ Len(p) = c + 1 /\ p[c + 1] = i
    /\ \A n \in 1 .. c : p[n] = q[n] /\ padded[q[n]] >= padded[i]
    /\ \A n \in c + 1 .. Len(q) : padded[q[n]] <= padded[i]

\* What comes into the queue, before its oldest place may leave it.
LEMMA PushedCovers ==
    ASSUME NEW last \in Nat, NEW padded \in [0 .. last -> Nat], NEW i \in 1 .. last,
           NEW q, IsQueue(padded, i - 1, q), NEW c, NEW p, IsPushed(p, padded, i, q, c),
           FrequencyFilter \in Nat \ {0}
    PROVE  /\ \A n \in 1 .. c + 1 : p[n] \in 0 .. i /\ i <= p[n] + FrequencyFilter
           /\ \A m, n \in 1 .. c + 1 : m < n => p[m] < p[n] /\ padded[p[m]] >= padded[p[n]]
           /\ \A j \in 0 .. i : i < j + FrequencyFilter =>
                  \E n \in 1 .. c + 1 : j <= p[n] /\ padded[p[n]] >= padded[j]
<1> DEFINE size == Len(q)
<1>1. /\ size \in Nat \ {0}
      /\ \A n \in 1 .. size : q[n] \in 0 .. i - 1 /\ i - 1 < q[n] + FrequencyFilter
      /\ \A m, n \in 1 .. size : m < n => q[m] < q[n] /\ padded[q[m]] >= padded[q[n]]
      /\ \A j \in 0 .. i - 1 : i - 1 < j + FrequencyFilter =>
            \E n \in 1 .. size : j <= q[n] /\ padded[q[n]] >= padded[j]
  BY DEF IsQueue
<1>2. /\ p \in Seq(Nat) /\ c \in 0 .. size /\ Len(p) = c + 1 /\ p[c + 1] = i
      /\ \A n \in 1 .. c : p[n] = q[n] /\ padded[q[n]] >= padded[i]
      /\ \A n \in c + 1 .. size : padded[q[n]] <= padded[i]
  BY DEF IsPushed
<1> HIDE DEF size
<1>3. \A n \in 1 .. c + 1 : n = c + 1 \/ n \in 1 .. c
  BY <1>1, <1>2
<1>4. \A n \in 1 .. c : n \in 1 .. size
  BY <1>1, <1>2
<1>5. c + 1 \in 1 .. c + 1 /\ \A n \in 1 .. c : n \in 1 .. c + 1 /\ n < c + 1
  BY <1>1, <1>2
<1>6. ASSUME NEW n \in 1 .. c + 1
      PROVE  p[n] \in 0 .. i /\ i <= p[n] + FrequencyFilter
  <2>1. CASE n = c + 1
    BY <1>2, <2>1
  <2>2. CASE n \in 1 .. c
    <3>1. p[n] = q[n] /\ q[n] \in 0 .. i - 1 /\ i - 1 < q[n] + FrequencyFilter
      BY <1>1, <1>2, <1>4, <2>2
    <3>2. \A x \in 0 .. i - 1 : i - 1 < x + FrequencyFilter => x \in 0 .. i /\ i <= x + FrequencyFilter
      OBVIOUS
    <3>3. QED
      BY <3>1, <3>2
  <2>3. QED
    BY <1>3, <2>1, <2>2
<1>7. ASSUME NEW m \in 1 .. c + 1, NEW n \in 1 .. c + 1, m < n
      PROVE  p[m] < p[n] /\ padded[p[m]] >= padded[p[n]]
  <2>1. m \in 1 .. c
    BY <1>1, <1>2, <1>7
  <2>2. p[m] = q[m] /\ padded[q[m]] >= padded[i] /\ q[m] \in 0 .. i - 1
    BY <1>1, <1>2, <1>4, <2>1
  <2>3. CASE n = c + 1
    <3>1. \A x \in 0 .. i - 1 : x < i
      OBVIOUS
    <3>2. QED
      BY <1>2, <2>2, <2>3, <3>1
  <2>4. CASE n \in 1 .. c
    BY <1>1, <1>2, <1>4, <1>7, <2>1, <2>2, <2>4
  <2>5. QED
    BY <1>3, <2>3, <2>4
<1>8. ASSUME NEW j \in 0 .. i, i < j + FrequencyFilter
      PROVE  \E n \in 1 .. c + 1 : j <= p[n] /\ padded[p[n]] >= padded[j]
  <2>1. CASE j = i
    <3>1. j <= i /\ padded[i] >= padded[i]
      <4>1. i \in 0 .. last
        OBVIOUS
      <4>2. QED
        BY <2>1, <4>1
    <3>2. QED
      BY <1>2, <1>5, <2>1, <3>1
  <2>2. CASE j # i
    <3>1. j \in 0 .. i - 1 /\ i - 1 < j + FrequencyFilter
      BY <1>8, <2>2
    <3>2. PICK n \in 1 .. size : j <= q[n] /\ padded[q[n]] >= padded[j]
      BY <1>1, <3>1
    <3>3. CASE n \in 1 .. c
      BY <1>2, <1>5, <3>2, <3>3
    <3>4. CASE n \notin 1 .. c
      <4>1. n \in c + 1 .. size
        BY <1>1, <1>2, <3>4
      <4>2. padded[q[n]] <= padded[i]
        BY <1>2, <4>1
      <4>3. q[n] \in 0 .. last /\ j \in 0 .. last /\ i \in 0 .. last /\ j <= i
        <5>1. \A x \in 0 .. i - 1 : x \in 0 .. last /\ x <= i
          OBVIOUS
        <5>2. q[n] \in 0 .. i - 1
          BY <1>1
        <5>3. i \in 0 .. last
          OBVIOUS
        <5>4. QED
          BY <3>1, <5>1, <5>2, <5>3
      <4>4. padded[q[n]] \in Nat /\ padded[j] \in Nat /\ padded[i] \in Nat
        BY <4>3
      <4>5. padded[i] >= padded[j]
        BY <3>2, <4>2, <4>4
      <4>6. QED
        BY <1>2, <1>5, <4>3, <4>5
    <3>5. QED
      BY <3>3, <3>4
  <2>3. QED
    BY <2>1, <2>2
<1>9. QED
  BY <1>6, <1>7, <1>8

LEMMA QueueStays ==
    ASSUME NEW last \in Nat, NEW padded \in [0 .. last -> Nat], NEW i \in 1 .. last,
           NEW q, IsQueue(padded, i - 1, q), FrequencyFilter \in Nat \ {0}
    PROVE  IsQueue(padded, i, Queue(padded, i, q))
<1> DEFINE k == Kept(padded, q, i)
           c == Len(k)
           p == Append(k, i)
<1>1. /\ k \in Seq(Nat) /\ c \in 0 .. Len(q)
      /\ \A n \in 1 .. c : k[n] = q[n] /\ padded[q[n]] >= padded[i]
      /\ \A n \in c + 1 .. Len(q) : padded[q[n]] <= padded[i]
  BY KeptIsBeginning
<1>2. Queue(padded, i, q) = IF i = FrequencyFilter + Head(p) THEN Tail(p) ELSE p
  BY DEF Queue
<1> HIDE DEF k
<1>3. p \in Seq(Nat) /\ Len(p) = c + 1 /\ p[c + 1] = i /\ \A n \in 1 .. c : p[n] = k[n]
  BY <1>1, Pushed
<1>4. Len(q) \in Nat /\ c \in Nat
  BY <1>1 DEF IsQueue
<1> HIDE DEF c, p
<1>5. IsPushed(p, padded, i, q, c)
  BY <1>1, <1>3 DEF IsPushed
<1>6. /\ \A n \in 1 .. c + 1 : p[n] \in 0 .. i /\ i <= p[n] + FrequencyFilter
      /\ \A m, n \in 1 .. c + 1 : m < n => p[m] < p[n] /\ padded[p[m]] >= padded[p[n]]
      /\ \A j \in 0 .. i : i < j + FrequencyFilter =>
             \E n \in 1 .. c + 1 : j <= p[n] /\ padded[p[n]] >= padded[j]
  BY <1>5, PushedCovers, ZenonT(30)
<1>7. p # <<>> /\ Head(p) = p[1] /\ 1 \in 1 .. c + 1
  BY <1>3, <1>4
<1>8. \A n \in 1 .. c + 1 : n # 1 => p[1] < p[n]
  BY <1>4, <1>6, <1>7
<1>9. CASE i = FrequencyFilter + p[1]
  <2> DEFINE t == Tail(p)
  <2>1. t \in Seq(Nat) /\ Len(t) = c /\ \A n \in 1 .. c : t[n] = p[n + 1]
    BY <1>3, <1>4, <1>7, HeadTailProperties
  <2>2. Queue(padded, i, q) = t
    BY <1>2, <1>7, <1>9
  <2> HIDE DEF t
  <2>3. c # 0
    <3>1. p[1] \in 0 .. i
      BY <1>6, <1>7
    <3>2. p[1] # i
      BY <1>9, <3>1
    <3>3. QED
      BY <1>3, <3>2
  <2>4. \A n \in 1 .. c : n + 1 \in 1 .. c + 1 /\ n + 1 # 1
    BY <1>4
  <2>5. t[c] = i /\ Len(t) \in Nat \ {0}
    BY <1>3, <1>4, <2>1, <2>3
  <2>6. ASSUME NEW n \in 1 .. c PROVE t[n] \in 0 .. i /\ i < t[n] + FrequencyFilter
    <3>1. p[1] < p[n + 1] /\ t[n] = p[n + 1] /\ p[n + 1] \in 0 .. i /\ p[1] \in 0 .. i
      BY <1>6, <1>7, <1>8, <2>1, <2>4, SMTT(30)
    <3>2. QED
      BY <1>9, <3>1, SMTT(30)
  <2>7. ASSUME NEW m \in 1 .. c, NEW n \in 1 .. c, m < n
        PROVE  t[m] < t[n] /\ padded[t[m]] >= padded[t[n]]
    <3>1. m + 1 < n + 1
      BY <1>4, <2>7
    <3>2. QED
      BY <1>6, <2>1, <2>4, <3>1
  <2>8. ASSUME NEW j \in 0 .. i, i < j + FrequencyFilter
        PROVE  \E n \in 1 .. c : j <= t[n] /\ padded[t[n]] >= padded[j]
    <3>1. PICK n \in 1 .. c + 1 : j <= p[n] /\ padded[p[n]] >= padded[j]
      BY <1>6, <2>8
    <3>2. n # 1
      <4>1. p[1] \in 0 .. i /\ ~(j <= p[1])
        BY <1>6, <1>7, <1>9, <2>8
      <4>2. QED
        BY <3>1, <4>1
    <3>3. n - 1 \in 1 .. c /\ (n - 1) + 1 = n
      BY <1>4, <3>2
    <3>4. t[n - 1] = p[n]
      BY <2>1, <3>3
    <3>5. QED
      BY <3>1, <3>3, <3>4
  <2>9. IsQueue(padded, i, t)
    BY <2>1, <2>5, <2>6, <2>7, <2>8 DEF IsQueue
  <2>10. QED
    BY <2>2, <2>9
<1>10. CASE i # FrequencyFilter + p[1]
  <2>1. Queue(padded, i, q) = p
    BY <1>2, <1>7, <1>10
  <2>2. ASSUME NEW n \in 1 .. c + 1 PROVE i < p[n] + FrequencyFilter
    <3>1. p[n] \in 0 .. i /\ p[1] \in 0 .. i /\ i <= p[1] + FrequencyFilter
      BY <1>6, <1>7
    <3>2. n = 1 \/ p[1] < p[n]
      BY <1>8
    <3>3. \A x, y \in 0 .. i :
             (i <= x + FrequencyFilter /\ i # FrequencyFilter + x /\ (y = x \/ x < y))
                 => i < y + FrequencyFilter
      OBVIOUS
    <3>4. QED
      BY <1>10, <3>1, <3>2, <3>3
  <2>3. Len(p) = c + 1 /\ c + 1 \in Nat \ {0}
    BY <1>3, <1>4
  <2>a. \A n \in 1 .. c + 1 : p[n] \in 0 .. i /\ i < p[n] + FrequencyFilter
    BY <1>6, <2>2
  <2>b. IsQueue(padded, i, p)
    BY <1>3, <1>6, <2>a, <2>3 DEF IsQueue
  <2>4. QED
    BY <2>1, <2>b
<1>11. QED
  BY <1>9, <1>10

\* FrequencyFilter is 2 * radius + 1.
LEMMA FilterHasMiddle ==
    /\ FrequencyFilter \in Nat \ {0} /\ FrequencyFilter \div 2 \in Nat
    /\ FrequencyFilter = 2 * (FrequencyFilter \div 2) + 1
BY ExtractAssumption

\* The function of lemire_vertical_max_row's queue has queues for values.
LEMMA FifoHasQueues ==
    ASSUME NEW last \in Nat, NEW padded \in [0 .. last -> Nat],
           NEW fifo, fifo = CHOOSE t : t = [i \in 0 .. last |->
                                IF i = 0 THEN << 0 >> ELSE Queue(padded, i, t[i - 1])]
    PROVE  \A i \in 0 .. last : IsQueue(padded, i, fifo[i])
<1> DEFINE IsFifo(t) == t = [i \in 0 .. last |-> IF i = 0 THEN << 0 >> ELSE Queue(padded, i, t[i - 1])]
           V == [i \in 0 .. last |-> { q \in Seq(Nat) : IsQueue(padded, i, q) }]
           step == [i \in 1 .. last |-> [q \in Seq(Nat) |-> Queue(padded, i, q)]]
<1>1. FrequencyFilter \in Nat \ {0}
  BY FilterHasMiddle
<1>2. last \in Int /\ 0 \in Int /\ 0 \in 0 .. last
  OBVIOUS
<1>3. \A i \in 0 + 1 .. last : i \in 1 .. last /\ i \in 0 .. last /\ i # 0 /\ i - 1 \in 0 .. last
  OBVIOUS
<1>4. \A i \in 0 .. last : \A q : q \in V[i] <=> q \in Seq(Nat) /\ IsQueue(padded, i, q)
  OBVIOUS
<1>5. \A i \in 1 .. last : \A q \in Seq(Nat) : step[i][q] = Queue(padded, i, q)
  OBVIOUS
<1> HIDE DEF V, step
<1>6. << 0 >> \in V[0]
  <2>1. << 0 >> \in Seq(Nat) /\ Len(<< 0 >>) = 1 /\ << 0 >>[1] = 0
    OBVIOUS
  <2>2. IsQueue(padded, 0, << 0 >>)
    BY <1>1, <2>1 DEF IsQueue
  <2>3. QED
    BY <1>2, <1>4, <2>1, <2>2
<1>7. ASSUME NEW i \in 0 + 1 .. last, NEW q \in V[i - 1]
      PROVE  Queue(padded, i, q) \in V[i] /\ step[i][q] = Queue(padded, i, q)
  <2>1. i \in 1 .. last /\ i \in 0 .. last /\ i - 1 \in 0 .. last
    BY <1>3
  <2>2. q \in Seq(Nat) /\ IsQueue(padded, i - 1, q)
    BY <1>4, <2>1
  <2>3. IsQueue(padded, i, Queue(padded, i, q))
    BY <1>1, <2>1, <2>2, QueueStays
  <2>4. Queue(padded, i, q) \in Seq(Nat)
    BY <2>3 DEF IsQueue
  <2>5. QED
    BY <1>4, <1>5, <2>1, <2>2, <2>3, <2>4
<1>8. \A i \in 0 + 1 .. last : \A q \in V[i - 1] : step[i][q] \in V[i]
  BY <1>7
<1>9. PICK k : IsRecursion(k, 0, last, << 0 >>, step) /\ \A i \in 0 .. last : k[i] \in V[i]
  BY <1>2, <1>6, <1>8, RecursionExists, Zenon
<1>10. IsFifo(k)
  <2>1. ASSUME NEW i \in 0 .. last, i # 0
        PROVE  step[i][k[i - 1]] = Queue(padded, i, k[i - 1])
    <3>1. i \in 0 + 1 .. last
      BY <2>1
    <3>2. k[i - 1] \in V[i - 1]
      BY <1>3, <1>9, <3>1
    <3>3. QED
      BY <1>7, <3>1, <3>2
  <2>2. QED
    BY <1>9, <2>1 DEF IsRecursion
<1>11. IsFifo(fifo)
  <2>1. fifo = CHOOSE t : IsFifo(t)
    OBVIOUS
  <2> HIDE DEF IsFifo
  <2>2. QED
    BY <1>10, <2>1
<1>12. fifo[0] \in V[0]
  BY <1>2, <1>6, <1>11
<1>13. ASSUME NEW i \in 0 + 1 .. last, fifo[i - 1] \in V[i - 1]
       PROVE  fifo[i] \in V[i]
  <2>1. fifo[i] = Queue(padded, i, fifo[i - 1])
    BY <1>3, <1>11
  <2>2. QED
    BY <1>7, <1>13, <2>1
<1>14. \A i \in 0 .. last : fifo[i] \in V[i]
  BY <1>2, <1>12, <1>13, RecursionKeeps, Zenon
<1>15. QED
  BY <1>4, <1>14

\* The first place of a queue has the largest of the values in reach.
LEMMA HeadIsLargest ==
    ASSUME NEW last \in Nat, NEW padded \in [0 .. last -> Nat], NEW i \in 0 .. last,
           NEW q, IsQueue(padded, i, q), FrequencyFilter \in Nat \ {0}
    PROVE  /\ Head(q) \in 0 .. i /\ i < Head(q) + FrequencyFilter
           /\ \A j \in 0 .. i : i < j + FrequencyFilter => padded[Head(q)] >= padded[j]
<1>1. q \in Seq(Nat) /\ Len(q) \in Nat \ {0}
  BY DEF IsQueue
<1>2. Head(q) = q[1] /\ 1 \in 1 .. Len(q)
  BY <1>1
<1>3. q[1] \in 0 .. i /\ i < q[1] + FrequencyFilter
  BY <1>2 DEF IsQueue
<1>4. ASSUME NEW j \in 0 .. i, i < j + FrequencyFilter
      PROVE  padded[q[1]] >= padded[j]
  <2>1. PICK n \in 1 .. Len(q) : j <= q[n] /\ padded[q[n]] >= padded[j]
    BY <1>4 DEF IsQueue
  <2>2. n = 1 \/ padded[q[1]] >= padded[q[n]]
    <3>1. n = 1 \/ 1 < n
      BY <1>1
    <3>2. QED
      BY <1>2, <3>1 DEF IsQueue
  <2>3. q[n] \in 0 .. i
    BY DEF IsQueue
  <2>4. \A x \in 0 .. i : padded[x] \in Nat
    OBVIOUS
  <2>5. padded[q[1]] \in Nat /\ padded[q[n]] \in Nat /\ padded[j] \in Nat
    BY <1>3, <2>3, <2>4
  <2>6. QED
    BY <2>1, <2>2, <2>5
<1>5. QED
  BY <1>2, <1>3, <1>4

\* lemire_vertical_max_row finds, for every frequency, the largest magnitude of
\* those that are no further from it than the filter reaches.
LEMMA VerticalMaxIsMax ==
    ASSUME NEW row \in [Bands -> Nat]
    PROVE  /\ VerticalMax(row) \in [Bands -> Nat]
           /\ \A f \in Bands : VerticalMax(row)[f] =
                 Max({ row[g] : g \in { g \in Bands : Magnitude(g - f) <= FrequencyFilter \div 2 } })
<1> DEFINE r == FrequencyFilter \div 2
           last == BandCount + 2 * r - 1
           padded == Padded(row)
           fifo == CHOOSE t : t = [i \in 0 .. last |->
                       IF i = 0 THEN << 0 >> ELSE Queue(padded, i, t[i - 1])]
<1>1. /\ FrequencyFilter \in Nat \ {0} /\ r \in Nat /\ FrequencyFilter = 2 * r + 1
      /\ BandCount \in Nat \ {0}
  BY FilterHasMiddle, ExtractAssumption
<1>2. padded = [i \in 0 .. BandCount + 2 * r - 1 |->
            IF i < r THEN row[0]
            ELSE IF i < r + BandCount THEN row[i - r] ELSE 0]
  BY DEF Padded
<1>3. VerticalMax(row) = [f \in Bands |-> padded[Head(fifo[f + FrequencyFilter - 1])]]
  <2>1. BandCount + FrequencyFilter - 2 = last
    BY <1>1
  <2> DEFINE FifoTo(n) == CHOOSE t : t = [i \in 0 .. n |->
                              IF i = 0 THEN << 0 >> ELSE Queue(padded, i, t[i - 1])]
             n == BandCount + FrequencyFilter - 2
  <2>2. VerticalMax(row) = [f \in Bands |-> padded[Head(FifoTo(n)[f + FrequencyFilter - 1])]]
    BY DEF VerticalMax
  <2>3. fifo = FifoTo(last)
    OBVIOUS
  <2> HIDE DEF FifoTo, fifo, n
  <2>4. QED
    BY <2>1, <2>2, <2>3 DEF n
<1> HIDE DEF r, padded
<1>4. /\ last \in Nat
      /\ \A i \in 0 .. last : i >= r /\ i < r + BandCount => i - r \in Bands
      /\ 0 \in Bands
  BY <1>1 DEF Bands
<1>5. padded \in [0 .. last -> Nat]
  <2>1. \A g \in Bands : row[g] \in Nat
    OBVIOUS
  <2>2. ASSUME NEW i \in 0 .. last
        PROVE  (IF i < r THEN row[0] ELSE IF i < r + BandCount THEN row[i - r] ELSE 0) \in Nat
    BY <1>1, <1>4, <2>1
  <2>3. QED
    BY <1>2, <2>2
<1> HIDE DEF last
<1>6. \A i \in 0 .. last : IsQueue(padded, i, fifo[i])
  BY <1>4, <1>5, FifoHasQueues
<1> HIDE DEF fifo
<1>7. ASSUME NEW f \in Bands
      PROVE  LET near == { g \in Bands : Magnitude(g - f) <= r }
                 T == { row[g] : g \in near }
                 value == padded[Head(fifo[f + FrequencyFilter - 1])]
             IN  value = Max(T) /\ value \in Nat
  <2> DEFINE near == { g \in Bands : Magnitude(g - f) <= r }
             T == { row[g] : g \in near }
             i == f + FrequencyFilter - 1
             h == Head(fifo[i])
  <2>1. i \in 0 .. last /\ f \in 0 .. BandCount - 1 /\ i = f + 2 * r
    BY <1>1 DEF Bands, last
  <2> HIDE DEF i
  <2>2. IsQueue(padded, i, fifo[i])
    BY <1>6, <2>1
  <2>3. /\ h \in 0 .. i /\ i < h + FrequencyFilter
        /\ \A j \in 0 .. i : i < j + FrequencyFilter => padded[h] >= padded[j]
    BY <1>1, <1>4, <1>5, <2>1, <2>2, HeadIsLargest
  <2> HIDE DEF h
  <2>4. \A j \in 0 .. last : padded[j] = IF j < r THEN row[0]
                                        ELSE IF j < r + BandCount THEN row[j - r] ELSE 0
    BY <1>2 DEF last
  <2>5. h \in 0 .. last /\ h >= f /\ h <= f + 2 * r
    BY <1>1, <1>4, <2>1, <2>3
  <2>6. \A g \in Bands : g \in near <=> f <= g + r /\ g <= f + r
    BY <1>1 DEF Bands, Magnitude
  <2>7. ASSUME NEW g \in near
        PROVE  row[g] <= padded[h]
    <3>1. g \in Bands /\ f <= g + r /\ g <= f + r
      BY <2>6
    <3>2. g + r \in 0 .. i /\ i < (g + r) + FrequencyFilter /\ g + r \in 0 .. last
      BY <1>1, <1>4, <2>1, <3>1 DEF Bands
    <3>3. padded[g + r] = row[g]
      <4>1. ~(g + r < r) /\ g + r < r + BandCount /\ (g + r) - r = g
        BY <1>1, <3>1 DEF Bands
      <4>2. QED
        BY <2>4, <3>2, <4>1
    <3>4. padded[h] >= padded[g + r] /\ padded[h] \in Nat /\ padded[g + r] \in Nat
      BY <1>5, <2>3, <2>5, <3>2
    <3>5. QED
      BY <3>3, <3>4
  <2>8. padded[h] \in T
    <3>1. CASE h < r
      <4>1. padded[h] = row[0]
        BY <2>4, <2>5, <3>1
      <4>2. 0 \in near
        BY <1>1, <1>4, <2>1, <2>5, <2>6, <3>1
      <4>3. QED
        BY <4>1, <4>2
    <3>2. CASE h >= r /\ h < r + BandCount
      <4>1. padded[h] = row[h - r]
        BY <1>1, <2>4, <2>5, <3>2
      <4>2. h - r \in near
        <5>1. h - r \in Bands
          BY <1>4, <2>5, <3>2
        <5>2. f <= (h - r) + r /\ h - r <= f + r
          BY <1>1, <2>1, <2>5
        <5>3. QED
          BY <2>6, <5>1, <5>2
      <4>3. QED
        BY <4>1, <4>2
    <3>3. CASE h >= r + BandCount
      <4>1. padded[h] = 0
        BY <1>1, <2>4, <2>5, <3>3
      <4>2. f \in near
        BY <1>1, <2>1, <2>6
      <4>3. row[f] <= 0 /\ row[f] \in Nat
        BY <2>7, <4>1, <4>2
      <4>4. row[f] = 0
        BY <4>3
      <4>5. QED
        BY <4>1, <4>2, <4>4
    <3>4. QED
      BY <1>1, <2>5, <3>1, <3>2, <3>3
  <2>9. padded[h] = Max(T)
    <3>1. \A x \in T : padded[h] >= x
      BY <2>7, <1>5, <2>5
    <3>2. T \in SUBSET Nat
      OBVIOUS
    <3> HIDE DEF T
    <3> DEFINE top == CHOOSE x \in T : \A y \in T : x >= y
    <3>3. top \in T /\ \A y \in T : top >= y
      BY <2>8, <3>1
    <3>4. Max(T) = top
      BY DEF Max
    <3> HIDE DEF top
    <3>5. top >= padded[h] /\ padded[h] >= top /\ top \in Nat /\ padded[h] \in Nat
      BY <2>8, <3>1, <3>2, <3>3
    <3>6. QED
      BY <3>4, <3>5
  <2>10. padded[h] \in Nat
    BY <1>5, <2>5
  <2>11. QED
    BY <2>9, <2>10 DEF i, h
<1>8. QED
  BY <1>3, <1>7 DEF r

-----------------------------------------------------------------------------
(* The rows of a chunk.                                                    *)

LEMMA Division ==
    ASSUME NEW a \in Nat, NEW d \in Nat \ {0}
    PROVE  a \div d \in Nat /\ d * (a \div d) <= a /\ a < d * (a \div d) + d
OBVIOUS

\* The quotient is the only number of which that is so.
LEMMA QuotientIsLargest ==
    ASSUME NEW a \in Int, NEW d \in Nat \ {0}, NEW p \in Int, NEW q \in Int,
           d * p <= a, a < d * q + d
    PROVE  p <= q
<1> SUFFICES ASSUME p > q PROVE FALSE
  OBVIOUS
<1>1. p >= q + 1
  OBVIOUS
<1>2. d * p >= d * (q + 1)
  BY <1>1
<1>3. d * (q + 1) = d * q + d
  OBVIOUS
<1>4. QED
  BY <1>2, <1>3

\* Where a chunk may start: at a whole number of frames, within the samples.
IsStart(start) == start \in Nat /\ start = Hop * (start \div Hop)

LEMMA StartsGoOn ==
    ASSUME NEW start, IsStart(start)
    PROVE  IsStart(start + StreamCore) /\ (start + StreamCore) \div Hop = start \div Hop + StreamCore \div Hop
<1> DEFINE m == start \div Hop
           k == StreamCore \div Hop
           n == (start + StreamCore) \div Hop
<1>1. Hop \in Nat \ {0} /\ StreamCore \in Nat /\ StreamCore % Hop = 0
  BY ExtractAssumption
<1>2. start \in Nat /\ start = Hop * m /\ m \in Nat
  BY <1>1, Division DEF IsStart
<1>3. StreamCore = Hop * k /\ k \in Nat
  BY <1>1
<1>4. n \in Nat /\ Hop * n <= start + StreamCore /\ start + StreamCore < Hop * n + Hop
  BY <1>1, <1>2, Division
<1> HIDE DEF m, k, n
<1>5. start + StreamCore = Hop * (m + k)
  BY <1>1, <1>2, <1>3
<1>6. m + k <= n /\ n <= m + k
  <2>1. start + StreamCore < Hop * (m + k) + Hop
    BY <1>1, <1>2, <1>5
  <2>2. QED
    BY <1>1, <1>2, <1>3, <1>4, <1>5, <2>1, QuotientIsLargest
<1>7. n = m + k
  BY <1>2, <1>3, <1>4, <1>6
<1>8. start + StreamCore \in Nat
  BY <1>1, <1>2
<1>9. QED
  BY <1>5, <1>7, <1>8 DEF m, k, n, IsStart

LEMMA FramesAreNatural ==
    ASSUME NEW samples \in Nat
    PROVE  Frames(samples) \in Nat
<1> DEFINE blocks == (samples + AudioBlock - 1) \div AudioBlock
           padded == blocks * AudioBlock
           used == Saturated(padded, Support + 1)
           all == used \div Hop
           ring == (Support + 2 * AudioBlock) \div Hop
           frames == Saturated(all, ring)
<1>1. Hop \in Nat \ {0} /\ AudioBlock \in Nat \ {0} /\ Support \in Nat
  BY ExtractAssumption
<1>2. samples + AudioBlock - 1 \in Nat /\ Support + 2 * AudioBlock \in Nat
  BY <1>1
<1>3. blocks \in Nat /\ ring \in Nat
  BY <1>1, <1>2, Division
<1>4. Frames(samples) = 0 \/ Frames(samples) = frames
  BY DEF Frames
<1> HIDE DEF blocks, ring
<1>5. padded \in Nat
  BY <1>1, <1>3
<1> HIDE DEF padded
<1>6. used \in Nat
  BY <1>1, <1>5 DEF Saturated
<1> HIDE DEF used
<1>7. all \in Nat
  BY <1>1, <1>6, Division
<1> HIDE DEF all
<1>8. frames \in Nat
  BY <1>3, <1>7 DEF Saturated
<1>9. QED
  BY <1>4, <1>8

\* The frames of the whole file end before those of the last chunk's core do.
LEMMA FramesEnd ==
    ASSUME NEW samples \in Nat, NEW start, IsStart(start), samples <= start + StreamCore
    PROVE  Frames(samples) = 0 \/ Frames(samples) + 1 <= start \div Hop + StreamCore \div Hop
<1> DEFINE padded == ((samples + AudioBlock - 1) \div AudioBlock) * AudioBlock
           ring == (Support + 2 * AudioBlock) \div Hop
           used == Saturated(padded, Support + 1)
           all == used \div Hop
           frames == Saturated(all, ring)
           end == start \div Hop + StreamCore \div Hop
<1>1. /\ Hop \in Nat \ {0} /\ AudioBlock \in Nat \ {0} /\ AudioBlock >= Hop
      /\ Support \in Nat /\ StreamCore \in Nat /\ TimeFilter \in Nat
  BY ExtractAssumption
<1>2. Frames(samples) = 0 \/ Frames(samples) = frames
  BY DEF Frames
<1>3. padded \in Nat /\ padded <= samples + AudioBlock - 1
  <2> DEFINE blocks == (samples + AudioBlock - 1) \div AudioBlock
  <2>1. samples + AudioBlock - 1 \in Nat
    BY <1>1
  <2>2. blocks \in Nat /\ AudioBlock * blocks <= samples + AudioBlock - 1
    BY <1>1, <2>1, Division
  <2> HIDE DEF blocks
  <2>3. padded = blocks * AudioBlock
    BY DEF blocks
  <2>4. blocks * AudioBlock = AudioBlock * blocks /\ AudioBlock * blocks \in Nat
    BY <1>1, <2>2
  <2>5. QED
    BY <2>2, <2>3, <2>4
<1> HIDE DEF padded
<1>4. used \in Nat /\ (used = 0 \/ used <= samples + AudioBlock - 2 - Support)
  BY <1>1, <1>3 DEF Saturated
<1> HIDE DEF used
<1>5. all \in Nat /\ Hop * all <= used
  BY <1>1, <1>4, Division
<1>6. ring \in Nat /\ Support + 2 * AudioBlock < Hop * ring + Hop
  <2>1. Support + 2 * AudioBlock \in Nat
    BY <1>1
  <2>2. QED
    BY <1>1, <2>1, Division
<1>7. end \in Nat /\ start + StreamCore = Hop * end
  <2>1. IsStart(start + StreamCore) /\ (start + StreamCore) \div Hop = end
    BY StartsGoOn
  <2>2. start + StreamCore \in Nat
    BY <2>1 DEF IsStart
  <2>3. QED
    BY <1>1, <2>1, <2>2, Division DEF IsStart
<1> HIDE DEF all, ring, end
<1>8. frames \in Nat /\ (frames = 0 \/ frames = all - ring)
  BY <1>5, <1>6 DEF Saturated
<1> HIDE DEF frames
<1>9. CASE frames # 0
  <2>1. frames = all - ring /\ all # 0
    BY <1>5, <1>6, <1>8, <1>9
  <2>2. used # 0
    <3>1. all >= 1
      BY <1>5, <2>1
    <3>2. Hop * all >= Hop * 1
      BY <1>1, <1>5, <3>1
    <3>3. QED
      BY <1>1, <1>4, <1>5, <3>2
  <2>3. Hop * all <= Hop * end + AudioBlock - 2 - Support
    <3>1. Hop * all \in Int /\ Hop * end \in Int
      BY <1>1, <1>5, <1>7
    <3>2. QED
      BY <1>1, <1>4, <1>5, <1>7, <2>2, <3>1
  <2>4. Hop * (all - ring) < Hop * end
    <3>1. Hop * (all - ring) = Hop * all - Hop * ring /\ Hop * ring \in Int /\ Hop * all \in Int /\ Hop * end \in Int
      BY <1>1, <1>5, <1>6, <1>7
    <3>2. QED
      BY <1>1, <1>6, <2>3, <3>1
  <2>5. frames < end
    <3>1. frames >= end => Hop * frames >= Hop * end
      BY <1>1, <1>7, <1>8
    <3>2. Hop * frames \in Int /\ Hop * end \in Int
      BY <1>1, <1>7, <1>8
    <3>3. QED
      BY <1>7, <1>8, <2>1, <2>4, <3>1, <3>2
  <2>6. QED
    BY <1>2, <1>7, <1>8, <2>5 DEF end
<1>10. CASE frames = 0
  BY <1>2, <1>10
<1>11. QED
  BY <1>9, <1>10

\* A chunk has no more rows than its core has frames.
LEMMA ChunksAreSmall ==
    ASSUME NEW start, IsStart(start), SampleCount \in Nat
    PROVE  /\ OutputStart(start) \in Nat /\ OutputStop(start) \in Int
           /\ Saturated(OutputStop(start), OutputStart(start)) \in 0 .. StreamCore \div Hop
<1> DEFINE m == start \div Hop
           k == StreamCore \div Hop
<1>1. /\ Hop \in Nat \ {0} /\ StreamCore \in Nat \ {0} /\ StreamCore % Hop = 0
  BY ExtractAssumption
<1>2. start \in Nat /\ start = Hop * m /\ m \in Nat
  BY <1>1, Division DEF IsStart
<1>3. k \in Nat \ {0} /\ StreamCore = Hop * k
  <2>1. k \in Nat /\ StreamCore = Hop * k
    BY <1>1
  <2>2. QED
    BY <1>1, <2>1
<1>4. (start + StreamCore) \div Hop = m + k
  BY StartsGoOn
<1>5. Frames(SampleCount) \in Nat
  BY FramesAreNatural
<1> HIDE DEF m, k
<1>6. OutputStart(start) = (IF start = 0 THEN 0 ELSE m - 1) /\ (start # 0 => m # 0)
  BY <1>1, <1>2 DEF OutputStart, m
<1> DEFINE first == OutputStart(start)
           stop == OutputStop(start)
           frames == Frames(SampleCount)
<1> HIDE DEF first, stop, frames
<1>7. first \in Nat /\ m <= first + 1
  <2>1. m >= 1 => Hop * m >= Hop * 1
    BY <1>1, <1>2
  <2>2. start = 0 => m = 0
    BY <1>1, <1>2, <2>1
  <2>3. QED
    BY <1>2, <1>6, <2>2 DEF first
<1>8. stop \in Int /\ stop <= first + k
  <2>1. CASE CoreStop(start) = SampleCount
    <3>1. SampleCount <= start + StreamCore
      BY <1>1, <1>2, <2>1 DEF CoreStop, Least
    <3>2. frames = 0 \/ frames + 1 <= m + k
      BY <3>1, FramesEnd DEF m, k, frames
    <3>3. stop = frames
      BY <2>1 DEF OutputStop, stop, frames
    <3>4. QED
      BY <1>2, <1>3, <1>5, <1>7, <3>2, <3>3 DEF frames
  <2>2. CASE CoreStop(start) # SampleCount
    <3>1. CoreStop(start) = start + StreamCore
      BY <2>2 DEF CoreStop, Least
    <3>2. CoreStop(start) \div Hop = m + k
      BY <1>4, <3>1
    <3>3. stop = Least(CoreStop(start) \div Hop - 1, frames)
      BY <2>2 DEF OutputStop, stop, frames
    <3>4. stop = (IF (m + k) - 1 <= frames THEN (m + k) - 1 ELSE frames)
      BY <3>2, <3>3, Zenon DEF Least
    <3>5. QED
      BY <1>2, <1>3, <1>5, <1>7, <3>4 DEF frames
  <2>3. QED
    BY <2>1, <2>2
<1>9. Saturated(stop, first) \in 0 .. k
  BY <1>3, <1>7, <1>8 DEF Saturated
<1>10. QED
  BY <1>7, <1>8, <1>9 DEF first, stop, k

\* A magnitude is a natural number, be it of a band with values in a frame or
\* of one without.
LEMMA RowsAreTyped ==
    ASSUME file \in Files, SampleCount = file.bytes \div 2,
           NEW input, input.start \in Nat, input.stop \in Nat, input.stop <= SampleCount,
           NEW frame
    PROVE  RowAt(input, frame) \in [Bands -> Nat]
<1> SUFFICES ASSUME NEW band \in Bands PROVE BandMagnitude(input, band, frame) \in Nat
  BY DEF RowAt
<1> DEFINE range == Greatest(1, input.start) .. input.stop - 1
           S == { s \in range : s % NativeStep[band] = 0 /\ s \div Hop = frame + 1 }
           value == [s \in S |-> Filtered(input, band, s)]
           T == {0} \cup { value[s] : s \in S }
<1>1. Greatest(1, input.start) \in Nat
  BY DEF Greatest
<1>2. \A s \in range : s \in 0 .. file.bytes \div 2 - 1
  <2>1. file.bytes \div 2 \in Nat
    BY FilesAssumption
  <2>2. QED
    BY <1>1, <2>1
<1>3. IsFiniteSet(S)
  <2>1. Greatest(1, input.start) \in Int /\ input.stop - 1 \in Int
    BY <1>1
  <2>2. IsFiniteSet(range)
    BY <2>1, FS_Interval
  <2>3. S \in SUBSET range
    OBVIOUS
  <2> HIDE DEF S, range
  <2>4. QED
    BY <2>2, <2>3, FS_Subset
<1>4. value \in [S -> Nat]
  <2>1. ASSUME NEW s \in S PROVE Filtered(input, band, s) \in Nat
    <3>1. s \in 0 .. file.bytes \div 2 - 1
      BY <1>2
    <3>2. file.level[band][s] \in Nat
      BY <3>1, LevelsAssumption DEF Bands
    <3>3. QED
      BY <3>2 DEF Filtered
  <2>2. QED
    BY <2>1
<1>5. BandMagnitude(input, band, frame) = Max(T)
  <2>1. { value[s] : s \in S } = { Filtered(input, band, s) : s \in S }
    OBVIOUS
  <2>2. BandMagnitude(input, band, frame) = Max({0} \cup { Filtered(input, band, s) : s \in S })
    BY DEF BandMagnitude
  <2> HIDE DEF S, value
  <2>3. QED
    BY <2>1, <2>2
<1> HIDE DEF S, value
<1>6. Max(T) \in Nat
  BY <1>3, <1>4, GreatestValue
<1>7. QED
  BY <1>5, <1>6

\* What ReadChunk reads.
LEMMA ChunksAreTyped ==
    ASSUME file \in Files, SampleCount = file.bytes \div 2, NEW start, IsStart(start)
    PROVE  ChunkRows(start) \in Seq([Bands -> Nat]) /\ Len(ChunkRows(start)) <= StreamCore \div Hop
<1> DEFINE n == Saturated(OutputStop(start), OutputStart(start))
           input == Input(start)
<1>1. SampleCount \in Nat /\ StreamCore \in Nat /\ Support \in Nat /\ start \in Nat /\ Hop \in Nat \ {0}
  BY FilesAssumption, ExtractAssumption DEF IsStart
<1>2. OutputStart(start) \in Nat /\ n \in 0 .. StreamCore \div Hop
  BY <1>1, ChunksAreSmall
<1>3. StreamCore \div Hop \in Nat
  BY <1>1, Division
<1>4. input.start \in Nat /\ input.stop \in Nat /\ input.stop <= SampleCount
  <2>1. CoreStop(start) \in Nat
    BY <1>1 DEF CoreStop, Least
  <2>2. Saturated(start, Support) \in Nat
    BY <1>1 DEF Saturated
  <2>3. Least(CoreStop(start) + Support, SampleCount) \in Nat
        /\ Least(CoreStop(start) + Support, SampleCount) <= SampleCount
    BY <1>1, <2>1 DEF Least
  <2>4. QED
    BY <2>2, <2>3 DEF Input
<1> DEFINE read == [i \in 1 .. n |-> RowAt(input, OutputStart(start) + i - 1)]
<1>5. ChunkRows(start) = read
  BY DEF ChunkRows
<1> HIDE DEF n, input
<1>6. \A i \in 1 .. n : RowAt(input, OutputStart(start) + i - 1) \in [Bands -> Nat]
  BY <1>4, RowsAreTyped
<1>7. n \in Nat /\ n <= StreamCore \div Hop
  BY <1>2, <1>3
<1>8. read \in Seq([Bands -> Nat]) /\ Len(read) = n
  <2> DEFINE Row == [Bands -> Nat]
  <2>1. \A i \in 1 .. n : RowAt(input, OutputStart(start) + i - 1) \in Row
    BY <1>6
  <2> HIDE DEF Row
  <2>2. read \in [1 .. n -> Row]
    BY <2>1
  <2> HIDE DEF read
  <2>3. read \in Seq(Row) /\ Len(read) = n
    BY <1>7, <2>2
  <2>4. QED
    BY <2>3 DEF Row
<1>9. QED
  BY <1>5, <1>7, <1>8

-----------------------------------------------------------------------------
(* Events and fingerprints.                                                *)

Rows == [Bands -> Nat]
Events == [t: Nat, f: 2 .. BandCount - 2, magnitude: Nat \ {0}]
PrintsTo(time) == [hash: Nat, t: 0 .. time, f: Bands]

\* An event is not at the edge of a row, and something is around it.
LEMMA EventsOfAreEvents ==
    ASSUME NEW window \in Seq(Rows), Len(window) = TimeFilter, NEW maxima, NEW time \in Nat
    PROVE  EventsOf(window, maxima, time) \in Seq({ event \in Events : event.t = time })
<1> DEFINE T == { event \in Events : event.t = time }
           s == [n \in 1 .. BandCount - 3 |-> EventAt(window, n + 1, time)]
           chosen == { n \in 1 .. BandCount - 3 : IsEvent(window, maxima, n + 1) }
<1>1. BandCount \in Nat /\ BandCount >= 3 /\ TimeFilter \in Nat /\ TimeFilter >= 3
  BY ExtractAssumption
<1>2. Len(s) = BandCount - 3 /\ BandCount - 3 \in Nat
  BY <1>1
<1>3. Center \in Nat /\ Center >= 1 /\ Center + 2 <= TimeFilter
  BY <1>1 DEF Center
<1>4. ASSUME NEW c \in Center .. Center + 2, NEW f \in 2 .. BandCount - 2
      PROVE  window[c][f - 1] \in Nat /\ window[c][f] \in Nat /\ window[c][f + 1] \in Nat
  <2>1. c \in 1 .. Len(window)
    BY <1>1, <1>3
  <2>2. window[c] \in Rows
    BY <2>1, ElementOfSeq
  <2>3. f - 1 \in Bands /\ f \in Bands /\ f + 1 \in Bands
    BY <1>1 DEF Bands
  <2>4. QED
    BY <2>2, <2>3 DEF Rows
<1>5. ASSUME NEW f \in 2 .. BandCount - 2, IsEvent(window, maxima, f)
      PROVE  EventAt(window, f, time) \in T
  <2>1. Center \in Center .. Center + 2 /\ Center + 1 \in Center .. Center + 2 /\ Center + 2 \in Center .. Center + 2
    BY <1>3
  <2>2. window[Center + 1][f] # 0
    BY <1>5 DEF IsEvent
  <2>a. window[Center][f - 1] \in Nat /\ window[Center][f] \in Nat /\ window[Center][f + 1] \in Nat
    BY <1>4, <2>1
  <2>b. /\ window[Center + 1][f - 1] \in Nat /\ window[Center + 1][f] \in Nat \ {0}
        /\ window[Center + 1][f + 1] \in Nat
    BY <1>4, <2>1, <2>2
  <2>c. window[Center + 2][f - 1] \in Nat /\ window[Center + 2][f] \in Nat /\ window[Center + 2][f + 1] \in Nat
    BY <1>4, <2>1
  <2> DEFINE Three(w) == w[f - 1] + w[f] + w[f + 1]
  <2>d. Three(window[Center]) \in Nat /\ Three(window[Center + 1]) \in Nat \ {0}
        /\ Three(window[Center + 2]) \in Nat
    <3>1. \A x, y, z \in Nat : x + y + z \in Nat /\ (y # 0 => x + y + z # 0)
      OBVIOUS
    <3>2. Three(window[Center]) \in Nat
      BY <2>a, <3>1
    <3>3. Three(window[Center + 1]) \in Nat \ {0}
      BY <2>b, <3>1
    <3>4. Three(window[Center + 2]) \in Nat
      BY <2>c, <3>1
    <3>5. QED
      BY <3>2, <3>3, <3>4
  <2>e. Around(window, f) = Three(window[Center]) + Three(window[Center + 1]) + Three(window[Center + 2])
    BY DEF Around
  <2> HIDE DEF Three
  <2>3. Around(window, f) \in Nat \ {0}
    BY <2>d, <2>e
  <2>4. QED
    BY <2>3 DEF EventAt, Events
<1>6. ASSUME NEW n \in 1 .. Len(s), n \in chosen PROVE s[n] \in T
  <2>1. n \in 1 .. BandCount - 3 /\ IsEvent(window, maxima, n + 1)
    BY <1>6
  <2>2. n + 1 \in 2 .. BandCount - 2
    BY <1>1, <2>1
  <2>3. EventAt(window, n + 1, time) \in T
    BY <1>5, <2>1, <2>2
  <2>4. QED
    BY <2>1, <2>3
<1>7. EventsOf(window, maxima, time) = ElementsAt(s, chosen)
  BY DEF EventsOf
<1> HIDE DEF s, chosen, T
<1>8. ElementsAt(s, chosen) \in Seq(T)
  BY <1>2, <1>6, ElementsAtAreElements
<1>9. QED
  BY <1>7, <1>8 DEF T

\* The parts of a landmark's hash are natural numbers: its events are in order.
LEMMA HashIsNatural ==
    ASSUME NEW first \in Events, NEW second \in Events, NEW third \in Events,
           IsNext(first, second), IsNext(second, third)
    PROVE  LandmarkHash(first, second, third) \in Nat
<1> DEFINE a == second.t - first.t
           b == third.t - first.t
           ratio == (a * 64) \div b
           df21 == Magnitude(second.f - first.f)
           df32 == Magnitude(third.f - second.f)
<1>1. a \in Nat /\ b \in Nat \ {0}
  BY ExtractAssumption DEF IsNext, Events
<1>2. ratio \in Nat
  <2> HIDE DEF a, b
  <2>1. a * 64 \in Nat
    BY <1>1
  <2>2. QED
    BY <1>1, <2>1, Division
<1>3. df21 \in Nat /\ df32 \in Nat /\ first.f \in Nat
  BY ExtractAssumption DEF Magnitude, Events
<1>4. LandmarkHash(first, second, third) =
          ratio
        + 64 * Bit(first.f > second.f)
        + 128 * Bit(second.f > third.f)
        + 256 * Bit(third.f > first.f)
        + 512 * Bit(first.magnitude > second.magnitude)
        + 1024 * Bit(second.magnitude > third.magnitude)
        + 2048 * Bit(third.magnitude > first.magnitude)
        + 4096 * Bit(second.t - first.t > third.t - second.t)
        + 8192 * Bit(df21 > df32)
        + 16384 * ((first.f \div 32) % 256)
        + 4194304 * ((df21 \div 4) % 64)
        + 268435456 * ((df32 \div 4) % 64)
  BY DEF LandmarkHash
<1> HIDE DEF ratio, df21, df32
<1>5. \A x \in Nat : /\ 16384 * ((x \div 32) % 256) \in Nat
                     /\ 4194304 * ((x \div 4) % 64) \in Nat
                     /\ 268435456 * ((x \div 4) % 64) \in Nat
  OBVIOUS
<1>6. \A condition \in BOOLEAN : Bit(condition) \in Nat
  BY DEF Bit
<1>7. QED
  BY <1>2, <1>3, <1>4, <1>5 DEF Bit

LEMMA NextsAreNext ==
    ASSUME NEW queue \in Seq(Events), NEW i \in 1 .. Len(queue)
    PROVE  Nexts(queue, i) \in Seq({ j \in 1 .. Len(queue) : IsNext(queue[i], queue[j]) })
<1> DEFINE T == { j \in 1 .. Len(queue) : IsNext(queue[i], queue[j]) }
           n == Len(queue) - i
           s == [k \in 1 .. n |-> i + k]
           chosen == { k \in 1 .. n : IsNext(queue[i], queue[i + k]) }
<1>1. n \in Nat /\ Len(s) = n
  OBVIOUS
<1>2. ASSUME NEW k \in 1 .. Len(s), k \in chosen PROVE s[k] \in T
  <2>1. k \in 1 .. n /\ s[k] = i + k /\ i + k \in 1 .. Len(queue) /\ IsNext(queue[i], queue[i + k])
    BY <1>2
  <2>2. QED
    BY <2>1
<1>3. Nexts(queue, i) = ElementsAt(s, chosen)
  BY DEF Nexts
<1> HIDE DEF s, chosen, T
<1>4. ElementsAt(s, chosen) \in Seq(T)
  BY <1>1, <1>2, ElementsAtAreElements
<1>5. QED
  BY <1>3, <1>4 DEF T

LEMMA LandmarksAreTyped ==
    ASSUME NEW queue \in Seq(Events), NEW i \in 1 .. Len(queue), NEW time \in Nat,
           queue[i].t <= time
    PROVE  Landmarks(queue, i) \in Seq(PrintsTo(time))
<1> DEFINE T == PrintsTo(time)
           Thirds(j) == LET thirds == Nexts(queue, j)
                        IN  [n \in DOMAIN thirds |-> Fingerprint(queue[i], queue[j], queue[thirds[n]])]
           seconds == Nexts(queue, i)
           m == Len(seconds)
           lists == [n \in 1 .. m |-> Thirds(seconds[n])]
<1>1. \A j \in 1 .. Len(queue) : queue[j] \in Events
  BY ElementOfSeq
<1>2. ASSUME NEW j \in 1 .. Len(queue), IsNext(queue[i], queue[j])
      PROVE  Thirds(j) \in Seq(T)
  <2> DEFINE thirds == Nexts(queue, j)
             n == Len(thirds)
             U == { k \in 1 .. Len(queue) : IsNext(queue[j], queue[k]) }
  <2>1. thirds \in Seq(U)
    BY NextsAreNext
  <2>2. n \in Nat /\ DOMAIN thirds = 1 .. n /\ \A k \in 1 .. n : thirds[k] \in U
    <3> HIDE DEF U, thirds
    <3>1. QED
      BY <2>1, LenProperties, ElementOfSeq
  <2>3. ASSUME NEW k \in 1 .. n
        PROVE  Fingerprint(queue[i], queue[j], queue[thirds[k]]) \in T
    <3>1. thirds[k] \in 1 .. Len(queue) /\ IsNext(queue[j], queue[thirds[k]])
      BY <2>2
    <3> HIDE DEF thirds
    <3>2. queue[i] \in Events /\ queue[j] \in Events /\ queue[thirds[k]] \in Events
      BY <1>1, <3>1
    <3>3. LandmarkHash(queue[i], queue[j], queue[thirds[k]]) \in Nat
      BY <1>2, <3>1, <3>2, HashIsNatural
    <3>4. queue[i].t \in 0 .. time /\ queue[i].f \in Bands
      <4>1. queue[i].t \in Nat /\ queue[i].f \in 2 .. BandCount - 2
        BY <3>2 DEF Events
      <4>2. QED
        BY <4>1, ExtractAssumption DEF Bands
    <3>5. QED
      BY <3>3, <3>4 DEF Fingerprint, PrintsTo
  <2> HIDE DEF n, T, thirds
  <2> DEFINE prints == [k \in 1 .. n |-> Fingerprint(queue[i], queue[j], queue[thirds[k]])]
  <2>4. Thirds(j) = prints
    BY <2>2 DEF thirds
  <2>5. prints \in Seq(T)
    <3>1. prints \in [1 .. n -> T]
      BY <2>3
    <3> HIDE DEF prints
    <3>2. QED
      BY <2>2, <3>1
  <2>6. QED
    BY <2>4, <2>5
<1> HIDE DEF Thirds, T
<1>3. m \in Nat /\ DOMAIN seconds = 1 .. m
      /\ \A n \in 1 .. m : seconds[n] \in 1 .. Len(queue) /\ IsNext(queue[i], queue[seconds[n]])
  <2> DEFINE U == { j \in 1 .. Len(queue) : IsNext(queue[i], queue[j]) }
  <2>1. seconds \in Seq(U)
    BY NextsAreNext
  <2> HIDE DEF seconds
  <2>2. m \in Nat /\ DOMAIN seconds = 1 .. m /\ \A n \in 1 .. m : seconds[n] \in U
    <3> HIDE DEF U
    <3>1. QED
      BY <2>1, LenProperties, ElementOfSeq
  <2>3. QED
    BY <2>2
<1>4. Landmarks(queue, i) = FlattenSeq(lists)
  BY <1>3 DEF Landmarks, Thirds
<1> HIDE DEF seconds, m
<1>5. lists \in Seq(Seq(T))
  <2>1. \A n \in 1 .. m : Thirds(seconds[n]) \in Seq(T)
    BY <1>2, <1>3
  <2> DEFINE L == Seq(T)
  <2>2. lists \in [1 .. m -> L]
    BY <2>1
  <2> HIDE DEF L, lists
  <2>3. lists \in Seq(L)
    BY <1>3, <2>2
  <2>4. QED
    BY <2>3 DEF L
<1> HIDE DEF lists
<1>6. FlattenSeq(lists) \in Seq(T)
  BY <1>5, FlattenedIsList
<1>7. QED
  BY <1>4, <1>6 DEF T

LEMMA PackedAreTyped ==
    ASSUME NEW queue \in Seq(Events), NEW n \in 0 .. Len(queue), NEW time \in Nat,
           \A i \in 1 .. n : queue[i].t <= time
    PROVE  PackFirst(queue, n) \in Seq(PrintsTo(time))
<1> DEFINE L == Seq(PrintsTo(time))
           lists == [i \in 1 .. n |-> Landmarks(queue, i)]
<1>1. \A i \in 1 .. n : Landmarks(queue, i) \in L
  BY LandmarksAreTyped
<1>2. n \in Nat
  OBVIOUS
<1> HIDE DEF L
<1>3. lists \in [1 .. n -> L]
  BY <1>1
<1>4. PackFirst(queue, n) = FlattenSeq(lists)
  BY DEF PackFirst
<1> HIDE DEF lists
<1>5. lists \in Seq(L)
  BY <1>2, <1>3
<1>6. FlattenSeq(lists) \in Seq(PrintsTo(time))
  BY <1>5, FlattenedIsList DEF L
<1>7. QED
  BY <1>4, <1>6

\* The first event that stays can still begin a landmark.
LEMMA DueIsDue ==
    ASSUME NEW queue, Len(queue) \in Nat, NEW time
    PROVE  /\ Due(queue, time) \in 0 .. Len(queue)
           /\ Due(queue, time) < Len(queue) => ~IsDue(queue[Due(queue, time) + 1], time)
<1> DEFINE size == Len(queue)
           S == { n \in 0 .. size : \A i \in 1 .. n : IsDue(queue[i], time) }
           due == Max(S)
<1>1. S \in SUBSET (0 .. size) /\ 0 \in S
  OBVIOUS
<1>2. S \in SUBSET Nat /\ IsFiniteSet(S)
  <2>1. 0 \in Int /\ size \in Int
    OBVIOUS
  <2>2. IsFiniteSet(0 .. size)
    BY <2>1, FS_Interval
  <2> HIDE DEF S
  <2>3. IsFiniteSet(S)
    BY <1>1, <2>2, FS_Subset
  <2>4. QED
    BY <1>1, <2>3
<1>3. due \in S /\ \A n \in S : n <= due
  <2> HIDE DEF S
  <2>1. QED
    BY <1>1, <1>2, GreatestElement
<1>4. Due(queue, time) = due
  BY DEF Due
<1> HIDE DEF due
<1>5. ASSUME due < size, IsDue(queue[due + 1], time) PROVE FALSE
  <2>1. due \in 0 .. size /\ \A i \in 1 .. due : IsDue(queue[i], time)
    BY <1>3
  <2>2. due + 1 \in 0 .. size
    BY <1>5, <2>1
  <2>3. \A i \in 1 .. due + 1 : i \in 1 .. due \/ i = due + 1
    BY <2>1
  <2>4. due + 1 \in S
    BY <1>5, <2>1, <2>2, <2>3
  <2>5. QED
    BY <1>3, <2>1, <2>4
<1>6. QED
  BY <1>1, <1>3, <1>4, <1>5

-----------------------------------------------------------------------------
(* The stream's invariant.                                                 *)

DecodeIsTyped ==
    /\ ffmpeg \in {"none", "running", "exited", "reaped"}
    /\ said \in Nat
    /\ stdout \in 0 .. PipeSize /\ stderr \in 0 .. PipeSize
    /\ reader \in {"spawn", "copy", "wait", "validate", "decoded", "refused", "failed"}

StreamIsTyped ==
    /\ phase \in {"decode", "chunk", "rows", "ok", "error"}
    /\ IsStart(core)
    /\ frame_count \in Nat
    /\ rows \in Seq(Rows) /\ magnitudes \in Seq(Rows) /\ vertical \in Seq(Rows)
    /\ events \in Seq(Events)
    /\ emitted \in Seq(PrintsTo(frame_count))

\* The windows hold the last frames, and less than a filter of them.
WindowsMatch ==
    /\ Len(magnitudes) = Len(vertical)
    /\ Len(magnitudes) < TimeFilter /\ Len(magnitudes) <= frame_count
    /\ \A i \in 1 .. Len(magnitudes) : vertical[i] = VerticalMax(magnitudes[i])
    /\ Len(rows) <= StreamCore \div Hop
    /\ phase = "rows" => rows # <<>>

IsOrdered(queue) == \A i, j \in 1 .. Len(queue) : i <= j => queue[i].t <= queue[j].t

\* Events are found in the order of their frames, none before the windows are
\* full, and one that can begin no further landmark has left.
EventsAreRecent ==
    /\ IsOrdered(events)
    /\ events # <<>> => Len(magnitudes) = TimeFilter - 1
    /\ \A i \in 1 .. Len(events) :
           /\ events[i].t + Center + 1 <= frame_count
           /\ events[i].t + 2 * MaxTime + Center + 1 >= frame_count

StreamInv == DecodeIsTyped /\ StreamIsTyped /\ WindowsMatch /\ EventsAreRecent

stream == <<phase, core, rows, magnitudes, vertical, frame_count, events, emitted>>

LEMMA InitStreamInv == Init => StreamInv
<1> SUFFICES ASSUME Init PROVE StreamInv
  OBVIOUS
<1>1. DecodeIsTyped
  BY PipeSizeAssumption DEF Init, DecodeInit, DecodeIsTyped
<1>2. Hop \in Nat \ {0} /\ StreamCore \in Nat /\ TimeFilter \in Nat /\ TimeFilter >= 3
  BY ExtractAssumption
<1>3. IsStart(0)
  BY <1>2 DEF IsStart
<1>4. \A T : <<>> \in Seq(T)
  BY EmptySeq
<1>5. StreamIsTyped
  BY <1>3, <1>4 DEF Init, StreamIsTyped
<1>6. StreamCore \div Hop \in Nat
  BY <1>2, Division
<1>7. WindowsMatch
  BY <1>2, <1>6 DEF Init, WindowsMatch
<1>8. EventsAreRecent
  BY DEF Init, EventsAreRecent, IsOrdered
<1>9. QED
  BY <1>1, <1>5, <1>7, <1>8 DEF StreamInv

LEMMA DecodeKeepsTypes ==
    ASSUME IInv, DecodeIsTyped, DecodeNext
    PROVE  DecodeIsTyped'
<1>1. CASE FfmpegWrites
  <2> DEFINE n == Least(file.bytes - written, PipeSize - stdout)
  <2>1. n > 0 /\ stdout' = stdout + n /\ UNCHANGED <<ffmpeg, said, stderr, reader>>
    BY <1>1 DEF FfmpegWrites
  <2>2. file.bytes \in Nat /\ written \in Nat /\ PipeSize \in Nat /\ stdout \in 0 .. PipeSize
    BY FilesAssumption, PipeSizeAssumption DEF IInv, BytesAreAccounted, DecodeIsTyped
  <2>3. n \in Int /\ n <= PipeSize - stdout
    BY <2>2 DEF Least
  <2> HIDE DEF n
  <2>4. stdout' \in 0 .. PipeSize
    BY <2>1, <2>2, <2>3
  <2>5. QED
    BY <2>1, <2>4 DEF DecodeIsTyped
<1>2. CASE FfmpegComplains
  <2> DEFINE n == Least(file.messages - said, PipeSize - stderr)
  <2>1. n > 0 /\ said' = said + n /\ stderr' = stderr + n /\ UNCHANGED <<ffmpeg, stdout, reader>>
    BY <1>2 DEF FfmpegComplains
  <2>2. file.messages \in Nat /\ said \in Nat /\ PipeSize \in Nat /\ stderr \in 0 .. PipeSize
    BY FilesAssumption, PipeSizeAssumption DEF IInv, BytesAreAccounted, DecodeIsTyped
  <2>3. n \in Int /\ n <= PipeSize - stderr
    BY <2>2 DEF Least
  <2> HIDE DEF n
  <2>4. stderr' \in 0 .. PipeSize /\ said' \in Nat
    BY <2>1, <2>2, <2>3
  <2>5. QED
    BY <2>1, <2>4 DEF DecodeIsTyped
<1>3. CASE FfmpegExits \/ FfmpegIsKilled
  BY <1>3 DEF FfmpegExits, FfmpegIsKilled, DecodeIsTyped
<1>4. CASE Spawn
  BY <1>4 DEF Spawn, DecodeIsTyped
<1>5. CASE CopyStdout \/ WaitWithOutput
  <2>1. 0 \in 0 .. PipeSize
    BY PipeSizeAssumption
  <2>2. QED
    BY <1>5, <2>1 DEF CopyStdout, WaitWithOutput, DecodeIsTyped
<1>6. CASE Validate \/ SpoolFails
  BY <1>6 DEF Validate, SpoolFails, DecodeIsTyped
<1>7. QED
  BY <1>1, <1>2, <1>3, <1>4, <1>5, <1>6 DEF DecodeNext, Ffmpeg, Reader

LEMMA SameDecodeTypes ==
    ASSUME DecodeIsTyped, UNCHANGED decode_vars
    PROVE  DecodeIsTyped'
BY DEF decode_vars, DecodeIsTyped

\* Steps that only change the phase leave the stream as it is.
LEMMA SameStream ==
    ASSUME StreamIsTyped, WindowsMatch, EventsAreRecent,
           UNCHANGED <<core, rows, magnitudes, vertical, frame_count, events, emitted>>,
           phase' \in {"decode", "chunk", "ok", "error"} \/ phase' = phase
    PROVE  StreamIsTyped' /\ WindowsMatch' /\ EventsAreRecent'
<1>1. StreamIsTyped'
  BY DEF StreamIsTyped
<1>2. WindowsMatch'
  BY DEF WindowsMatch
<1>3. EventsAreRecent'
  BY DEF EventsAreRecent, IsOrdered
<1>4. QED
  BY <1>1, <1>2, <1>3

\* The samples are those of the whole file once chunks are read.
LEMMA SamplesAreWhole ==
    ASSUME IInv, phase \in {"chunk", "rows"}
    PROVE  file \in Files /\ SampleCount = file.bytes \div 2
BY DEF IInv, BytesAreAccounted, StatusIsTrue, ReaderIsKnown, StreamIsDecoded, SampleCount

LEMMA ReadChunkKeepsStream ==
    ASSUME IInv, StreamIsTyped, WindowsMatch, EventsAreRecent, ReadChunk
    PROVE  StreamIsTyped' /\ WindowsMatch' /\ EventsAreRecent'
<1>1. /\ rows' = ChunkRows(core) /\ core' = core + StreamCore
      /\ phase' = (IF rows' = <<>> THEN "chunk" ELSE "rows")
      /\ UNCHANGED <<magnitudes, vertical, frame_count, events, emitted>>
      /\ phase = "chunk" /\ IsStart(core)
  BY DEF ReadChunk, stream_vars, StreamIsTyped
<1>2. ChunkRows(core) \in Seq(Rows) /\ Len(ChunkRows(core)) <= StreamCore \div Hop
  BY <1>1, SamplesAreWhole, ChunksAreTyped DEF Rows
<1>3. IsStart(core')
  BY <1>1, StartsGoOn
<1>4. StreamIsTyped'
  BY <1>1, <1>2, <1>3 DEF StreamIsTyped
<1>5. WindowsMatch'
  BY <1>1, <1>2 DEF WindowsMatch
<1>6. EventsAreRecent'
  BY <1>1 DEF EventsAreRecent, IsOrdered
<1>7. QED
  BY <1>4, <1>5, <1>6

\* What PushRow leaves of the queue, after the events of one more frame.
LEMMA QueueIsRecent ==
    ASSUME NEW old \in Seq(Events), NEW time \in Nat, IsOrdered(old),
           \A i \in 1 .. Len(old) : old[i].t <= time,
           NEW new \in Seq({ event \in Events : event.t = time })
    PROVE  LET queue == old \o new
               due == Due(queue, time)
               left == SubSeq(queue, due + 1, Len(queue))
           IN  /\ queue \in Seq(Events) /\ due \in 0 .. Len(queue)
               /\ \A i \in 1 .. Len(queue) : queue[i].t <= time
               /\ left \in Seq(Events) /\ IsOrdered(left)
               /\ \A i \in 1 .. Len(left) : left[i].t <= time /\ time <= left[i].t + 2 * MaxTime
<1> DEFINE queue == old \o new
           n == Len(old)
           m == Len(new)
           due == Due(queue, time)
           left == SubSeq(queue, due + 1, Len(queue))
           T == { event \in Events : event.t = time }
<1>1. n \in Nat /\ m \in Nat /\ T \subseteq Events
  OBVIOUS
<1>2. new \in Seq(Events) /\ \A i \in 1 .. m : new[i] \in T
  <2>1. new \in Seq(T)
    OBVIOUS
  <2> HIDE DEF T
  <2>2. new \in Seq(Events)
    BY <1>1, <2>1, SeqMonotonic
  <2>3. \A i \in 1 .. m : new[i] \in T
    BY <2>1, ElementOfSeq
  <2>4. QED
    BY <2>2, <2>3
<1>3. /\ queue \in Seq(Events) /\ Len(queue) = n + m
      /\ \A i \in 1 .. n + m : queue[i] = IF i <= n THEN old[i] ELSE new[i - n]
  BY <1>2, ConcatProperties
<1> HIDE DEF queue
<1>4. due \in 0 .. n + m /\ (due < n + m => ~IsDue(queue[due + 1], time))
  <2>1. Len(queue) \in Nat /\ Len(queue) = n + m
    BY <1>1, <1>3
  <2>2. due \in 0 .. Len(queue) /\ (due < Len(queue) => ~IsDue(queue[due + 1], time))
    BY ONLY <2>1, DueIsDue
  <2> HIDE DEF due, n, m
  <2>3. QED
    BY ONLY <2>1, <2>2
<1>5. ASSUME NEW i \in 1 .. n + m
      PROVE  /\ queue[i] \in Events /\ queue[i].t \in Nat /\ queue[i].t <= time
             /\ i > n => queue[i].t = time
  <2>1. queue[i] \in Events /\ queue[i].t \in Nat
    <3>1. queue[i] \in Events
      BY <1>3, ElementOfSeq
    <3>2. QED
      BY <3>1 DEF Events
  <2>2. CASE i <= n
    BY <1>1, <1>3, <2>1, <2>2
  <2>3. CASE i > n
    <3>1. queue[i] = new[i - n] /\ i - n \in 1 .. m
      BY <1>1, <1>3, <2>3
    <3>2. queue[i].t = time
      BY <1>2, <3>1
    <3>3. QED
      BY <2>1, <3>2
  <2>4. QED
    BY <1>1, <2>2, <2>3
<1>6. ASSUME NEW i \in 1 .. n + m, NEW j \in 1 .. n + m, i <= j
      PROVE  queue[i].t <= queue[j].t
  <2>1. CASE j <= n
    <3>1. i \in 1 .. n /\ j \in 1 .. n /\ queue[i] = old[i] /\ queue[j] = old[j]
      BY <1>1, <1>3, <1>6, <2>1
    <3>2. QED
      BY <1>6, <3>1 DEF IsOrdered
  <2>2. CASE j > n
    BY <1>5, <2>2
  <2>3. QED
    BY <1>1, <2>1, <2>2
<1> HIDE DEF due
<1>7. /\ left \in Seq(Events) /\ Len(left) = n + m - due
      /\ \A i \in 1 .. n + m - due : left[i] = queue[due + i]
  <2>1. due + 1 \in Int /\ n + m \in Int /\ \A i \in due + 1 .. n + m : queue[i] \in Events
    BY <1>1, <1>4, <1>5
  <2> DEFINE a == due + 1
             b == n + m
  <2>a. left = SubSeq(queue, a, b)
    BY <1>3
  <2>0. n \in Nat /\ m \in Nat /\ due \in 0 .. n + m
    BY <1>1, <1>4
  <2>b. a \in Int /\ b \in Int /\ (a <= b \/ a = b + 1)
    BY ONLY <2>0
  <2>c. b - a + 1 = n + m - due /\ (a = b + 1 => n + m - due = 0)
    BY ONLY <2>0
  <2> HIDE DEF left
  <2>d. /\ left \in Seq(Events)
        /\ Len(left) = IF a <= b THEN b - a + 1 ELSE 0
        /\ \A i \in 1 .. b - a + 1 : left[i] = queue[a + i - 1]
    <3> HIDE DEF a, b
    <3>1. \A i \in a .. b : queue[i] \in Events
      BY <2>1 DEF a, b
    <3>2. QED
      BY <2>a, <2>b, <3>1, SubSeqProperties
  <2>3. Len(left) = n + m - due
    <3>1. Len(left) = IF a <= b THEN n + m - due ELSE 0
      BY <2>c, <2>d
    <3> HIDE DEF a, b
    <3>2. QED
      BY <2>b, <2>c, <3>1
  <2>2. left \in Seq(Events) /\ \A i \in 1 .. n + m - due : left[i] = queue[due + 1 + i - 1]
    BY <2>c, <2>d
  <2>4. ASSUME NEW i \in 1 .. n + m - due PROVE left[i] = queue[due + i]
    <3>1. due + 1 + i - 1 = due + i
      BY <1>1, <1>4
    <3>2. QED
      BY <2>2, <3>1
  <2>5. QED
    BY <2>2, <2>3, <2>4
<1> HIDE DEF left
<1>8. \A i \in 1 .. n + m - due : due + i \in 1 .. n + m /\ due + 1 \in 1 .. n + m
                                  /\ due + 1 <= due + i /\ due < n + m
  BY <1>1, <1>4
<1>9. IsOrdered(left)
  <2>1. ASSUME NEW i \in 1 .. Len(left), NEW j \in 1 .. Len(left), i <= j
        PROVE  left[i].t <= left[j].t
    <3>1. due + i <= due + j
      BY <1>1, <1>4, <1>7, <2>1
    <3>2. QED
      BY <1>6, <1>7, <1>8, <3>1
  <2>2. QED
    BY <2>1 DEF IsOrdered
<1>10. ASSUME NEW i \in 1 .. Len(left)
       PROVE  left[i].t <= time /\ time <= left[i].t + 2 * MaxTime
  <2>1. left[i] = queue[due + i] /\ left[i].t \in Nat /\ left[i].t <= time
    BY <1>5, <1>7, <1>8
  <2>2. queue[due + 1].t <= left[i].t /\ queue[due + 1].t \in Nat
    BY <1>5, <1>6, <1>7, <1>8
  <2>3. ~(time > queue[due + 1].t + 2 * MaxTime)
    BY <1>4, <1>7, <1>8 DEF IsDue
  <2>4. MaxTime \in Nat
    BY ExtractAssumption
  <2>5. QED
    BY <2>1, <2>2, <2>3, <2>4
<1>11. \A i \in 1 .. Len(queue) : queue[i].t <= time
  BY <1>3, <1>5
<1>12. due \in 0 .. Len(queue)
  BY <1>3, <1>4
<1>13. QED
  BY <1>3, <1>7, <1>9, <1>10, <1>11, <1>12 DEF left, due, queue

\* A window that gets a row keeps to its type and to its maxima.
LEMMA WindowGrows ==
    ASSUME StreamIsTyped, WindowsMatch, phase = "rows"
    PROVE  LET window == Append(magnitudes, Head(rows))
               maxima == Append(vertical, VerticalMax(Head(rows)))
           IN  /\ window \in Seq(Rows) /\ maxima \in Seq(Rows)
               /\ Len(window) = Len(magnitudes) + 1 /\ Len(maxima) = Len(magnitudes) + 1
               /\ \A i \in 1 .. Len(magnitudes) + 1 : maxima[i] = VerticalMax(window[i])
               /\ Tail(rows) \in Seq(Rows) /\ Len(Tail(rows)) <= StreamCore \div Hop
<1> DEFINE n == Len(magnitudes)
           row == Head(rows)
           window == Append(magnitudes, row)
           maxima == Append(vertical, VerticalMax(row))
<1>1. /\ rows \in Seq(Rows) /\ rows # <<>> /\ magnitudes \in Seq(Rows) /\ vertical \in Seq(Rows)
      /\ n \in Nat /\ Len(vertical) = n /\ Len(rows) <= StreamCore \div Hop
      /\ \A i \in 1 .. n : vertical[i] = VerticalMax(magnitudes[i])
  BY DEF StreamIsTyped, WindowsMatch
<1>2. StreamCore \div Hop \in Nat
  BY ExtractAssumption, Division
<1>3. row \in Rows /\ Tail(rows) \in Seq(Rows) /\ Len(Tail(rows)) <= StreamCore \div Hop
  <2>1. row \in Rows /\ Tail(rows) \in Seq(Rows) /\ Len(Tail(rows)) = Len(rows) - 1
    BY <1>1, HeadTailProperties
  <2>2. Len(rows) \in Nat
    BY <1>1
  <2>3. QED
    BY <1>1, <1>2, <2>1, <2>2
<1> HIDE DEF row
<1>4. VerticalMax(row) \in Rows
  BY <1>3, VerticalMaxIsMax DEF Rows
<1>5. /\ window \in Seq(Rows) /\ Len(window) = n + 1 /\ window[n + 1] = row
      /\ \A i \in 1 .. n : window[i] = magnitudes[i]
  BY <1>1, <1>3, Pushed
<1>6. /\ maxima \in Seq(Rows) /\ Len(maxima) = n + 1 /\ maxima[n + 1] = VerticalMax(row)
      /\ \A i \in 1 .. n : maxima[i] = vertical[i]
  BY <1>1, <1>4, Pushed
<1> HIDE DEF window, maxima
<1>7. ASSUME NEW i \in 1 .. n + 1 PROVE maxima[i] = VerticalMax(window[i])
  <2>1. i = n + 1 \/ i \in 1 .. n
    BY <1>1
  <2>2. QED
    BY <1>1, <1>5, <1>6, <2>1
<1>8. QED
  BY <1>3, <1>5, <1>6, <1>7 DEF window, maxima, row

LEMMA PushRowKeepsStream ==
    ASSUME StreamIsTyped, WindowsMatch, EventsAreRecent, PushRow
    PROVE  StreamIsTyped' /\ WindowsMatch' /\ EventsAreRecent'
<1> DEFINE window == Append(magnitudes, Head(rows))
           maxima == Append(vertical, VerticalMax(Head(rows)))
           time == frame_count - Center
           new == EventsOf(window, maxima, time)
           queue == events \o new
           due == Due(queue, time)
           n == Len(magnitudes)
<1>1. /\ phase = "rows"
      /\ IF Len(window) < TimeFilter
         THEN magnitudes' = window /\ vertical' = maxima /\ events' = events /\ emitted' = emitted
         ELSE /\ magnitudes' = Tail(window)
              /\ vertical' = Tail(maxima)
              /\ events' = SubSeq(queue, due + 1, Len(queue))
              /\ emitted' = emitted \o PackFirst(queue, due)
      /\ frame_count' = frame_count + 1
      /\ rows' = Tail(rows)
      /\ phase' = IF rows' = <<>> THEN "chunk" ELSE "rows"
      /\ core' = core
  BY DEF PushRow
<1>2. /\ window \in Seq(Rows) /\ maxima \in Seq(Rows)
      /\ Len(window) = n + 1 /\ Len(maxima) = n + 1
      /\ \A i \in 1 .. n + 1 : maxima[i] = VerticalMax(window[i])
      /\ Tail(rows) \in Seq(Rows) /\ Len(Tail(rows)) <= StreamCore \div Hop
  BY <1>1, WindowGrows
<1>3. /\ n \in Nat /\ n < TimeFilter /\ n <= frame_count /\ frame_count \in Nat
      /\ TimeFilter \in Nat /\ TimeFilter >= 3 /\ Center \in Nat /\ Center + 1 < TimeFilter
      /\ MaxTime \in Nat
  <2>1. n \in Nat
    BY DEF StreamIsTyped
  <2>2. Center \in Nat /\ Center + 1 < TimeFilter
    BY ExtractAssumption DEF Center
  <2>3. QED
    BY <2>1, <2>2, ExtractAssumption DEF StreamIsTyped, WindowsMatch
<1>4. emitted \in Seq(PrintsTo(frame_count + 1))
  <2>1. PrintsTo(frame_count) \subseteq PrintsTo(frame_count + 1)
    BY <1>3 DEF PrintsTo
  <2>2. emitted \in Seq(PrintsTo(frame_count))
    BY DEF StreamIsTyped
  <2>3. QED
    BY <2>1, <2>2, SeqMonotonic
<1> HIDE DEF window, maxima
<1>5. CASE n + 1 < TimeFilter
  <2>1. magnitudes' = window /\ vertical' = maxima /\ events' = events /\ emitted' = emitted
    BY <1>1, <1>2, <1>5
  <2>2. events = <<>>
    BY <1>3, <1>5 DEF EventsAreRecent
  <2>3. StreamIsTyped'
    BY <1>1, <1>2, <1>3, <1>4, <2>1 DEF StreamIsTyped
  <2>4. WindowsMatch'
    BY <1>1, <1>2, <1>3, <1>5, <2>1 DEF WindowsMatch
  <2>5. EventsAreRecent'
    BY <2>1, <2>2 DEF EventsAreRecent, IsOrdered
  <2>6. QED
    BY <2>3, <2>4, <2>5
<1>6. CASE n + 1 = TimeFilter
  <2>1. /\ magnitudes' = Tail(window) /\ vertical' = Tail(maxima)
        /\ events' = SubSeq(queue, due + 1, Len(queue))
        /\ emitted' = emitted \o PackFirst(queue, due)
    <3>1. ~(Len(window) < TimeFilter)
      BY <1>2, <1>3, <1>6
    <3>2. QED
      BY <1>1, <3>1
  <2>2. time \in Nat /\ time + Center = frame_count
    BY <1>3, <1>6
  <2>3. events \in Seq(Events) /\ IsOrdered(events) /\ \A i \in 1 .. Len(events) : events[i].t <= time
    <3>1. ASSUME NEW i \in 1 .. Len(events) PROVE events[i].t <= time
      <4>1. events[i].t \in Nat
        <5>1. events[i] \in Events
          BY ElementOfSeq DEF StreamIsTyped
        <5>2. QED
          BY <5>1 DEF Events
      <4>2. events[i].t + Center + 1 <= frame_count
        BY DEF EventsAreRecent
      <4>3. QED
        BY <1>3, <2>2, <4>1, <4>2
    <3>2. QED
      BY <3>1 DEF StreamIsTyped, EventsAreRecent
  <2>4. new \in Seq({ event \in Events : event.t = time })
    BY <1>2, <1>6, <2>2, EventsOfAreEvents
  <2> HIDE DEF time, new
  <2>5. /\ queue \in Seq(Events) /\ due \in 0 .. Len(queue)
        /\ \A i \in 1 .. Len(queue) : queue[i].t <= time
        /\ events' \in Seq(Events) /\ IsOrdered(events')
        /\ \A i \in 1 .. Len(events') : events'[i].t <= time /\ time <= events'[i].t + 2 * MaxTime
    BY <2>1, <2>2, <2>3, <2>4, QueueIsRecent
  <2> HIDE DEF queue, due
  <2>6. emitted' \in Seq(PrintsTo(frame_count + 1))
    <3>1. \A i \in 1 .. due : queue[i].t <= frame_count + 1
      <4>1. ASSUME NEW i \in 1 .. due PROVE queue[i].t <= frame_count + 1
        <5>1. Len(queue) \in Nat /\ i \in 1 .. Len(queue)
          BY <2>5
        <5>2. queue[i] \in Events /\ queue[i].t <= time
          BY <2>5, <5>1, ElementOfSeq
        <5>3. queue[i].t \in Nat
          BY <5>2 DEF Events
        <5>4. QED
          BY <1>3, <2>2, <5>2, <5>3
      <4>2. QED
        BY <4>1
    <3>2. frame_count + 1 \in Nat
      BY <1>3
    <3>3. PackFirst(queue, due) \in Seq(PrintsTo(frame_count + 1))
      BY <2>5, <3>1, <3>2, PackedAreTyped
    <3>4. QED
      BY <1>4, <2>1, <3>3, ConcatProperties
  <2>7. /\ Tail(window) \in Seq(Rows) /\ Len(Tail(window)) = n
        /\ \A i \in 1 .. n : Tail(window)[i] = window[i + 1]
    <3>1. window # <<>>
      BY <1>2, <1>3
    <3>2. Len(Tail(window)) = n + 1 - 1
      BY <1>2, <3>1, HeadTailProperties
    <3>3. n + 1 - 1 = n
      BY <1>3
    <3>4. QED
      BY <1>2, <3>1, <3>2, <3>3, HeadTailProperties
  <2>8. /\ Tail(maxima) \in Seq(Rows) /\ Len(Tail(maxima)) = n
        /\ \A i \in 1 .. n : Tail(maxima)[i] = maxima[i + 1]
    <3>1. maxima # <<>>
      BY <1>2, <1>3
    <3>2. Len(Tail(maxima)) = n + 1 - 1
      BY <1>2, <3>1, HeadTailProperties
    <3>3. n + 1 - 1 = n
      BY <1>3
    <3>4. QED
      BY <1>2, <3>1, <3>2, <3>3, HeadTailProperties
  <2>9. StreamIsTyped'
    BY <1>1, <1>2, <1>3, <2>1, <2>5, <2>6, <2>7, <2>8, SMTT(30) DEF StreamIsTyped
  <2>10. \A i \in 1 .. n : Tail(maxima)[i] = VerticalMax(Tail(window)[i])
    <3>1. \A i \in 1 .. n : i + 1 \in 1 .. n + 1
      BY <1>3
    <3>2. QED
      BY <1>2, <2>7, <2>8, <3>1
  <2>11. WindowsMatch'
    BY <1>1, <1>2, <1>3, <2>1, <2>7, <2>8, <2>10, SMTT(30) DEF WindowsMatch
  <2>12. EventsAreRecent'
    <3>1. Len(magnitudes') = TimeFilter - 1
      BY <1>3, <1>6, <2>1, <2>7
    <3>2. ASSUME NEW i \in 1 .. Len(events')
          PROVE  /\ events'[i].t + Center + 1 <= frame_count'
                 /\ events'[i].t + 2 * MaxTime + Center + 1 >= frame_count'
      <4>1. events'[i] \in Events /\ events'[i].t <= time /\ time <= events'[i].t + 2 * MaxTime
        BY <2>5, ElementOfSeq
      <4>2. events'[i].t \in Nat
        BY <4>1 DEF Events
      <4>3. QED
        BY <1>1, <1>3, <2>2, <4>1, <4>2, SMTT(30)
    <3>3. QED
      BY <2>5, <3>1, <3>2 DEF EventsAreRecent, IsOrdered
  <2>13. QED
    BY <2>9, <2>11, <2>12
<1>7. QED
  BY <1>3, <1>5, <1>6

LEMMA FinishKeepsStream ==
    ASSUME StreamIsTyped, WindowsMatch, EventsAreRecent, Finish
    PROVE  StreamIsTyped' /\ WindowsMatch' /\ EventsAreRecent'
<1>1. /\ emitted' = emitted \o PackFirst(events, Len(events))
      /\ events' = <<>> /\ phase' = "ok"
      /\ UNCHANGED <<core, rows, magnitudes, vertical, frame_count>>
  BY DEF Finish
<1>2. events \in Seq(Events) /\ frame_count \in Nat /\ emitted \in Seq(PrintsTo(frame_count))
  BY DEF StreamIsTyped
<1>3. \A i \in 1 .. Len(events) : events[i].t <= frame_count
  <2>1. ASSUME NEW i \in 1 .. Len(events) PROVE events[i].t <= frame_count
    <3>1. events[i] \in Events
      BY <1>2, ElementOfSeq
    <3>2. events[i].t \in Nat
      BY <3>1 DEF Events
    <3>3. Center \in Nat /\ events[i].t + Center + 1 <= frame_count
      BY ExtractAssumption DEF EventsAreRecent, Center
    <3>4. QED
      BY <1>2, <3>2, <3>3
  <2>2. QED
    BY <2>1
<1>4. Len(events) \in 0 .. Len(events)
  BY <1>2
<1>5. PackFirst(events, Len(events)) \in Seq(PrintsTo(frame_count))
  BY <1>2, <1>3, <1>4, PackedAreTyped
<1>6. emitted' \in Seq(PrintsTo(frame_count))
  BY <1>1, <1>2, <1>5, ConcatProperties
<1>7. <<>> \in Seq(Events)
  BY EmptySeq
<1>8. StreamIsTyped'
  BY <1>1, <1>6, <1>7 DEF StreamIsTyped
<1>9. WindowsMatch'
  BY <1>1 DEF WindowsMatch
<1>10. EventsAreRecent'
  BY <1>1 DEF EventsAreRecent, IsOrdered
<1>11. QED
  BY <1>8, <1>9, <1>10

LEMMA NextKeepsStreamInv == IInv /\ StreamInv /\ [Next]_vars => StreamInv'
<1> SUFFICES ASSUME IInv, StreamInv, [Next]_vars PROVE StreamInv'
  OBVIOUS
<1> USE DEF StreamInv
<1>1. CASE DecodeStep
  <2>1. DecodeNext /\ UNCHANGED <<phase, core, rows, magnitudes, vertical, frame_count, events, emitted>>
    BY <1>1 DEF DecodeStep, stream_vars
  <2>2. QED
    BY <2>1, DecodeKeepsTypes, SameStream
<1>2. CASE ExtractChunks \/ GiveUp \/ ReadFails
  <2>1. /\ UNCHANGED decode_vars
        /\ UNCHANGED <<core, rows, magnitudes, vertical, frame_count, events, emitted>>
        /\ phase' \in {"decode", "chunk", "ok", "error"}
    BY <1>2 DEF ExtractChunks, GiveUp, ReadFails, stream_vars
  <2>2. QED
    BY <2>1, SameDecodeTypes, SameStream
<1>3. CASE ReadChunk
  <2>1. UNCHANGED decode_vars
    BY <1>3 DEF ReadChunk
  <2>2. QED
    BY <1>3, <2>1, SameDecodeTypes, ReadChunkKeepsStream
<1>4. CASE PushRow
  <2>1. UNCHANGED decode_vars
    BY <1>4 DEF PushRow
  <2>2. QED
    BY <1>4, <2>1, SameDecodeTypes, PushRowKeepsStream
<1>5. CASE Finish
  <2>1. UNCHANGED decode_vars
    BY <1>5 DEF Finish
  <2>2. QED
    BY <1>5, <2>1, SameDecodeTypes, FinishKeepsStream
<1>6. CASE UNCHANGED vars
  <2>1. UNCHANGED decode_vars /\ UNCHANGED <<phase, core, rows, magnitudes, vertical, frame_count, events, emitted>>
    BY <1>6 DEF vars, stream_vars
  <2>2. QED
    BY <2>1, SameDecodeTypes, SameStream
<1>7. QED
  BY <1>1, <1>2, <1>3, <1>4, <1>5, <1>6 DEF Next

\* The windows of EventStream and EventPacker match each other, and the events
\* that wait in them are in order and recent.
THEOREM StreamInvariant == Spec => [](IInv /\ StreamInv)
BY InitIInv, InitStreamInv, NextKeepsIInv, NextKeepsStreamInv, PTL DEF Spec

-----------------------------------------------------------------------------
\* Every variable keeps its type, whatever the file and the sizes.
THEOREM ExtractIsTyped == Spec => []TypeOK
<1>1. IInv /\ StreamInv => TypeOK
  <2> SUFFICES ASSUME IInv, StreamInv PROVE TypeOK
    OBVIOUS
  <2>1. /\ file \in Files /\ status \in BOOLEAN
        /\ written \in Nat /\ spool \in Nat
        /\ ffmpeg \in {"none", "running", "exited", "reaped"}
        /\ said \in Nat
        /\ stdout \in 0 .. PipeSize /\ stderr \in 0 .. PipeSize
        /\ reader \in {"spawn", "copy", "wait", "validate", "decoded", "refused", "failed"}
    BY DEF IInv, BytesAreAccounted, StatusIsTrue, StreamInv, DecodeIsTyped
  <2>2. /\ phase \in {"decode", "chunk", "rows", "ok", "error"}
        /\ core \in Nat /\ frame_count \in Nat
        /\ rows \in Seq([Bands -> Nat]) /\ magnitudes \in Seq([Bands -> Nat])
        /\ vertical \in Seq([Bands -> Nat])
        /\ events \in Seq(Events) /\ emitted \in Seq(PrintsTo(frame_count))
        /\ Len(vertical) = Len(magnitudes)
    BY DEF StreamInv, StreamIsTyped, WindowsMatch, IsStart, Rows
  <2>3. ASSUME NEW i \in DOMAIN events
        PROVE  IsEventRecord(events[i]) /\ events[i].f \in 2 .. BandCount - 2
    <3>1. i \in 1 .. Len(events)
      BY <2>2
    <3>2. events[i] \in Events
      BY <2>2, <3>1, ElementOfSeq
    <3>3. \A f \in 2 .. BandCount - 2 : f \in Bands
      BY ExtractAssumption DEF Bands
    <3>4. QED
      BY <3>2, <3>3 DEF Events, IsEventRecord
  <2>4. ASSUME NEW i \in DOMAIN emitted
        PROVE  emitted[i].hash \in Nat /\ emitted[i].t \in 0 .. frame_count
    <3>1. i \in 1 .. Len(emitted)
      BY <2>2
    <3>2. emitted[i] \in PrintsTo(frame_count)
      BY <2>2, <3>1, ElementOfSeq
    <3>3. QED
      BY <3>2 DEF PrintsTo
  <2>5. QED
    BY <2>1, <2>2, <2>3, <2>4 DEF TypeOK
<1>2. QED
  BY <1>1, StreamInvariant, PTL

\* A stream keeps less than a filter of rows, at most a chunk of rows to come,
\* and only events that a landmark can still begin with.
THEOREM StreamStaysBounded == Spec => []StreamIsBounded
<1>1. StreamInv => StreamIsBounded
  <2> SUFFICES ASSUME StreamInv PROVE StreamIsBounded
    OBVIOUS
  <2>1. DOMAIN events = 1 .. Len(events)
    BY DEF StreamInv, StreamIsTyped
  <2>2. QED
    BY <2>1 DEF StreamInv, WindowsMatch, EventsAreRecent, StreamIsBounded
<1>2. QED
  BY <1>1, StreamInvariant, PTL

\* The maxima that go with the kept rows are those of the neighbouring
\* frequencies, however the queue of lemire_vertical_max_row came to them.
THEOREM VerticalStaysMaximum == Spec => []VerticalIsMaximum
<1>1. StreamInv => VerticalIsMaximum
  <2> SUFFICES ASSUME StreamInv, NEW i \in DOMAIN magnitudes, NEW f \in Bands
               PROVE  vertical[i][f] = Highest(magnitudes[i], f)
    BY DEF VerticalIsMaximum
  <2>1. magnitudes \in Seq(Rows) /\ i \in 1 .. Len(magnitudes)
    BY DEF StreamInv, StreamIsTyped
  <2>2. magnitudes[i] \in [Bands -> Nat]
    BY <2>1, ElementOfSeq DEF Rows
  <2>3. vertical[i] = VerticalMax(magnitudes[i])
    BY <2>1 DEF StreamInv, WindowsMatch
  <2>4. QED
    BY <2>2, <2>3, VerticalMaxIsMax DEF Highest
<1>2. QED
  BY <1>1, StreamInvariant, PTL

-----------------------------------------------------------------------------
(* Streaming in chunks: lists of lists, put together in steps.              *)

\* The first lists of g, one after the other.
Flat(g, n) == FlattenSeq([i \in 1 .. n |-> g[i]])

\* Equal lists are the same lists put together.
LEMMA FlatIsSame ==
    ASSUME NEW n, NEW g, NEW h, \A i \in 1 .. n : g[i] = h[i]
    PROVE  Flat(g, n) = Flat(h, n)
<1>1. [i \in 1 .. n |-> g[i]] = [i \in 1 .. n |-> h[i]]
  OBVIOUS
<1>2. QED
  BY <1>1 DEF Flat

\* One list more comes at the end.
LEMMA FlatGrows ==
    ASSUME NEW T, NEW g, NEW n \in Nat, \A i \in 1 .. n : g[i] \in Seq(T)
    PROVE  /\ Flat(g, 0) = <<>> /\ Flat(g, n) \in Seq(T)
           /\ g[n + 1] \in Seq(T) => Flat(g, n + 1) = Flat(g, n) \o g[n + 1]
<1> DEFINE L == Seq(T)
           v == [i \in 1 .. n |-> g[i]]
           w == [i \in 1 .. n + 1 |-> g[i]]
<1>1. v \in Seq(L) /\ Len(v) = n
  <2>1. \A i \in 1 .. n : g[i] \in L
    OBVIOUS
  <2> HIDE DEF L
  <2>2. v \in [1 .. n -> L]
    BY <2>1
  <2> HIDE DEF v
  <2>3. QED
    BY <2>2
<1>2. <<>> \in Seq(T)
  BY EmptySeq
<1>3. FlattenSeq(<<>>) = <<>> /\ FlattenSeq(v) \in Seq(T)
  <2> HIDE DEF v
  <2>1. v \in Seq(Seq(T))
    BY <1>1 DEF L
  <2>2. QED
    BY <1>2, <2>1, FlattenedGrows
<1>4. Flat(g, 0) = <<>>
  <2>1. [i \in 1 .. 0 |-> g[i]] = <<>>
    OBVIOUS
  <2>2. QED
    BY <1>3, <2>1 DEF Flat
<1>5. ASSUME g[n + 1] \in Seq(T) PROVE Flat(g, n + 1) = Flat(g, n) \o g[n + 1]
  <2> DEFINE more == g[n + 1]
  <2>1. more \in L
    BY <1>5
  <2>2. w = Append(v, more)
    <3>1. \A i \in 1 .. n : v[i] = g[i]
      OBVIOUS
    <3>2. w \in Seq(L) /\ Len(w) = n + 1
      <4>1. \A i \in 1 .. n + 1 : g[i] \in L
        <5>1. \A i \in 1 .. n + 1 : i \in 1 .. n \/ i = n + 1
          OBVIOUS
        <5>2. QED
          BY <1>5, <5>1
      <4> HIDE DEF L
      <4>2. w \in [1 .. n + 1 -> L]
        BY <4>1
      <4> HIDE DEF w
      <4>3. QED
        BY <4>2
    <3>3. \A i \in 1 .. n + 1 : w[i] = g[i]
      OBVIOUS
    <3>4. more = g[n + 1]
      OBVIOUS
    <3> HIDE DEF v, w, L, more
    <3>5. /\ Append(v, more) \in Seq(L) /\ Len(Append(v, more)) = n + 1
          /\ Append(v, more)[n + 1] = more
          /\ \A i \in 1 .. n : Append(v, more)[i] = v[i]
      BY <1>1, <2>1, Pushed
    <3>6. \A i \in 1 .. Len(w) : w[i] = Append(v, more)[i]
      <4> TAKE i \in 1 .. Len(w)
      <4>1. i \in 1 .. n \/ i = n + 1
        BY <3>2
      <4>2. QED
        BY <3>1, <3>2, <3>3, <3>4, <3>5, <4>1
    <3>7. QED
      BY <3>2, <3>5, <3>6, SameLists
  <2> HIDE DEF v, w, more
  <2>3. v \in Seq(Seq(T)) /\ more \in Seq(T)
    BY <1>1, <2>1 DEF L
  <2>4. FlattenSeq(Append(v, more)) = FlattenSeq(v) \o more
    BY <2>3, FlattenedGrows
  <2>5. QED
    BY <2>2, <2>4 DEF Flat, v, w, more
<1>6. QED
  BY <1>3, <1>4, <1>5 DEF Flat

\* Lists are as well put together in two steps.
LEMMA FlatOfBoth ==
    ASSUME NEW T, NEW g, NEW a \in Nat, NEW b \in Nat, \A i \in 1 .. a + b : g[i] \in Seq(T)
    PROVE  Flat(g, a + b) = Flat(g, a) \o Flat([i \in 1 .. b |-> g[a + i]], b)
<1> DEFINE h == [i \in 1 .. b |-> g[a + i]]
           P == { n \in Nat : n <= b => Flat(g, a + n) = Flat(g, a) \o Flat(h, n) }
<1>1. \A n \in 0 .. b : \A i \in 1 .. n : h[i] = g[a + i] /\ h[i] \in Seq(T)
  <2>1. \A i \in 1 .. b : a + i \in 1 .. a + b /\ h[i] = g[a + i]
    OBVIOUS
  <2> HIDE DEF h
  <2>2. \A n \in 0 .. b : \A i \in 1 .. n : i \in 1 .. b
    OBVIOUS
  <2>3. QED
    BY <2>1, <2>2
<1>2. \A n \in 0 .. b : \A i \in 1 .. a + n : g[i] \in Seq(T)
  <2>1. \A n \in 0 .. b : \A i \in 1 .. a + n : i \in 1 .. a + b
    OBVIOUS
  <2>2. QED
    BY <2>1
<1> HIDE DEF h
<1>3. 0 \in P
  <2>1. Flat(h, 0) = <<>> /\ Flat(g, a) \in Seq(T)
    <3>1. \A i \in 1 .. a : g[i] \in Seq(T)
      BY <1>2
    <3>2. 0 \in Nat /\ \A i \in 1 .. 0 : h[i] \in Seq(T)
      OBVIOUS
    <3>3. Flat(g, a) \in Seq(T)
      BY <3>1, FlatGrows
    <3>4. Flat(h, 0) = <<>>
      BY <3>2, FlatGrows
    <3>5. QED
      BY <3>3, <3>4
  <2>2. Flat(g, a) \o <<>> = Flat(g, a)
    BY <2>1, ConcatEmptySeq
  <2>3. a + 0 = a
    OBVIOUS
  <2>4. QED
    BY <2>1, <2>2, <2>3
<1>4. ASSUME NEW n \in Nat, n \in P PROVE n + 1 \in P
  <2> SUFFICES ASSUME n + 1 <= b PROVE Flat(g, a + (n + 1)) = Flat(g, a) \o Flat(h, n + 1)
    OBVIOUS
  <2>1. n \in 0 .. b /\ n + 1 \in 1 .. n + 1 /\ n + 1 \in 0 .. b /\ n <= b
        /\ a + n \in Nat /\ (a + n) + 1 = a + (n + 1) /\ (a + n) + 1 \in 1 .. a + (n + 1)
    OBVIOUS
  <2>2. Flat(g, a + n) = Flat(g, a) \o Flat(h, n)
    BY <1>4, <2>1
  <2>3. h[n + 1] = g[(a + n) + 1] /\ h[n + 1] \in Seq(T) /\ \A i \in 1 .. n : h[i] \in Seq(T)
    <3>1. \A i \in 1 .. n + 1 : h[i] = g[a + i] /\ h[i] \in Seq(T)
      BY <1>1, <2>1
    <3>2. h[n + 1] = g[a + (n + 1)] /\ h[n + 1] \in Seq(T)
      BY <2>1, <3>1
    <3>3. \A i \in 1 .. n : i \in 1 .. n + 1
      OBVIOUS
    <3>4. QED
      BY <2>1, <3>1, <3>2, <3>3
  <2>4. Flat(h, n + 1) = Flat(h, n) \o h[n + 1] /\ Flat(h, n) \in Seq(T)
    BY <2>3, FlatGrows
  <2>5. Flat(g, (a + n) + 1) = Flat(g, a + n) \o g[(a + n) + 1]
    <3>1. \A i \in 1 .. a + n : g[i] \in Seq(T)
      BY <1>2, <2>1
    <3>2. QED
      BY <2>1, <2>3, <3>1, FlatGrows
  <2>6. Flat(g, a) \in Seq(T)
    <3>1. \A i \in 1 .. a : g[i] \in Seq(T)
      OBVIOUS
    <3>2. QED
      BY <3>1, FlatGrows
  <2>7. (Flat(g, a) \o Flat(h, n)) \o h[n + 1] = Flat(g, a) \o (Flat(h, n) \o h[n + 1])
    <3> DEFINE x == Flat(g, a)
               y == Flat(h, n)
               z == h[n + 1]
    <3>1. x \in Seq(T) /\ y \in Seq(T) /\ z \in Seq(T)
      BY <2>3, <2>4, <2>6
    <3> HIDE DEF x, y, z
    <3>2. (x \o y) \o z = x \o (y \o z)
      BY <3>1, ConcatAssociative
    <3>3. QED
      BY <3>2 DEF x, y, z
  <2>8. QED
    BY <2>1, <2>2, <2>3, <2>4, <2>5, <2>7
<1> HIDE DEF P
<1>5. b \in P
  BY <1>3, <1>4, SetInduction
<1>6. QED
  BY <1>5 DEF P, h

\* Places of 1 .. n that are chosen, in their order.
Picks(at, m, n, chosen) ==
    /\ \A x \in 1 .. m : at[x] \in 1 .. n /\ at[x] \in chosen
    /\ \A x, y \in 1 .. m : x < y => at[x] < at[y]
    /\ \A i \in 1 .. n : i \in chosen => \E x \in 1 .. m : at[x] = i

\* The last place is chosen and comes last, or it is not and may be forgotten.
LEMMA PicksEnd ==
    ASSUME NEW at, NEW m \in Nat, NEW n \in Nat, NEW chosen, Picks(at, m, n + 1, chosen)
    PROVE  \/ n + 1 \in chosen /\ m \in Nat \ {0} /\ at[m] = n + 1 /\ Picks(at, m - 1, n, chosen)
           \/ n + 1 \notin chosen /\ Picks(at, m, n, chosen)
<1>1. /\ \A x \in 1 .. m : at[x] \in 1 .. n + 1 /\ at[x] \in chosen
      /\ \A x, y \in 1 .. m : x < y => at[x] < at[y]
      /\ \A i \in 1 .. n + 1 : i \in chosen => \E x \in 1 .. m : at[x] = i
  BY DEF Picks
<1>2. \A i \in 1 .. n + 1 : i \in 1 .. n \/ i = n + 1
  OBVIOUS
<1>3. \A i \in 1 .. n : i \in 1 .. n + 1
  OBVIOUS
<1>4. CASE n + 1 \notin chosen
  <2>1. \A x \in 1 .. m : at[x] \in 1 .. n /\ at[x] \in chosen
    BY <1>1, <1>2, <1>4
  <2>2. \A i \in 1 .. n : i \in chosen => \E x \in 1 .. m : at[x] = i
    BY <1>1, <1>3
  <2>3. QED
    BY <1>1, <1>4, <2>1, <2>2 DEF Picks
<1>5. CASE n + 1 \in chosen
  <2>1. PICK x \in 1 .. m : at[x] = n + 1
    <3>1. n + 1 \in 1 .. n + 1
      OBVIOUS
    <3>2. QED
      BY <1>1, <1>5, <3>1
  <2>2. m \in Nat \ {0} /\ m \in 1 .. m
    BY <2>1
  <2>3. x = m
    <3>1. x < m => at[x] < at[m] /\ at[m] \in 1 .. n + 1
      BY <1>1, <2>2
    <3>2. QED
      BY <2>1, <2>2, <3>1
  <2>4. \A y \in 1 .. m - 1 : y \in 1 .. m /\ y < m
    BY <2>2
  <2>5. \A y \in 1 .. m - 1 : at[y] \in 1 .. n /\ at[y] \in chosen
    <3> TAKE y \in 1 .. m - 1
    <3>1. y \in 1 .. m /\ at[y] \in 1 .. n + 1 /\ at[y] \in chosen /\ at[y] < at[m]
      BY <1>1, <2>2, <2>4
    <3>2. at[y] < n + 1
      BY <2>1, <2>3, <3>1
    <3>3. QED
      BY <3>1, <3>2
  <2>6. \A y, z \in 1 .. m - 1 : y < z => at[y] < at[z]
    BY <1>1, <2>4
  <2>7. ASSUME NEW i \in 1 .. n, i \in chosen PROVE \E y \in 1 .. m - 1 : at[y] = i
    <3>1. PICK y \in 1 .. m : at[y] = i
      BY <1>1, <1>3, <2>7
    <3>2. y # m
      BY <2>1, <2>3, <3>1
    <3>3. y \in 1 .. m - 1
      BY <2>2, <3>2
    <3>4. QED
      BY <3>1, <3>3
  <2>8. Picks(at, m - 1, n, chosen)
    BY <2>5, <2>6, <2>7 DEF Picks
  <2>9. QED
    BY <1>5, <2>1, <2>2, <2>3, <2>8
<1>6. QED
  BY <1>4, <1>5

\* Lists that are empty are as well left out.
LEMMA FlatOfChosen ==
    ASSUME NEW T, NEW g, NEW size \in Nat, \A i \in 1 .. size : g[i] \in Seq(T),
           NEW chosen, \A i \in 1 .. size : i \notin chosen => g[i] = <<>>,
           NEW at, NEW m \in Nat, Picks(at, m, size, chosen)
    PROVE  Flat(g, size) = Flat([x \in 1 .. m |-> g[at[x]]], m)
<1> DEFINE Taken(k) == [x \in 1 .. k |-> g[at[x]]]
           P == { n \in Nat : n <= size => \A k \in Nat :
                      Picks(at, k, n, chosen) => Flat(g, n) = Flat(Taken(k), k) }
<1>1. ASSUME NEW k \in Nat, NEW n \in Nat, n <= size, Picks(at, k, n, chosen)
      PROVE  /\ \A x \in 1 .. k : Taken(k)[x] = g[at[x]] /\ Taken(k)[x] \in Seq(T)
             /\ Flat(Taken(k), k) \in Seq(T)
  <2>1. \A x \in 1 .. k : at[x] \in 1 .. n
    BY <1>1 DEF Picks
  <2>2. \A x \in 1 .. k : Taken(k)[x] = g[at[x]]
    OBVIOUS
  <2> HIDE DEF Taken
  <2>3. \A x \in 1 .. k : at[x] \in 1 .. size
    BY <1>1, <2>1
  <2>4. \A x \in 1 .. k : Taken(k)[x] \in Seq(T)
    BY <2>2, <2>3
  <2>5. Flat(Taken(k), k) \in Seq(T)
    BY <2>4, FlatGrows
  <2>6. QED
    BY <2>2, <2>4, <2>5
<1>2. ASSUME NEW n \in Nat, n <= size PROVE Flat(g, n) \in Seq(T) /\ Flat(g, 0) = <<>>
  <2>1. \A i \in 1 .. n : g[i] \in Seq(T)
    BY <1>2
  <2>2. QED
    BY <2>1, FlatGrows
<1>3. 0 \in P
  <2> SUFFICES ASSUME NEW k \in Nat, Picks(at, k, 0, chosen) PROVE Flat(g, 0) = Flat(Taken(k), k)
    OBVIOUS
  <2>1. \A x \in 1 .. k : at[x] \in 1 .. 0
    BY DEF Picks
  <2>2. k = 0
    <3>1. k # 0 => 1 \in 1 .. k
      OBVIOUS
    <3>2. ~(at[1] \in 1 .. 0)
      OBVIOUS
    <3>3. QED
      BY <2>1, <3>1, <3>2
  <2>3. Flat(Taken(k), 0) = <<>>
    <3>1. 0 \in Nat /\ \A i \in 1 .. 0 : Taken(k)[i] \in Seq(T)
      OBVIOUS
    <3> HIDE DEF Taken
    <3>2. QED
      BY <3>1, FlatGrows
  <2>4. Flat(g, 0) = <<>>
    BY <1>2
  <2>5. QED
    BY <2>2, <2>3, <2>4
<1>4. ASSUME NEW n \in Nat, n \in P PROVE n + 1 \in P
  <2> SUFFICES ASSUME n + 1 <= size, NEW k \in Nat, Picks(at, k, n + 1, chosen)
               PROVE  Flat(g, n + 1) = Flat(Taken(k), k)
    OBVIOUS
  <2>1. n <= size /\ n + 1 \in 1 .. size
    OBVIOUS
  <2>2. \A j \in Nat : Picks(at, j, n, chosen) => Flat(g, n) = Flat(Taken(j), j)
    BY <1>4, <2>1
  <2>3. Flat(g, n + 1) = Flat(g, n) \o g[n + 1] /\ Flat(g, n) \in Seq(T)
    <3>1. \A i \in 1 .. n : i \in 1 .. size
      BY <2>1
    <3>2. \A i \in 1 .. n : g[i] \in Seq(T)
      BY <3>1
    <3>3. g[n + 1] \in Seq(T)
      BY <2>1
    <3>4. QED
      BY <3>2, <3>3, FlatGrows
  <2>4. CASE n + 1 \notin chosen /\ Picks(at, k, n, chosen)
    <3>1. g[n + 1] = <<>>
      BY <2>1, <2>4
    <3>2. Flat(g, n) \o <<>> = Flat(g, n)
      BY <2>3, ConcatEmptySeq
    <3>3. Flat(g, n) = Flat(Taken(k), k)
      BY <2>2, <2>4
    <3>4. QED
      BY <2>3, <3>1, <3>2, <3>3
  <2>5. CASE n + 1 \in chosen /\ k \in Nat \ {0} /\ at[k] = n + 1 /\ Picks(at, k - 1, n, chosen)
    <3>1. k - 1 \in Nat /\ (k - 1) + 1 = k /\ k \in 1 .. k /\ \A x \in 1 .. k - 1 : x \in 1 .. k
      BY <2>5
    <3>2. Flat(g, n) = Flat(Taken(k - 1), k - 1)
      BY <2>2, <2>5, <3>1
    <3>3. \A x \in 1 .. k : Taken(k)[x] = g[at[x]] /\ Taken(k)[x] \in Seq(T)
      <4>1. n + 1 \in Nat /\ n + 1 <= size /\ Picks(at, k, n + 1, chosen)
        BY <2>1
      <4> HIDE DEF Taken
      <4>2. QED
        BY <1>1, <4>1
    <3>4. \A x \in 1 .. k - 1 : Taken(k - 1)[x] = g[at[x]]
      OBVIOUS
    <3> HIDE DEF Taken
    <3>5. Flat(Taken(k - 1), k - 1) = Flat(Taken(k), k - 1)
      <4>1. \A x \in 1 .. k - 1 : Taken(k - 1)[x] = Taken(k)[x]
        BY <3>1, <3>3, <3>4
      <4>2. QED
        BY <4>1, FlatIsSame
    <3>6. Flat(Taken(k), (k - 1) + 1) = Flat(Taken(k), k - 1) \o Taken(k)[(k - 1) + 1]
      <4>1. /\ \A x \in 1 .. k - 1 : Taken(k)[x] \in Seq(T)
            /\ Taken(k)[(k - 1) + 1] \in Seq(T)
        BY <3>1, <3>3
      <4>2. QED
        BY <3>1, <4>1, FlatGrows
    <3>7. Taken(k)[k] = g[n + 1]
      BY <2>5, <3>1, <3>3
    <3>8. QED
      BY <2>3, <3>1, <3>2, <3>5, <3>6, <3>7
  <2>6. QED
    BY <2>4, <2>5, PicksEnd
<1> HIDE DEF P
<1>5. size \in P
  BY <1>3, <1>4, SetInduction
<1>6. QED
  BY <1>5 DEF P

\* Lists of one element each make the list of these.
LEMMA FlatOfSingles ==
    ASSUME NEW T, NEW v \in Seq(T), NEW g, \A i \in 1 .. Len(v) : g[i] = <<v[i]>>
    PROVE  Flat(g, Len(v)) = v
<1> DEFINE size == Len(v)
           P == { n \in Nat : n <= size => /\ Flat(g, n) \in Seq(T) /\ Len(Flat(g, n)) = n
                                           /\ \A i \in 1 .. n : Flat(g, n)[i] = v[i] }
<1>1. size \in Nat /\ \A i \in 1 .. size : v[i] \in T
  BY ElementOfSeq
<1>2. \A i \in 1 .. size : <<v[i]>> \in Seq(T) /\ g[i] = <<v[i]>>
  BY <1>1
<1> HIDE DEF size
<1>3. 0 \in P
  <2>1. 0 \in Nat /\ \A i \in 1 .. 0 : g[i] \in Seq(T)
    OBVIOUS
  <2>2. Flat(g, 0) = <<>>
    BY <2>1, FlatGrows
  <2>3. <<>> \in Seq(T) /\ Len(<<>>) = 0
    BY EmptySeq
  <2>4. Flat(g, 0) \in Seq(T) /\ Len(Flat(g, 0)) = 0
    BY <2>2, <2>3, Zenon
  <2>5. QED
    BY <2>4
<1>4. ASSUME NEW n \in Nat, n \in P PROVE n + 1 \in P
  <2> SUFFICES ASSUME n + 1 <= size
               PROVE  /\ Flat(g, n + 1) \in Seq(T) /\ Len(Flat(g, n + 1)) = n + 1
                      /\ \A i \in 1 .. n + 1 : Flat(g, n + 1)[i] = v[i]
    OBVIOUS
  <2>1. n <= size /\ n + 1 \in 1 .. size
    BY <1>1
  <2>2. Flat(g, n) \in Seq(T) /\ Len(Flat(g, n)) = n /\ \A i \in 1 .. n : Flat(g, n)[i] = v[i]
    BY <1>4, <2>1
  <2>3. Flat(g, n + 1) = Flat(g, n) \o <<v[n + 1]>>
    <3>0. \A i \in 1 .. n : i \in 1 .. size
      BY <1>1, <2>1
    <3>1. \A i \in 1 .. n : g[i] \in Seq(T)
      BY <1>2, <3>0
    <3>2. g[n + 1] = <<v[n + 1]>> /\ g[n + 1] \in Seq(T)
      BY <1>2, <2>1
    <3>3. QED
      BY <3>1, <3>2, FlatGrows
  <2> DEFINE x == Flat(g, n)
             e == v[n + 1]
  <2>4. x \in Seq(T) /\ Len(x) = n /\ e \in T /\ Flat(g, n + 1) = x \o <<e>>
    BY <1>1, <2>1, <2>2, <2>3
  <2>5. \A i \in 1 .. n : x[i] = v[i]
    BY <2>2
  <2> HIDE DEF x, e
  <2>6. /\ x \o <<e>> \in Seq(T) /\ Len(x \o <<e>>) = n + 1
        /\ (x \o <<e>>)[n + 1] = e /\ \A i \in 1 .. n : (x \o <<e>>)[i] = x[i]
    BY <2>4
  <2>7. ASSUME NEW i \in 1 .. n + 1 PROVE Flat(g, n + 1)[i] = v[i]
    <3>1. CASE i = n + 1
      BY <2>4, <2>6, <3>1 DEF e
    <3>2. CASE i \in 1 .. n
      BY <2>4, <2>5, <2>6, <3>2
    <3>3. QED
      BY <3>1, <3>2
  <2>8. QED
    BY <2>4, <2>6, <2>7
<1> HIDE DEF P
<1>5. size \in P
  BY <1>1, <1>3, <1>4, SetInduction
<1>6. Flat(g, size) \in Seq(T) /\ Len(Flat(g, size)) = size /\ \A i \in 1 .. size : Flat(g, size)[i] = v[i]
  BY <1>1, <1>5 DEF P
<1>7. Flat(g, size) = v
  BY <1>6, SameLists DEF size
<1>8. QED
  BY <1>7 DEF size

\* Lists of T's elements: the first a + b of g are its first a and h's first b.
GoesOn(T, g, a, b, h) ==
    /\ a \in Nat /\ b \in Nat
    /\ \A i \in 1 .. a + b : g[i] \in Seq(T)
    /\ \A i \in 1 .. b : h[i] = g[a + i]

LEMMA FlatOfTwo ==
    ASSUME NEW T, NEW g, NEW a, NEW b, NEW h, GoesOn(T, g, a, b, h)
    PROVE  Flat(g, a + b) = Flat(g, a) \o Flat(h, b)
<1> DEFINE rest == [i \in 1 .. b |-> g[a + i]]
<1>1. Flat(g, a + b) = Flat(g, a) \o Flat(rest, b)
  <2>1. a \in Nat /\ b \in Nat /\ \A i \in 1 .. a + b : g[i] \in Seq(T)
    BY DEF GoesOn
  <2>2. QED
    BY ONLY <2>1, FlatOfBoth, ZenonT(30)
<1>2. \A i \in 1 .. b : rest[i] = h[i]
  BY DEF GoesOn
<1> HIDE DEF rest
<1>3. Flat(rest, b) = Flat(h, b)
  BY <1>2, FlatIsSame
<1>4. QED
  BY <1>1, <1>3

\* So they can when the others have a name.
LEMMA FlatOfPicked ==
    ASSUME NEW T, NEW g, NEW size \in Nat, \A i \in 1 .. size : g[i] \in Seq(T),
           NEW chosen, \A i \in 1 .. size : i \notin chosen => g[i] = <<>>,
           NEW at, NEW m \in Nat, Picks(at, m, size, chosen),
           NEW h, \A x \in 1 .. m : h[x] = g[at[x]]
    PROVE  Flat(g, size) = Flat(h, m)
<1> DEFINE rest == [x \in 1 .. m |-> g[at[x]]]
<1>1. Flat(g, size) = Flat(rest, m)
  BY FlatOfChosen, SMTT(30), ZenonT(30)
<1>2. \A x \in 1 .. m : rest[x] = h[x]
  OBVIOUS
<1> HIDE DEF rest
<1>3. Flat(rest, m) = Flat(h, m)
  BY <1>2, FlatIsSame
<1>4. QED
  BY <1>1, <1>3

-----------------------------------------------------------------------------
(* The rows of the chunks are, one after the other, those of the file.      *)

\* What is read for a chunk is enough for its frames.
LEMMA ChunkSamples ==
    ASSUME SampleCount \in Nat, NEW start, IsStart(start), start < SampleCount,
           NEW frame \in Nat, OutputStart(start) <= frame, frame < OutputStop(start),
           NEW s \in Nat, s < SampleCount, s \div Hop = frame + 1
    PROVE  /\ Input(start).start <= s /\ s < Input(start).stop
           /\ Least(s, Support) <= s - Input(start).start
           /\ Least(SampleCount - s, Support) <= Input(start).stop - s
<1> DEFINE m == start \div Hop
           stop == CoreStop(start)
           n == stop \div Hop
<1>1. Hop \in Nat \ {0} /\ StreamCore \in Nat \ {0} /\ Support \in Nat
  BY ExtractAssumption
<1>2. start \in Nat /\ start = Hop * m /\ m \in Nat
  BY <1>1, Division DEF IsStart
<1>3. /\ stop \in Nat /\ stop <= SampleCount /\ start < stop
      /\ stop = SampleCount \/ stop = start + StreamCore
  BY <1>1, <1>2 DEF CoreStop, Least
<1>4. n \in Nat /\ Hop * n <= stop
  <2> HIDE DEF stop
  <2>1. QED
    BY <1>1, <1>3, Division
<1>5. Hop * (frame + 1) <= s /\ s < Hop * (frame + 1) + Hop
  BY <1>1, Division
<1>6. start <= s
  <2>1. m <= frame + 1
    <3>1. CASE start = 0
      <4>1. m = 0
        <5>1. m # 0 => Hop * m >= Hop * 1
          BY <1>1, <1>2
        <5> HIDE DEF m
        <5>2. QED
          BY <1>1, <1>2, <3>1, <5>1
      <4> HIDE DEF m
      <4>2. QED
        BY <4>1
    <3>2. CASE start # 0
      <4>1. OutputStart(start) = m - 1
        BY <3>2 DEF OutputStart
      <4> HIDE DEF m
      <4>2. QED
        BY <1>2, <4>1
    <3>3. QED
      BY <3>1, <3>2
  <2> HIDE DEF m
  <2>2. Hop * m <= Hop * (frame + 1)
    BY <1>1, <1>2, <2>1
  <2>3. Hop * (frame + 1) \in Nat
    BY <1>1
  <2>4. QED
    BY <1>2, <1>5, <2>2, <2>3
<1>7. s < stop
  <2>1. CASE stop = SampleCount
    BY <2>1
  <2>2. CASE stop # SampleCount
    <3>1. frame < n - 1
      <4>1. OutputStop(start) = Least(n - 1, Frames(SampleCount))
        BY <2>2 DEF OutputStop
      <4>2. Frames(SampleCount) \in Nat
        BY FramesAreNatural
      <4>3. OutputStop(start) \in Int /\ OutputStop(start) <= n - 1
        <5> HIDE DEF n
        <5>1. QED
          BY <1>4, <4>1, <4>2 DEF Least
      <4> HIDE DEF n
      <4>4. QED
        BY <1>4, <4>3
    <3> HIDE DEF n, stop
    <3>2. frame + 2 <= n
      BY <1>4, <3>1
    <3>3. Hop * (frame + 2) <= Hop * n
      BY <1>1, <1>4, <3>2
    <3>4. Hop * (frame + 2) = Hop * (frame + 1) + Hop /\ Hop * (frame + 1) \in Nat /\ Hop * n \in Nat
      BY <1>1, <1>4
    <3>5. QED
      BY <1>1, <1>3, <1>4, <1>5, <3>3, <3>4
  <2>3. QED
    BY <2>1, <2>2
<1>8. Input(start).start = Saturated(start, Support) /\ Input(start).stop = Least(stop + Support, SampleCount)
  BY DEF Input
<1> HIDE DEF stop
<1>9. /\ Saturated(start, Support) <= s
      /\ Least(s, Support) <= s - Saturated(start, Support)
  BY <1>1, <1>2, <1>6 DEF Saturated, Least
<1>10. /\ s < Least(stop + Support, SampleCount)
       /\ Least(SampleCount - s, Support) <= Least(stop + Support, SampleCount) - s
  BY <1>1, <1>3, <1>7 DEF Least
<1>11. QED
  BY <1>8, <1>9, <1>10

\* what the whole file is as one chunk,
WholeInput == [start |-> 0, stop |-> SampleCount]

\* so that its rows are those of the whole file.
LEMMA ChunkRowsAreWhole ==
    ASSUME SampleCount \in Nat, NEW start, IsStart(start), start < SampleCount,
           NEW frame \in Nat, OutputStart(start) <= frame, frame < OutputStop(start)
    PROVE  RowAt(Input(start), frame) = RowAt(WholeInput, frame)
<1> DEFINE Here(input, band) == { s \in Greatest(1, input.start) .. input.stop - 1 :
                                      s % NativeStep[band] = 0 /\ s \div Hop = frame + 1 }
<1>1. /\ Input(start).start \in Nat /\ Input(start).stop \in Nat /\ Input(start).stop <= SampleCount
      /\ Support \in Nat
  <2>1. StreamCore \in Nat /\ Support \in Nat /\ start \in Nat
    BY ExtractAssumption DEF IsStart
  <2>2. CoreStop(start) \in Nat
    BY <2>1 DEF CoreStop, Least
  <2>3. Input(start).start = Saturated(start, Support) /\ Input(start).stop = Least(CoreStop(start) + Support, SampleCount)
    BY DEF Input
  <2>4. Saturated(start, Support) \in Nat
    BY <2>1 DEF Saturated
  <2>5. Least(CoreStop(start) + Support, SampleCount) \in Nat /\ Least(CoreStop(start) + Support, SampleCount) <= SampleCount
    BY <2>1, <2>2 DEF Least
  <2>6. QED
    BY <2>1, <2>3, <2>4, <2>5
<1>2. WholeInput.start = 0 /\ WholeInput.stop = SampleCount
  BY DEF WholeInput
<1>3. ASSUME NEW band \in Bands PROVE BandMagnitude(Input(start), band, frame) = BandMagnitude(WholeInput, band, frame)
  <2>1. ASSUME NEW s \in Here(Input(start), band) PROVE s \in Here(WholeInput, band)
    <3>1. s \in Greatest(1, Input(start).start) .. Input(start).stop - 1
      OBVIOUS
    <3>2. s \in Greatest(1, 0) .. SampleCount - 1
      BY <1>1, <3>1 DEF Greatest
    <3>3. QED
      BY <1>2, <3>2
  <2>2. ASSUME NEW s \in Here(WholeInput, band)
        PROVE  s \in Here(Input(start), band) /\ Filtered(Input(start), band, s) = Filtered(WholeInput, band, s)
    <3>1. s \in Greatest(1, 0) .. SampleCount - 1 /\ s \div Hop = frame + 1 /\ s % NativeStep[band] = 0
      BY <1>2
    <3>2. s \in Nat /\ 1 <= s /\ s < SampleCount
      BY <3>1 DEF Greatest
    <3>3. /\ Input(start).start <= s /\ s < Input(start).stop
          /\ Least(s, Support) <= s - Input(start).start
          /\ Least(SampleCount - s, Support) <= Input(start).stop - s
      BY <3>1, <3>2, ChunkSamples
    <3>4. s \in Greatest(1, Input(start).start) .. Input(start).stop - 1
      BY <1>1, <3>2, <3>3 DEF Greatest
    <3>5. Filtered(Input(start), band, s) = file.level[band][s]
      BY <3>3 DEF Filtered
    <3>6. Least(s, Support) <= s - WholeInput.start /\ Least(SampleCount - s, Support) <= WholeInput.stop - s
      BY <1>1, <1>2, <3>2 DEF Least
    <3>7. Filtered(WholeInput, band, s) = file.level[band][s]
      BY <3>6 DEF Filtered
    <3>8. QED
      BY <3>1, <3>4, <3>5, <3>7
  <2>3. BandMagnitude(Input(start), band, frame) = Max({0} \cup { Filtered(Input(start), band, s) : s \in Here(Input(start), band) })
    BY DEF BandMagnitude
  <2>4. BandMagnitude(WholeInput, band, frame) = Max({0} \cup { Filtered(WholeInput, band, s) : s \in Here(WholeInput, band) })
    BY DEF BandMagnitude
  <2> HIDE DEF Here
  <2>5. { Filtered(Input(start), band, s) : s \in Here(Input(start), band) } = { Filtered(WholeInput, band, s) : s \in Here(WholeInput, band) }
    BY <2>1, <2>2
  <2>6. QED
    BY <2>3, <2>4, <2>5
<1>4. QED
  BY <1>3 DEF RowAt

\* The rows of a list are the frames from k on.
AreFrames(list, k) ==
    \A i \in 1 .. Len(list) :
        k + i - 1 \in 0 .. Frames(SampleCount) - 1 /\ list[i] = WholeRows[k + i - 1]

\* How many frames the chunks before this core answer for.
Reached(start) ==
    IF start >= SampleCount THEN Frames(SampleCount)
    ELSE Least(OutputStart(start), Frames(SampleCount))

\* The next chunk answers for the frames after this one's.
LEMMA ChunksMeet ==
    ASSUME SampleCount \in Nat, NEW start, IsStart(start), start < SampleCount
    PROVE  /\ Reached(start) \in Nat
           /\ Reached(start + StreamCore) = Reached(start) + Len(ChunkRows(start))
           /\ AreFrames(ChunkRows(start), Reached(start))
<1> DEFINE first == OutputStart(start)
           stop == OutputStop(start)
           frames == Frames(SampleCount)
           size == Saturated(stop, first)
           next == start + StreamCore
           read == [i \in 1 .. size |-> RowAt(Input(start), first + i - 1)]
<1>1. Hop \in Nat \ {0} /\ StreamCore \in Nat \ {0} /\ StreamCore % Hop = 0 /\ start \in Nat
  BY ExtractAssumption DEF IsStart
<1>2. first \in Nat /\ stop \in Int /\ size \in Nat
  <2>1. first \in Nat /\ stop \in Int
    BY ChunksAreSmall
  <2> HIDE DEF first, stop
  <2>2. QED
    BY <2>1 DEF Saturated
<1>3. frames \in Nat
  BY FramesAreNatural
<1>4. ChunkRows(start) = read
  BY DEF ChunkRows
<1>5. Len(read) = size /\ \A i \in 1 .. size : read[i] = RowAt(Input(start), first + i - 1)
  <2> HIDE DEF size
  <2>1. QED
    BY <1>2
<1> HIDE DEF read
<1>6. CoreStop(start) = SampleCount \/ (CoreStop(start) = next /\ next < SampleCount)
  BY <1>1 DEF CoreStop, Least
<1>7. Reached(start) = Least(first, frames)
  BY <1>1 DEF Reached
<1>8. stop <= frames
  <2>1. stop = frames \/ \E x \in Int : stop = Least(x, frames)
    <3>1. CASE CoreStop(start) = SampleCount
      BY <3>1 DEF OutputStop
    <3>2. CASE CoreStop(start) # SampleCount
      <4>1. CoreStop(start) \div Hop - 1 \in Int
        <5>1. CoreStop(start) \in Nat
          BY <1>1, <1>6
        <5>2. CoreStop(start) \div Hop \in Nat
          BY <1>1, <5>1, Division
        <5>3. QED
          BY <5>2
      <4>2. stop = Least(CoreStop(start) \div Hop - 1, frames)
        BY <3>2 DEF OutputStop
      <4>3. QED
        BY <4>1, <4>2
    <3>3. QED
      BY <3>1, <3>2
  <2> HIDE DEF stop, frames
  <2>2. QED
    BY <1>3, <2>1 DEF Least
<1>9. Reached(next) = Least(first, frames) + size
  <2>1. CASE CoreStop(start) = SampleCount
    <3>1. stop = frames
      BY <2>1 DEF OutputStop
    <3>2. next >= SampleCount
      BY <1>1, <2>1 DEF CoreStop, Least
    <3>3. Reached(next) = frames
      BY <3>2 DEF Reached
    <3>4. size = (IF stop >= first THEN stop - first ELSE 0)
      BY DEF Saturated
    <3> HIDE DEF first, stop, frames, size
    <3>5. QED
      BY <1>2, <1>3, <3>1, <3>3, <3>4 DEF Least
  <2>2. CASE CoreStop(start) = next /\ next < SampleCount
    <3> DEFINE m == start \div Hop
               k == StreamCore \div Hop
    <3>1. next \div Hop = m + k /\ m \in Nat /\ k \in Nat \ {0}
      <4>1. next \div Hop = m + k
        BY StartsGoOn
      <4>2. m \in Nat /\ k \in Nat
        BY <1>1, Division
      <4>3. k # 0
        BY <1>1
      <4>4. QED
        BY <4>1, <4>2, <4>3
    <3>2. first = 0 \/ first = m - 1
      BY DEF OutputStart
    <3>3. stop = Least((m + k) - 1, frames)
      <4>1. stop = Least(next \div Hop - 1, frames)
        BY <2>2 DEF OutputStop
      <4> HIDE DEF m, k, frames, stop
      <4>2. QED
        BY <3>1, <4>1
    <3>4. OutputStart(next) = (m + k) - 1
      <4>1. next # 0
        BY <1>1
      <4>2. OutputStart(next) = next \div Hop - 1
        BY <4>1 DEF OutputStart
      <4> HIDE DEF m, k, next
      <4>3. QED
        BY <3>1, <4>2
    <3>5. Reached(next) = stop
      <4>1. ~(next >= SampleCount)
        BY <1>1, <2>2
      <4>2. QED
        BY <3>3, <3>4, <4>1 DEF Reached
    <3>6. size = (IF stop >= first THEN stop - first ELSE 0)
      BY DEF Saturated
    <3> HIDE DEF first, stop, frames, size, m, k
    <3>7. first <= (m + k) - 1
      BY <3>1, <3>2
    <3>8. QED
      BY <1>2, <1>3, <3>1, <3>3, <3>5, <3>6, <3>7 DEF Least
  <2>3. QED
    BY <1>6, <2>1, <2>2
<1>10. AreFrames(read, Least(first, frames))
  <2> SUFFICES ASSUME NEW i \in 1 .. size
               PROVE  /\ Least(first, frames) + i - 1 \in 0 .. frames - 1
                      /\ read[i] = WholeRows[Least(first, frames) + i - 1]
    BY <1>5 DEF AreFrames
  <2>1. size = (IF stop >= first THEN stop - first ELSE 0)
    BY DEF Saturated
  <2> DEFINE frame == first + i - 1
  <2>2. /\ Least(first, frames) = first /\ frame \in Nat
        /\ first <= frame /\ frame < stop /\ frame \in 0 .. frames - 1
    <3> HIDE DEF first, stop, frames, size
    <3>1. i \in Nat /\ i >= 1 /\ i <= stop - first /\ first < stop
      BY <1>2, <2>1
    <3>2. QED
      BY <1>2, <1>3, <1>8, <3>1 DEF Least
  <2>3. read[i] = RowAt(Input(start), frame)
    BY <1>5
  <2> HIDE DEF frame
  <2>4. RowAt(Input(start), frame) = RowAt(WholeInput, frame)
    BY <2>2, ChunkRowsAreWhole
  <2>5. WholeRows[frame] = RowAt(WholeInput, frame)
    BY <2>2 DEF WholeRows, WholeInput
  <2>6. QED
    BY <2>2, <2>3, <2>4, <2>5 DEF frame
<1>11. Least(first, frames) \in Nat
  <2> HIDE DEF first, frames
  <2>1. QED
    BY <1>2, <1>3 DEF Least
<1>12. QED
  BY <1>4, <1>5, <1>7, <1>9, <1>10, <1>11

-----------------------------------------------------------------------------
(* A full window yields the events of its middle frame, and the queue the   *)
(* landmarks that the file's events have.                                   *)

\* The filter is odd: as many rows before the middle one as after it.
LEMMA TimeFilterHasMiddle == Center \in Nat /\ Center >= 1 /\ TimeFilter = 2 * Center + 1
BY ExtractAssumption DEF Center

\* A full window has the events of its centre.
LEMMA WindowHasPeaks ==
    ASSUME NEW row, NEW t \in Nat, Center <= t,
           NEW window \in Seq(Rows), Len(window) = TimeFilter, NEW maxima,
           \A i \in 1 .. TimeFilter : maxima[i] = VerticalMax(window[i]),
           \A i \in 1 .. TimeFilter : window[i] = row[t - Center + i - 1]
    PROVE  EventsOf(window, maxima, t) = PeaksOf(row, t)
<1>1. Center \in Nat /\ Center >= 1 /\ TimeFilter = 2 * Center + 1 /\ BandCount \in Nat /\ BandCount >= 3
  BY TimeFilterHasMiddle, ExtractAssumption
<1>2. ASSUME NEW i \in 1 .. TimeFilter, NEW f \in Bands
      PROVE  maxima[i][f] = Highest(row[t - Center + i - 1], f)
  <2>1. window[i] \in [Bands -> Nat]
    BY ElementOfSeq DEF Rows
  <2>2. VerticalMax(window[i])[f] = Highest(window[i], f)
    BY <2>1, VerticalMaxIsMax DEF Highest
  <2>3. maxima[i] = VerticalMax(window[i]) /\ window[i] = row[t - Center + i - 1]
    OBVIOUS
  <2>4. QED
    BY <2>2, <2>3
<1>3. window[Center] = row[t - 1] /\ window[Center + 1] = row[t] /\ window[Center + 2] = row[t + 1]
  <2>1. Center \in 1 .. TimeFilter /\ Center + 1 \in 1 .. TimeFilter /\ Center + 2 \in 1 .. TimeFilter
    BY <1>1
  <2>2. /\ t - Center + Center - 1 = t - 1
        /\ t - Center + (Center + 1) - 1 = t
        /\ t - Center + (Center + 2) - 1 = t + 1
    BY <1>1
  <2>a. /\ window[Center] = row[t - Center + Center - 1]
        /\ window[Center + 1] = row[t - Center + (Center + 1) - 1]
        /\ window[Center + 2] = row[t - Center + (Center + 2) - 1]
    BY <2>1
  <2>3. QED
    BY <2>2, <2>a
<1>4. ASSUME NEW n \in 1 .. BandCount - 3
      PROVE  /\ IsEvent(window, maxima, n + 1) <=> IsPeak(row, t, n + 1)
             /\ EventAt(window, n + 1, t) = [t |-> t, f |-> n + 1, magnitude |-> Surround(row, t, n + 1)]
  <2> DEFINE f == n + 1
             value == row[t][f]
  <2>1. f \in Bands
    BY <1>1 DEF Bands
  <2>2. maxima[Center + 1][f] = Highest(row[t], f)
    <3>1. Center + 1 \in 1 .. TimeFilter /\ t - Center + (Center + 1) - 1 = t
      BY <1>1
    <3> HIDE DEF f
    <3>2. maxima[Center + 1][f] = Highest(row[t - Center + (Center + 1) - 1], f)
      BY <1>2, <2>1, <3>1
    <3>3. QED
      BY <3>1, <3>2
  <2>3. (\A i \in 1 .. TimeFilter - 1 : maxima[i][f] <= value)
            <=> (\A u \in t - Center .. t + Center - 1 : Highest(row[u], f) <= value)
    <3> HIDE DEF f, value
    <3>1. ASSUME \A i \in 1 .. TimeFilter - 1 : maxima[i][f] <= value,
                 NEW u \in t - Center .. t + Center - 1
          PROVE  Highest(row[u], f) <= value
      <4> DEFINE i == u - (t - Center) + 1
      <4>1. i \in 1 .. TimeFilter - 1 /\ i \in 1 .. TimeFilter /\ t - Center + i - 1 = u
        BY <1>1
      <4> HIDE DEF i
      <4>2. maxima[i][f] = Highest(row[u], f)
        BY <1>2, <2>1, <4>1
      <4>3. QED
        BY <3>1, <4>1, <4>2
    <3>2. ASSUME \A u \in t - Center .. t + Center - 1 : Highest(row[u], f) <= value,
                 NEW i \in 1 .. TimeFilter - 1
          PROVE  maxima[i][f] <= value
      <4>1. i \in 1 .. TimeFilter /\ t - Center + i - 1 \in t - Center .. t + Center - 1
        BY <1>1
      <4>2. maxima[i][f] = Highest(row[t - Center + i - 1], f)
        BY <1>2, <2>1, <4>1
      <4>3. QED
        BY <3>2, <4>1, <4>2
    <3>3. QED
      BY <3>1, <3>2
  <2> HIDE DEF f
  <2>4. window[Center + 1][f] = value
    BY <1>3
  <2>5. IsEvent(window, maxima, f) <=>
            value # 0 /\ Highest(row[t], f) = value /\ \A i \in 1 .. TimeFilter - 1 : maxima[i][f] <= value
    BY <2>2, <2>4 DEF IsEvent
  <2>6. IsPeak(row, t, f) <=>
            value # 0 /\ value = Highest(row[t], f) /\ \A u \in t - Center .. t + Center - 1 : Highest(row[u], f) <= value
    BY DEF IsPeak
  <2>7. IsEvent(window, maxima, f) <=> IsPeak(row, t, f)
    <3> HIDE DEF value
    <3>1. QED
      BY <2>3, <2>5, <2>6
  <2>8. Around(window, f) = Surround(row, t, f)
    BY <1>3 DEF Around, Surround
  <2>9. EventAt(window, f, t) = [t |-> t, f |-> f, magnitude |-> Surround(row, t, f)]
    BY <2>8 DEF EventAt
  <2>10. QED
    BY <2>7, <2>9 DEF f
<1>5. [n \in 1 .. BandCount - 3 |-> EventAt(window, n + 1, t)]
      = [m \in 1 .. BandCount - 3 |-> [t |-> t, f |-> m + 1, magnitude |-> Surround(row, t, m + 1)]]
  BY <1>4
<1>6. { n \in 1 .. BandCount - 3 : IsEvent(window, maxima, n + 1) }
      = { m \in 1 .. BandCount - 3 : IsPeak(row, t, m + 1) }
  BY <1>4
<1>7. QED
  BY <1>5, <1>6 DEF EventsOf, PeaksOf

\* There is one way to pick.
LEMMA PicksAreUnique ==
    ASSUME NEW n \in Nat, NEW chosen, NEW at, NEW m \in Nat, Picks(at, m, n, chosen),
           NEW to, NEW l \in Nat, Picks(to, l, n, chosen)
    PROVE  m = l /\ \A x \in 1 .. m : at[x] = to[x]
<1> DEFINE S == { i \in 1 .. n : i \in chosen }
           less == Earlier(n)
<1>1. IsStrict(S, less)
  BY EarlierIsStrict
<1>2. \A x, y \in 1 .. n : x < y => <<x, y>> \in less
  BY DEF Earlier
<1>3. IsEnumeration(at, m, S, less)
  BY <1>2 DEF Picks, IsEnumeration
<1>4. IsEnumeration(to, l, S, less)
  BY <1>2 DEF Picks, IsEnumeration
<1> HIDE DEF S, less
<1>5. QED
  BY <1>1, <1>3, <1>4, EnumerationIsUnique

\* The events that may stand next to an event in a landmark.
Followers(queue, i) == { j \in i + 1 .. Len(queue) : IsNext(queue[i], queue[j]) }

LEMMA NextsArePicked ==
    ASSUME NEW queue \in Seq(Events), NEW i \in 1 .. Len(queue)
    PROVE  /\ Nexts(queue, i) \in Seq(1 .. Len(queue))
           /\ Picks(Nexts(queue, i), Len(Nexts(queue, i)), Len(queue), Followers(queue, i))
<1> DEFINE n == Len(queue) - i
           s == [k \in 1 .. n |-> i + k]
           chosen == { k \in 1 .. n : IsNext(queue[i], queue[i + k]) }
           v == Nexts(queue, i)
<1>1. n \in Nat /\ Len(s) = n /\ \A k \in 1 .. n : s[k] = i + k /\ i + k \in i + 1 .. Len(queue) /\ i + k \in 1 .. Len(queue)
  OBVIOUS
<1>2. v = ElementsAt(s, chosen)
  BY DEF Nexts
<1>3. \A k \in chosen : k \in 1 .. n /\ i + k \in Followers(queue, i)
  BY <1>1 DEF Followers
<1>4. ASSUME NEW j \in Followers(queue, i) PROVE j - i \in chosen /\ j - i \in 1 .. n /\ i + (j - i) = j
  <2>1. j \in i + 1 .. Len(queue) /\ IsNext(queue[i], queue[j])
    BY DEF Followers
  <2>2. j - i \in 1 .. n /\ i + (j - i) = j
    BY <2>1
  <2>3. IsNext(queue[i], queue[i + (j - i)])
    BY <2>1, <2>2
  <2>4. QED
    BY <2>2, <2>3
<1> HIDE DEF s, chosen, v, n
<1>5. v \in Seq(1 .. Len(queue)) /\ \E at : IsSelection(at, n, chosen, s, v)
  <2>1. \A k \in 1 .. Len(s) : k \in chosen => s[k] \in 1 .. Len(queue)
    BY <1>1
  <2>2. QED
    BY <1>1, <1>2, <2>1, ElementsAtAreElements
<1>6. PICK at : IsSelection(at, n, chosen, s, v)
  BY <1>5
<1>7. /\ \A k \in 1 .. Len(v) : at[k] \in 1 .. n /\ at[k] \in chosen /\ v[k] = s[at[k]]
      /\ \A k, l \in 1 .. Len(v) : k < l => at[k] < at[l]
      /\ \A j \in 1 .. n : j \in chosen => \E k \in 1 .. Len(v) : at[k] = j
  BY <1>6 DEF IsSelection
<1>8. \A k \in 1 .. Len(v) : v[k] = i + at[k] /\ v[k] \in Followers(queue, i) /\ v[k] \in 1 .. Len(queue)
  BY <1>1, <1>3, <1>7
<1>9. \A k, l \in 1 .. Len(v) : k < l => v[k] < v[l]
  <2> TAKE k, l \in 1 .. Len(v)
  <2> HAVE k < l
  <2>1. at[k] < at[l] /\ at[k] \in 1 .. n /\ at[l] \in 1 .. n
    BY <1>7
  <2>2. at[k] \in Nat /\ at[l] \in Nat
    BY <1>1, <2>1
  <2>3. i + at[k] < i + at[l]
    BY <2>1, <2>2
  <2>4. QED
    BY <1>8, <2>3
<1>10. ASSUME NEW j \in 1 .. Len(queue), j \in Followers(queue, i) PROVE \E k \in 1 .. Len(v) : v[k] = j
  <2>1. PICK k \in 1 .. Len(v) : at[k] = j - i
    BY <1>4, <1>7, <1>10
  <2>2. v[k] = j
    BY <1>4, <1>8, <1>10, <2>1
  <2>3. QED
    BY <2>2
<1>11. Picks(v, Len(v), Len(queue), Followers(queue, i))
  BY <1>8, <1>9, <1>10 DEF Picks
<1>12. QED
  BY <1>5, <1>11 DEF v

\* A queue is a part of a list of events, after the first ones.
IsView(queue, all, gone) ==
    /\ queue \in Seq(Events) /\ all \in Seq(Events) /\ gone \in Nat
    /\ gone + Len(queue) <= Len(all)
    /\ \A m \in 1 .. Len(queue) : queue[m] = all[gone + m]

\* No event after the queue stands next to the queue's j-th.
NoneAfter(queue, all, gone, j) ==
    \A l \in gone + Len(queue) + 1 .. Len(all) : ~IsNext(queue[j], all[l])

\* Such an event has the same followers in the queue and in all.
LEMMA NextsInView ==
    ASSUME NEW queue, NEW all, NEW gone, IsView(queue, all, gone),
           NEW i \in 1 .. Len(queue), NoneAfter(queue, all, gone, i)
    PROVE  /\ Len(Nexts(all, gone + i)) = Len(Nexts(queue, i))
           /\ \A k \in 1 .. Len(Nexts(queue, i)) : Nexts(all, gone + i)[k] = gone + Nexts(queue, i)[k]
<1> DEFINE v == Nexts(queue, i)
           m == Len(v)
           w == Nexts(all, gone + i)
           g == [k \in 1 .. m |-> gone + v[k]]
<1>1. /\ queue \in Seq(Events) /\ all \in Seq(Events) /\ gone \in Nat
      /\ Len(queue) \in Nat /\ Len(all) \in Nat /\ gone + Len(queue) <= Len(all)
      /\ \A l \in 1 .. Len(queue) : queue[l] = all[gone + l]
      /\ gone + i \in 1 .. Len(all)
  BY DEF IsView
<1>2. v \in Seq(1 .. Len(queue)) /\ Picks(v, m, Len(queue), Followers(queue, i)) /\ m \in Nat
  <2>1. v \in Seq(1 .. Len(queue)) /\ Picks(v, m, Len(queue), Followers(queue, i))
    BY <1>1, NextsArePicked
  <2> HIDE DEF v
  <2>2. QED
    BY <2>1
<1>3. w \in Seq(1 .. Len(all)) /\ Picks(w, Len(w), Len(all), Followers(all, gone + i)) /\ Len(w) \in Nat
  <2>1. w \in Seq(1 .. Len(all)) /\ Picks(w, Len(w), Len(all), Followers(all, gone + i))
    BY <1>1, NextsArePicked
  <2> HIDE DEF w
  <2>2. QED
    BY <2>1
<1>4. \A k \in 1 .. m : g[k] = gone + v[k]
  OBVIOUS
<1> HIDE DEF v, m, w, g
<1>5. /\ \A k \in 1 .. m : v[k] \in 1 .. Len(queue) /\ v[k] \in Followers(queue, i)
      /\ \A k, l \in 1 .. m : k < l => v[k] < v[l]
      /\ \A j \in 1 .. Len(queue) : j \in Followers(queue, i) => \E k \in 1 .. m : v[k] = j
  BY <1>2 DEF Picks
<1>6. \A j \in 1 .. Len(queue) : j \in Followers(queue, i) <=> gone + j \in Followers(all, gone + i)
  <2> TAKE j \in 1 .. Len(queue)
  <2>1. j \in i + 1 .. Len(queue) <=> gone + j \in (gone + i) + 1 .. Len(all)
    BY <1>1
  <2>2. queue[j] = all[gone + j] /\ queue[i] = all[gone + i]
    BY <1>1
  <2>3. QED
    BY <2>1, <2>2 DEF Followers
<1>7. ASSUME NEW l \in Followers(all, gone + i)
      PROVE  l - gone \in 1 .. Len(queue) /\ gone + (l - gone) = l
  <2>1. l \in (gone + i) + 1 .. Len(all) /\ IsNext(all[gone + i], all[l])
    BY DEF Followers
  <2>2. queue[i] = all[gone + i]
    BY <1>1
  <2>3. ~(l \in gone + Len(queue) + 1 .. Len(all))
    BY <2>1, <2>2 DEF NoneAfter
  <2>4. QED
    BY <1>1, <2>1, <2>3
<1>8. \A k \in 1 .. m : g[k] \in 1 .. Len(all) /\ g[k] \in Followers(all, gone + i)
  <2> TAKE k \in 1 .. m
  <2>1. v[k] \in 1 .. Len(queue) /\ v[k] \in Followers(queue, i) /\ g[k] = gone + v[k]
    BY <1>4, <1>5
  <2>2. gone + v[k] \in 1 .. Len(all)
    BY <1>1, <2>1
  <2>3. QED
    BY <1>6, <2>1, <2>2
<1>9. \A k, l \in 1 .. m : k < l => g[k] < g[l]
  <2> TAKE k, l \in 1 .. m
  <2> HAVE k < l
  <2>1. v[k] < v[l] /\ v[k] \in 1 .. Len(queue) /\ v[l] \in 1 .. Len(queue)
    BY <1>5
  <2>2. gone + v[k] < gone + v[l]
    BY <1>1, <2>1
  <2>3. QED
    BY <1>4, <2>2
<1>10. ASSUME NEW j \in 1 .. Len(all), j \in Followers(all, gone + i) PROVE \E k \in 1 .. m : g[k] = j
  <2>1. j - gone \in 1 .. Len(queue) /\ gone + (j - gone) = j
    BY <1>7, <1>10
  <2>2. j - gone \in Followers(queue, i)
    BY <1>6, <1>10, <2>1
  <2>3. PICK k \in 1 .. m : v[k] = j - gone
    BY <1>5, <2>1, <2>2
  <2>4. QED
    BY <1>4, <2>1, <2>3
<1>11. Picks(g, m, Len(all), Followers(all, gone + i))
  BY <1>8, <1>9, <1>10 DEF Picks
<1>12. m = Len(w) /\ \A k \in 1 .. m : g[k] = w[k]
  BY <1>1, <1>2, <1>3, <1>11, PicksAreUnique
<1>13. QED
  BY <1>4, <1>12 DEF v, m, w

\* The fingerprints that three events of a list could give.
PrintsOf(all) ==
    { Fingerprint(all[p[1]], all[p[2]], all[p[3]]) :
          p \in (1 .. Len(all)) \X (1 .. Len(all)) \X (1 .. Len(all)) }

\* The landmarks that begin with the i-th event and go on with the j-th.
Pairs(queue, i, j) ==
    [n \in 1 .. Len(Nexts(queue, j)) |->
        Fingerprint(queue[i], queue[j], queue[Nexts(queue, j)[n]])]

Seconds(queue, i) == [n \in 1 .. Len(Nexts(queue, i)) |-> Pairs(queue, i, Nexts(queue, i)[n])]

LEMMA PairsAreTyped ==
    ASSUME NEW queue \in Seq(Events), NEW i \in 1 .. Len(queue), NEW j \in 1 .. Len(queue)
    PROVE  /\ Pairs(queue, i, j) \in Seq(PrintsOf(queue))
           /\ Len(Pairs(queue, i, j)) = Len(Nexts(queue, j))
           /\ \A n \in 1 .. Len(Nexts(queue, j)) :
                  Pairs(queue, i, j)[n] = Fingerprint(queue[i], queue[j], queue[Nexts(queue, j)[n]])
<1> DEFINE v == Nexts(queue, j)
           T == PrintsOf(queue)
           m == Len(v)
           s == [n \in 1 .. m |-> Fingerprint(queue[i], queue[j], queue[v[n]])]
<1>1. v \in Seq(1 .. Len(queue))
  BY NextsArePicked
<1>2. Pairs(queue, i, j) = s
  BY DEF Pairs
<1> HIDE DEF v
<1>3. m \in Nat /\ \A n \in 1 .. m : v[n] \in 1 .. Len(queue)
  BY <1>1, LenProperties, ElementOfSeq
<1>4. \A n \in 1 .. m : Fingerprint(queue[i], queue[j], queue[v[n]]) \in T
  <2> TAKE n \in 1 .. m
  <2> DEFINE p == <<i, j, v[n]>>
  <2>1. p \in (1 .. Len(queue)) \X (1 .. Len(queue)) \X (1 .. Len(queue)) /\ p[1] = i /\ p[2] = j /\ p[3] = v[n]
    BY <1>3
  <2> HIDE DEF p
  <2>2. QED
    BY <2>1 DEF PrintsOf
<1>5. \A n \in 1 .. m : s[n] = Fingerprint(queue[i], queue[j], queue[v[n]])
  OBVIOUS
<1> HIDE DEF T, m
<1>6. s \in [1 .. m -> T]
  BY <1>4
<1> HIDE DEF s
<1>7. s \in Seq(T) /\ Len(s) = m
  BY <1>3, <1>6
<1>8. QED
  BY <1>2, <1>5, <1>7 DEF T, m, v

LEMMA LandmarksAreFlat ==
    ASSUME NEW queue \in Seq(Events), NEW i \in 1 .. Len(queue)
    PROVE  /\ Landmarks(queue, i) = Flat(Seconds(queue, i), Len(Nexts(queue, i)))
           /\ \A n \in 1 .. Len(Nexts(queue, i)) :
                  /\ Seconds(queue, i)[n] = Pairs(queue, i, Nexts(queue, i)[n])
                  /\ Seconds(queue, i)[n] \in Seq(PrintsOf(queue))
           /\ Landmarks(queue, i) \in Seq(PrintsOf(queue))
<1> DEFINE v == Nexts(queue, i)
           m == Len(v)
           Thirds(j) == LET thirds == Nexts(queue, j)
                        IN  [n \in DOMAIN thirds |-> Fingerprint(queue[i], queue[j], queue[thirds[n]])]
<1>1. v \in Seq(1 .. Len(queue))
  BY NextsArePicked
<1>2. m \in Nat /\ DOMAIN v = 1 .. m /\ \A n \in 1 .. m : v[n] \in 1 .. Len(queue)
  <2> HIDE DEF v
  <2>1. QED
    BY <1>1, LenProperties, ElementOfSeq
<1>3. \A j \in 1 .. Len(queue) : Thirds(j) = Pairs(queue, i, j)
  <2> TAKE j \in 1 .. Len(queue)
  <2>1. Nexts(queue, j) \in Seq(1 .. Len(queue))
    BY NextsArePicked
  <2>2. DOMAIN Nexts(queue, j) = 1 .. Len(Nexts(queue, j))
    BY <2>1, LenProperties
  <2>3. QED
    BY <2>2 DEF Pairs
<1>4. Landmarks(queue, i) = FlattenSeq([n \in DOMAIN v |-> Thirds(v[n])])
  BY DEF Landmarks
<1>5. \A n \in 1 .. m : /\ Seconds(queue, i)[n] = Pairs(queue, i, v[n])
                        /\ Seconds(queue, i)[n] \in Seq(PrintsOf(queue))
  <2> TAKE n \in 1 .. m
  <2>1. Seconds(queue, i)[n] = Pairs(queue, i, v[n])
    BY DEF Seconds
  <2>2. v[n] \in 1 .. Len(queue)
    BY <1>2
  <2> HIDE DEF v
  <2>3. Pairs(queue, i, v[n]) \in Seq(PrintsOf(queue))
    BY <2>2, PairsAreTyped
  <2>4. QED
    BY <2>1, <2>3
<1> HIDE DEF v, m, Thirds
<1>6. [n \in DOMAIN v |-> Thirds(v[n])] = [n \in 1 .. m |-> Seconds(queue, i)[n]]
  BY <1>2, <1>3, <1>5
<1>7. Landmarks(queue, i) = Flat(Seconds(queue, i), m)
  BY <1>4, <1>6 DEF Flat
<1>8. Flat(Seconds(queue, i), m) \in Seq(PrintsOf(queue))
  BY <1>2, <1>5, FlatGrows
<1>9. QED
  BY <1>5, <1>7, <1>8 DEF v, m

\* Events with no followers outside of the queue have their landmarks in it.
LEMMA PairsInView ==
    ASSUME NEW queue, NEW all, NEW gone, IsView(queue, all, gone),
           NEW i \in 1 .. Len(queue), NEW j \in 1 .. Len(queue), NoneAfter(queue, all, gone, j)
    PROVE  Pairs(queue, i, j) = Pairs(all, gone + i, gone + j)
<1>1. /\ queue \in Seq(Events) /\ all \in Seq(Events)
      /\ \A m \in 1 .. Len(queue) : queue[m] = all[gone + m]
  BY DEF IsView
<1>2. /\ Len(Nexts(all, gone + j)) = Len(Nexts(queue, j))
      /\ \A k \in 1 .. Len(Nexts(queue, j)) : Nexts(all, gone + j)[k] = gone + Nexts(queue, j)[k]
  BY NextsInView
<1>3. Nexts(queue, j) \in Seq(1 .. Len(queue))
  BY <1>1, NextsArePicked
<1>4. \A k \in 1 .. Len(Nexts(queue, j)) : Nexts(queue, j)[k] \in 1 .. Len(queue)
  BY <1>3, ElementOfSeq
<1>5. \A k \in 1 .. Len(Nexts(queue, j)) :
          Fingerprint(queue[i], queue[j], queue[Nexts(queue, j)[k]])
          = Fingerprint(all[gone + i], all[gone + j], all[Nexts(all, gone + j)[k]])
  <2> TAKE k \in 1 .. Len(Nexts(queue, j))
  <2>1. queue[i] = all[gone + i] /\ queue[j] = all[gone + j]
    BY <1>1
  <2>2. queue[Nexts(queue, j)[k]] = all[gone + Nexts(queue, j)[k]]
    BY <1>1, <1>4
  <2>3. Nexts(all, gone + j)[k] = gone + Nexts(queue, j)[k]
    BY <1>2
  <2>4. QED
    BY <2>1, <2>2, <2>3
<1>6. QED
  BY <1>2, <1>5 DEF Pairs

\* An event of the queue begins the same landmarks in the queue and in the list.
LEMMA LandmarksInView ==
    ASSUME NEW queue, NEW all, NEW gone, IsView(queue, all, gone),
           NEW i \in 1 .. Len(queue), NoneAfter(queue, all, gone, i),
           \A j \in 1 .. Len(queue) : IsNext(queue[i], queue[j]) => NoneAfter(queue, all, gone, j)
    PROVE  Landmarks(queue, i) = Landmarks(all, gone + i)
<1> DEFINE v == Nexts(queue, i)
           w == Nexts(all, gone + i)
<1>1. /\ queue \in Seq(Events) /\ all \in Seq(Events) /\ gone + i \in 1 .. Len(all)
  BY DEF IsView
<1>2. Len(w) = Len(v) /\ \A k \in 1 .. Len(v) : w[k] = gone + v[k]
  BY NextsInView
<1>3. v \in Seq(1 .. Len(queue)) /\ Picks(v, Len(v), Len(queue), Followers(queue, i))
  BY <1>1, NextsArePicked
<1>4. /\ Landmarks(queue, i) = Flat(Seconds(queue, i), Len(v))
      /\ \A n \in 1 .. Len(v) : Seconds(queue, i)[n] = Pairs(queue, i, v[n])
  BY <1>1, LandmarksAreFlat
<1>5. /\ Landmarks(all, gone + i) = Flat(Seconds(all, gone + i), Len(w))
      /\ \A n \in 1 .. Len(w) : Seconds(all, gone + i)[n] = Pairs(all, gone + i, w[n])
  BY <1>1, LandmarksAreFlat
<1> HIDE DEF v, w
<1>6. \A n \in 1 .. Len(v) : Seconds(queue, i)[n] = Seconds(all, gone + i)[n]
  <2> TAKE n \in 1 .. Len(v)
  <2>1. v[n] \in 1 .. Len(queue) /\ v[n] \in Followers(queue, i)
    BY <1>3 DEF Picks
  <2>2. NoneAfter(queue, all, gone, v[n])
    BY <2>1 DEF Followers
  <2>3. Pairs(queue, i, v[n]) = Pairs(all, gone + i, gone + v[n])
    BY <2>1, <2>2, PairsInView
  <2>4. QED
    BY <1>2, <1>4, <1>5, <2>3
<1>7. Flat(Seconds(queue, i), Len(v)) = Flat(Seconds(all, gone + i), Len(v))
  BY <1>6, FlatIsSame
<1>8. QED
  BY <1>2, <1>4, <1>5, <1>7

\* The landmarks that begin with each event.
AllLandmarks(queue) == [i \in 1 .. Len(queue) |-> Landmarks(queue, i)]

\* What pack_first gives is theirs, put together.
LEMMA PackIsFlat ==
    ASSUME NEW queue \in Seq(Events), NEW n \in 0 .. Len(queue)
    PROVE  /\ PackFirst(queue, n) = Flat(AllLandmarks(queue), n)
           /\ PackFirst(queue, n) \in Seq(PrintsOf(queue))
           /\ \A i \in 1 .. Len(queue) : /\ AllLandmarks(queue)[i] = Landmarks(queue, i)
                                         /\ AllLandmarks(queue)[i] \in Seq(PrintsOf(queue))
<1>1. n \in Nat /\ \A i \in 1 .. n : i \in 1 .. Len(queue)
  OBVIOUS
<1>2. \A i \in 1 .. Len(queue) : /\ AllLandmarks(queue)[i] = Landmarks(queue, i)
                                 /\ AllLandmarks(queue)[i] \in Seq(PrintsOf(queue))
  <2> TAKE i \in 1 .. Len(queue)
  <2>1. AllLandmarks(queue)[i] = Landmarks(queue, i)
    BY DEF AllLandmarks
  <2>2. Landmarks(queue, i) \in Seq(PrintsOf(queue))
    BY LandmarksAreFlat
  <2>3. QED
    BY <2>1, <2>2
<1>3. [i \in 1 .. n |-> Landmarks(queue, i)] = [i \in 1 .. n |-> AllLandmarks(queue)[i]]
  BY <1>1, <1>2
<1>4. PackFirst(queue, n) = Flat(AllLandmarks(queue), n)
  BY <1>3 DEF PackFirst, Flat
<1>5. Flat(AllLandmarks(queue), n) \in Seq(PrintsOf(queue))
  <2>1. \A i \in 1 .. n : AllLandmarks(queue)[i] \in Seq(PrintsOf(queue))
    BY <1>1, <1>2
  <2>2. QED
    BY <1>1, <2>1, FlatGrows
<1>6. QED
  BY <1>2, <1>4, <1>5

\* What the queue gives comes after what was given before.
LEMMA PackGoesOn ==
    ASSUME NEW queue, NEW all, NEW gone, IsView(queue, all, gone), NEW due \in 0 .. Len(queue),
           \A i \in 1 .. due : Landmarks(queue, i) = Landmarks(all, gone + i)
    PROVE  PackFirst(all, gone + due) = PackFirst(all, gone) \o PackFirst(queue, due)
<1> DEFINE g == AllLandmarks(all)
           T == PrintsOf(all)
           h == [i \in 1 .. due |-> g[gone + i]]
<1>1. /\ queue \in Seq(Events) /\ all \in Seq(Events) /\ gone \in Nat /\ due \in Nat
      /\ gone \in 0 .. Len(all) /\ gone + due \in 0 .. Len(all)
      /\ \A i \in 1 .. gone + due : i \in 1 .. Len(all)
      /\ \A i \in 1 .. due : i \in 1 .. Len(queue) /\ gone + i \in 1 .. Len(all)
  BY DEF IsView
<1>2. PackFirst(all, gone + due) = Flat(g, gone + due) /\ PackFirst(all, gone) = Flat(g, gone)
      /\ \A i \in 1 .. Len(all) : g[i] = Landmarks(all, i) /\ g[i] \in Seq(T)
  BY <1>1, PackIsFlat
<1>3. PackFirst(queue, due) = Flat(AllLandmarks(queue), due)
      /\ \A i \in 1 .. Len(queue) : AllLandmarks(queue)[i] = Landmarks(queue, i)
  BY <1>1, PackIsFlat
<1>4. \A i \in 1 .. due : h[i] = g[gone + i]
  OBVIOUS
<1> HIDE DEF g, T, h
<1>5. Flat(g, gone + due) = Flat(g, gone) \o Flat(h, due)
  <2>1. \A i \in 1 .. gone + due : g[i] \in Seq(T)
    BY <1>1, <1>2
  <2>2. gone \in Nat /\ due \in Nat
    BY <1>1
  <2>3. GoesOn(T, g, gone, due, h)
    BY <1>4, <2>1, <2>2 DEF GoesOn
  <2>4. QED
    BY <2>3, FlatOfTwo
<1>6. Flat(h, due) = Flat(AllLandmarks(queue), due)
  <2>1. \A i \in 1 .. due : h[i] = AllLandmarks(queue)[i]
    <3> TAKE i \in 1 .. due
    <3>1. h[i] = Landmarks(all, gone + i)
      BY <1>1, <1>2, <1>4
    <3>2. AllLandmarks(queue)[i] = Landmarks(queue, i)
      BY <1>1, <1>3
    <3>3. QED
      BY <3>1, <3>2
  <2>2. QED
    BY <2>1, FlatIsSame
<1>7. QED
  BY <1>2, <1>3, <1>5, <1>6

\* What the first events give is the beginning of what all give.
LEMMA PackIsPrefix ==
    ASSUME NEW all \in Seq(Events), NEW gone \in 0 .. Len(all)
    PROVE  IsPrefix(PackFirst(all, gone), PackFirst(all, Len(all)))
<1> DEFINE g == AllLandmarks(all)
           T == PrintsOf(all)
           rest == Len(all) - gone
           h == [i \in 1 .. rest |-> g[gone + i]]
           x == Flat(g, gone)
           y == Flat(h, rest)
<1>1. /\ gone \in Nat /\ rest \in Nat /\ gone + rest = Len(all) /\ Len(all) \in 0 .. Len(all)
      /\ \A i \in 1 .. rest : gone + i \in 1 .. Len(all)
      /\ \A i \in 1 .. gone : i \in 1 .. Len(all)
  OBVIOUS
<1>2. PackFirst(all, Len(all)) = Flat(g, Len(all)) /\ PackFirst(all, gone) = x
      /\ \A i \in 1 .. Len(all) : g[i] \in Seq(T)
  BY <1>1, PackIsFlat
<1>3. \A i \in 1 .. rest : h[i] = g[gone + i]
  OBVIOUS
<1> HIDE DEF g, T, rest, h
<1>4. Flat(g, gone + rest) = x \o y
  <2>1. \A i \in 1 .. gone + rest : g[i] \in Seq(T)
    BY <1>1, <1>2
  <2>2. gone \in Nat /\ rest \in Nat
    BY <1>1
  <2>3. GoesOn(T, g, gone, rest, h)
    BY <1>3, <2>1, <2>2 DEF GoesOn
  <2>4. QED
    BY <2>3, FlatOfTwo
<1>5. x \in Seq(T) /\ y \in Seq(T)
  <2>1. \A i \in 1 .. gone : g[i] \in Seq(T)
    BY <1>1, <1>2
  <2>2. \A i \in 1 .. rest : h[i] \in Seq(T)
    BY <1>1, <1>2, <1>3
  <2>3. QED
    BY <1>1, <2>1, <2>2, FlatGrows
<1> HIDE DEF x, y
<1>6. IsPrefix(x, x \o y)
  <2> DEFINE z == x \o y
             n == Len(x)
  <2>1. /\ z \in Seq(T) /\ Len(z) = n + Len(y) /\ n \in Nat /\ Len(y) \in Nat
        /\ \A i \in 1 .. n : z[i] = x[i]
    <3>1. /\ x \o y \in Seq(T) /\ Len(x \o y) = Len(x) + Len(y)
          /\ \A i \in 1 .. Len(x) + Len(y) : (x \o y)[i] = IF i <= Len(x) THEN x[i] ELSE y[i - Len(x)]
      BY <1>5, ConcatProperties
    <3>2. Len(x) \in Nat /\ Len(y) \in Nat
      BY <1>5
    <3>3. \A i \in 1 .. Len(x) : i \in 1 .. Len(x) + Len(y) /\ i <= Len(x)
      BY <3>2
    <3>4. QED
      BY <3>1, <3>2, <3>3
  <2> HIDE DEF z
  <2>2. SubSeq(x, 1, n) \in Seq(T) /\ Len(SubSeq(x, 1, n)) = n /\ \A i \in 1 .. n : SubSeq(x, 1, n)[i] = x[i]
    BY <1>5, <2>1
  <2>3. SubSeq(z, 1, n) \in Seq(T) /\ Len(SubSeq(z, 1, n)) = n /\ \A i \in 1 .. n : SubSeq(z, 1, n)[i] = z[i]
    BY <2>1
  <2>4. SubSeq(x, 1, n) = SubSeq(z, 1, n)
    BY <2>1, <2>2, <2>3, SameLists
  <2>5. n <= Len(z)
    BY <2>1
  <2>6. QED
    BY <2>4, <2>5 DEF IsPrefix, z
<1>7. QED
  BY <1>1, <1>2, <1>4, <1>6

\* The exhaustive search finds what the queues of neighbours give.
LEMMA WholeIsPacked ==
    ASSUME WholeEvents \in Seq(Events)
    PROVE  Whole = PackFirst(WholeEvents, Len(WholeEvents))
<1> DEFINE all == WholeEvents
           n == Len(all)
           T == PrintsOf(all)
           Third(i, j, k) == IF k <= j \/ ~IsNext(all[j], all[k]) THEN <<>>
                             ELSE <<Fingerprint(all[i], all[j], all[k])>>
           Thirds(i, j) == [k \in 1 .. n |-> Third(i, j, k)]
           Second(i, j) == IF j <= i \/ ~IsNext(all[i], all[j]) THEN <<>>
                           ELSE FlattenSeq(Thirds(i, j))
           Search(i) == [j \in 1 .. n |-> Second(i, j)]
<1>1. Whole = FlattenSeq([i \in 1 .. n |-> FlattenSeq(Search(i))])
  BY DEF Whole
<1>2. all \in Seq(Events) /\ n \in Nat
  OBVIOUS
<1>3. \A i, j \in 1 .. n : j \in Followers(all, i) <=> ~(j <= i \/ ~IsNext(all[i], all[j]))
  <2> HIDE DEF all
  <2> TAKE i, j \in 1 .. n
  <2>1. j \in i + 1 .. n <=> ~(j <= i)
    BY <1>2
  <2>2. QED
    BY <2>1 DEF Followers
<1>4. \A i, j, k \in 1 .. n : Thirds(i, j)[k] = Third(i, j, k) /\ Search(i)[j] = Second(i, j)
  OBVIOUS
<1>5. \A i, j : Flat(Thirds(i, j), n) = FlattenSeq(Thirds(i, j)) /\ Flat(Search(i), n) = FlattenSeq(Search(i))
  <2>1. \A i, j : [k \in 1 .. n |-> Thirds(i, j)[k]] = Thirds(i, j)
    OBVIOUS
  <2>2. \A i : [k \in 1 .. n |-> Search(i)[k]] = Search(i)
    OBVIOUS
  <2> HIDE DEF Thirds, Search
  <2>3. QED
    BY <2>1, <2>2 DEF Flat
<1>6. ASSUME NEW i \in 1 .. n, NEW j \in 1 .. n, NEW k \in 1 .. n
      PROVE  /\ Third(i, j, k) \in Seq(T)
             /\ k \notin Followers(all, j) => Third(i, j, k) = <<>>
             /\ k \in Followers(all, j) => Third(i, j, k) = <<Fingerprint(all[i], all[j], all[k])>>
             /\ j \notin Followers(all, i) => Second(i, j) = <<>>
             /\ j \in Followers(all, i) => Second(i, j) = FlattenSeq(Thirds(i, j))
  <2>1. Fingerprint(all[i], all[j], all[k]) \in T
    <3> DEFINE p == <<i, j, k>>
    <3>1. p \in (1 .. n) \X (1 .. n) \X (1 .. n) /\ p[1] = i /\ p[2] = j /\ p[3] = k
      OBVIOUS
    <3> HIDE DEF p
    <3>2. QED
      BY <3>1 DEF PrintsOf
  <2> HIDE DEF T, n, all
  <2>2. k \notin Followers(all, j) => Third(i, j, k) = <<>>
    BY <1>3
  <2>3. k \in Followers(all, j) => Third(i, j, k) = <<Fingerprint(all[i], all[j], all[k])>>
    BY <1>3
  <2>4. Third(i, j, k) \in Seq(T)
    BY <2>1
  <2>5. /\ j \notin Followers(all, i) => Second(i, j) = <<>>
        /\ j \in Followers(all, i) => Second(i, j) = FlattenSeq(Thirds(i, j))
    <3> HIDE DEF Thirds
    <3>1. QED
      BY <1>3
  <2>6. QED
    BY <2>2, <2>3, <2>4, <2>5
<1> HIDE DEF all, n, T, Third, Thirds, Second, Search
<1> USE DEF n
\* The third events,
<1>7. ASSUME NEW i \in 1 .. n, NEW j \in 1 .. n PROVE FlattenSeq(Thirds(i, j)) = Pairs(all, i, j)
  <2> DEFINE v == Nexts(all, j)
             m == Len(v)
             h == [x \in 1 .. m |-> Thirds(i, j)[v[x]]]
             s == Pairs(all, i, j)
  <2>1. v \in Seq(1 .. n) /\ Picks(v, m, n, Followers(all, j))
    <3>1. j \in 1 .. Len(all) /\ all \in Seq(Events)
      BY <1>2 DEF n
    <3>2. /\ Nexts(all, j) \in Seq(1 .. Len(all))
          /\ Picks(Nexts(all, j), Len(Nexts(all, j)), Len(all), Followers(all, j))
      BY ONLY <3>1, NextsArePicked
    <3>3. QED
      BY ONLY <3>2 DEF n
  <2>2. s \in Seq(T) /\ Len(s) = m /\ \A x \in 1 .. m : s[x] = Fingerprint(all[i], all[j], all[v[x]])
    <3>1. i \in 1 .. Len(all) /\ j \in 1 .. Len(all) /\ all \in Seq(Events)
      BY <1>2 DEF n
    <3>2. /\ Pairs(all, i, j) \in Seq(PrintsOf(all)) /\ Len(Pairs(all, i, j)) = Len(Nexts(all, j))
          /\ \A x \in 1 .. Len(Nexts(all, j)) :
                 Pairs(all, i, j)[x] = Fingerprint(all[i], all[j], all[Nexts(all, j)[x]])
      BY ONLY <3>1, PairsAreTyped
    <3>3. QED
      BY ONLY <3>2 DEF T
  <2>3. \A x \in 1 .. m : h[x] = Thirds(i, j)[v[x]]
    OBVIOUS
  <2> HIDE DEF v, m, s
  <2>4. m \in Nat /\ \A x \in 1 .. m : v[x] \in 1 .. n /\ v[x] \in Followers(all, j)
    <3>1. m \in Nat
      BY <2>2
    <3>2. QED
      BY <2>1, <3>1 DEF Picks
  <2> HIDE DEF h
  <2>5. Flat(Thirds(i, j), n) = Flat(h, m)
    <3> DEFINE g == Thirds(i, j)
               chosen == Followers(all, j)
    <3>1. \A k \in 1 .. n : g[k] \in Seq(T) /\ (k \notin chosen => g[k] = <<>>)
      <4> TAKE k \in 1 .. n
      <4>1. Third(i, j, k) \in Seq(T) /\ (k \notin Followers(all, j) => Third(i, j, k) = <<>>)
        BY <1>6
      <4>2. Thirds(i, j)[k] = Third(i, j, k)
        BY <1>4
      <4>3. QED
        BY ONLY <4>1, <4>2
    <3>2. n \in Nat /\ m \in Nat /\ Picks(v, m, n, chosen)
      BY <1>2, <2>1, <2>4
    <3>3. \A x \in 1 .. m : h[x] = g[v[x]]
      BY <2>3
    <3> HIDE DEF n, g, chosen
    <3>4. Flat(g, n) = Flat(h, m)
      BY ONLY <3>1, <3>2, <3>3, FlatOfPicked
    <3>5. QED
      BY <3>4 DEF g
  <2>6. \A x \in 1 .. m : h[x] = <<s[x]>>
    <3> TAKE x \in 1 .. m
    <3>1. v[x] \in 1 .. n /\ v[x] \in Followers(all, j)
      BY <2>4
    <3>2. Third(i, j, v[x]) = <<Fingerprint(all[i], all[j], all[v[x]])>>
      BY <1>6, <3>1
    <3>3. Thirds(i, j)[v[x]] = Third(i, j, v[x])
      BY <1>4, <3>1
    <3>4. QED
      BY <2>2, <2>3, <3>2, <3>3
  <2>7. Flat(h, m) = s
    BY <2>2, <2>6, FlatOfSingles
  <2>8. QED
    BY <1>5, <2>5, <2>7 DEF s
\* and the second.
<1>8. ASSUME NEW i \in 1 .. n PROVE FlattenSeq(Search(i)) = Landmarks(all, i)
  <2> DEFINE v == Nexts(all, i)
             m == Len(v)
             h == [x \in 1 .. m |-> Search(i)[v[x]]]
  <2>1. v \in Seq(1 .. n) /\ Picks(v, m, n, Followers(all, i))
    <3>1. i \in 1 .. Len(all) /\ all \in Seq(Events)
      BY <1>2 DEF n
    <3>2. /\ Nexts(all, i) \in Seq(1 .. Len(all))
          /\ Picks(Nexts(all, i), Len(Nexts(all, i)), Len(all), Followers(all, i))
      BY ONLY <3>1, NextsArePicked
    <3>3. QED
      BY ONLY <3>2 DEF n
  <2>2. /\ Landmarks(all, i) = Flat(Seconds(all, i), m)
        /\ \A x \in 1 .. m : Seconds(all, i)[x] = Pairs(all, i, v[x])
    BY <1>2, LandmarksAreFlat
  <2>3. \A x \in 1 .. m : h[x] = Search(i)[v[x]]
    OBVIOUS
  <2> HIDE DEF v
  <2>4. m \in Nat /\ \A x \in 1 .. m : v[x] \in 1 .. n /\ v[x] \in Followers(all, i)
    <3>1. m \in Nat
      BY <2>1, LenProperties
    <3> HIDE DEF m
    <3>2. QED
      BY <2>1, <3>1 DEF Picks
  <2> HIDE DEF m
  <2>5. \A j \in 1 .. n : /\ Search(i)[j] \in Seq(T)
                          /\ j \notin Followers(all, i) => Search(i)[j] = <<>>
                          /\ j \in Followers(all, i) => Search(i)[j] = Pairs(all, i, j)
    <3> TAKE j \in 1 .. n
    <3>1. Pairs(all, i, j) \in Seq(T)
      <4>1. i \in 1 .. Len(all) /\ j \in 1 .. Len(all) /\ all \in Seq(Events)
        BY <1>2 DEF n
      <4>2. QED
        BY ONLY <4>1, PairsAreTyped DEF T
    <3>2. <<>> \in Seq(T)
      BY EmptySeq
    <3>3. Search(i)[j] = Second(i, j)
      BY <1>4
    <3>4. /\ j \notin Followers(all, i) => Second(i, j) = <<>>
          /\ j \in Followers(all, i) => Second(i, j) = Pairs(all, i, j)
      BY <1>6, <1>7
    <3>5. QED
      BY <3>1, <3>2, <3>3, <3>4
  <2> HIDE DEF h
  <2>6. Flat(Search(i), n) = Flat(h, m)
    <3> DEFINE g == Search(i)
               chosen == Followers(all, i)
    <3>1. \A j \in 1 .. n : g[j] \in Seq(T) /\ (j \notin chosen => g[j] = <<>>)
      BY <2>5
    <3>2. n \in Nat /\ m \in Nat /\ Picks(v, m, n, chosen)
      BY <1>2, <2>1, <2>4
    <3>3. \A x \in 1 .. m : h[x] = g[v[x]]
      BY <2>3
    <3> HIDE DEF n, g, chosen
    <3>4. Flat(g, n) = Flat(h, m)
      BY ONLY <3>1, <3>2, <3>3, FlatOfPicked
    <3>5. QED
      BY <3>4 DEF g
  <2>7. Flat(h, m) = Flat(Seconds(all, i), m)
    <3>1. \A x \in 1 .. m : h[x] = Seconds(all, i)[x]
      BY <2>2, <2>3, <2>4, <2>5
    <3>2. QED
      BY <3>1, FlatIsSame
  <2>8. QED
    BY <1>5, <2>2, <2>6, <2>7
<1>9. [i \in 1 .. n |-> FlattenSeq(Search(i))] = [i \in 1 .. n |-> Landmarks(all, i)]
  BY <1>8
<1>10. Whole = PackFirst(all, n)
  BY <1>1, <1>9 DEF PackFirst
<1>11. QED
  BY ONLY <1>10 DEF all, n

\* The events of the frames, as lists, and those of the first k of them.
PeakLists == [n \in Nat |-> PeaksOf(WholeRows, n + Center - 1)]
EventsTo(k) == Flat(PeakLists, k)
LastPeaks == Saturated(Frames(SampleCount), 2 * Center)

\* The frames of a decoded file have rows.
LEMMA WholeRowsAreRows ==
    ASSUME file \in Files, SampleCount = file.bytes \div 2
    PROVE  /\ SampleCount \in Nat /\ Frames(SampleCount) \in Nat
           /\ \A t \in 0 .. Frames(SampleCount) - 1 : WholeRows[t] \in Rows
<1>1. SampleCount \in Nat
  <2>1. file.bytes \in Nat
    BY FilesAssumption
  <2>2. QED
    BY <2>1
<1>2. ASSUME NEW t \in 0 .. Frames(SampleCount) - 1 PROVE WholeRows[t] \in Rows
  <2>1. WholeInput.start = 0 /\ WholeInput.stop = SampleCount
    BY DEF WholeInput
  <2>2. RowAt(WholeInput, t) \in [Bands -> Nat]
    BY <1>1, <2>1, RowsAreTyped
  <2>3. WholeRows[t] = RowAt(WholeInput, t)
    BY <1>2 DEF WholeRows, WholeInput
  <2>4. QED
    BY <2>2, <2>3 DEF Rows
<1>3. QED
  BY <1>1, <1>2, FramesAreNatural

\* A frame's events are those that a window of its neighbours yields.
LEMMA PeaksAreEvents ==
    ASSUME file \in Files, SampleCount = file.bytes \div 2, NEW n \in 1 .. LastPeaks
    PROVE  PeakLists[n] \in Seq({ event \in Events : event.t = n + Center - 1 })
<1> DEFINE t == n + Center - 1
           window == [i \in 1 .. TimeFilter |-> WholeRows[t - Center + i - 1]]
           maxima == [i \in 1 .. TimeFilter |-> VerticalMax(window[i])]
<1>1. /\ Center \in Nat /\ Center >= 1 /\ TimeFilter = 2 * Center + 1 /\ TimeFilter \in Nat
      /\ Frames(SampleCount) \in Nat
  BY TimeFilterHasMiddle, WholeRowsAreRows, ExtractAssumption
<1>2. n \in Nat /\ n >= 1 /\ t \in Nat /\ Center <= t /\ n + 2 * Center <= Frames(SampleCount)
  BY <1>1 DEF LastPeaks, Saturated
<1>3. \A i \in 1 .. TimeFilter : t - Center + i - 1 \in 0 .. Frames(SampleCount) - 1
  BY <1>1, <1>2
<1>4. \A i \in 1 .. TimeFilter : window[i] \in Rows /\ window[i] = WholeRows[t - Center + i - 1]
  BY <1>3, WholeRowsAreRows
<1>5. window \in Seq(Rows) /\ Len(window) = TimeFilter
  <2>1. window \in [1 .. TimeFilter -> Rows]
    BY <1>4
  <2> HIDE DEF window
  <2>2. QED
    BY <1>1, <2>1
<1>6. \A i \in 1 .. TimeFilter : maxima[i] = VerticalMax(window[i])
  OBVIOUS
<1>7. PeakLists[n] = PeaksOf(WholeRows, t)
  BY <1>2 DEF PeakLists
<1> HIDE DEF window, maxima, t
<1>8. EventsOf(window, maxima, t) = PeaksOf(WholeRows, t)
  BY <1>2, <1>4, <1>5, <1>6, WindowHasPeaks
<1>9. EventsOf(window, maxima, t) \in Seq({ event \in Events : event.t = t })
  BY <1>2, <1>5, EventsOfAreEvents
<1>10. QED
  BY <1>7, <1>8, <1>9 DEF t

\* The file's events are those of its last frame with a full window.
LEMMA AllEvents ==
    ASSUME file \in Files, SampleCount = file.bytes \div 2
    PROVE  LastPeaks \in Nat /\ WholeEvents = EventsTo(LastPeaks)
<1>1. LastPeaks \in Nat
  BY TimeFilterHasMiddle, WholeRowsAreRows DEF LastPeaks, Saturated
<1>2. \A n \in 1 .. LastPeaks : n \in Nat /\ PeakLists[n] = PeaksOf(WholeRows, n + Center - 1)
  BY <1>1 DEF PeakLists
<1>3. [n \in 1 .. LastPeaks |-> PeakLists[n]] = [n \in 1 .. LastPeaks |-> PeaksOf(WholeRows, n + Center - 1)]
  BY <1>2
<1>4. WholeEvents = FlattenSeq([n \in 1 .. LastPeaks |-> PeaksOf(WholeRows, n + Center - 1)])
  BY DEF WholeEvents, LastPeaks
<1>5. QED
  BY <1>1, <1>3, <1>4 DEF EventsTo, Flat

\* The events of the file are those of its first frames and later ones.
LEMMA EventsGoOn ==
    ASSUME file \in Files, SampleCount = file.bytes \div 2, NEW k \in 0 .. LastPeaks
    PROVE  /\ EventsTo(k) \in Seq(Events) /\ WholeEvents \in Seq(Events)
           /\ Len(EventsTo(k)) <= Len(WholeEvents)
           /\ \A i \in 1 .. Len(EventsTo(k)) : WholeEvents[i] = EventsTo(k)[i]
           /\ \A i \in Len(EventsTo(k)) + 1 .. Len(WholeEvents) : WholeEvents[i].t >= k + Center
<1> DEFINE g == PeakLists
           rest == LastPeaks - k
           h == [i \in 1 .. rest |-> g[k + i]]
           Late == { event \in Events : event.t >= k + Center }
           x == Flat(g, k)
           y == Flat(h, rest)
<1>1. /\ Center \in Nat /\ LastPeaks \in Nat /\ k \in Nat /\ rest \in Nat /\ k + rest = LastPeaks
      /\ \A i \in 1 .. rest : k + i \in 1 .. LastPeaks
      /\ \A i \in 1 .. k : i \in 1 .. LastPeaks
  <2>1. LastPeaks \in Nat /\ Center \in Nat
    BY TimeFilterHasMiddle, WholeRowsAreRows DEF LastPeaks, Saturated
  <2>2. QED
    BY <2>1
<1>2. ASSUME NEW n \in 1 .. LastPeaks PROVE g[n] \in Seq(Events) /\ (n > k => g[n] \in Seq(Late))
  <2> DEFINE T == { event \in Events : event.t = n + Center - 1 }
  <2>1. T \subseteq Events /\ (n > k => T \subseteq Late)
    <3>1. n > k => n + Center - 1 >= k + Center
      BY <1>1
    <3>2. QED
      BY <3>1
  <2>2. g[n] \in Seq(T)
    BY PeaksAreEvents
  <2> HIDE DEF T, Late, g
  <2>3. QED
    BY <2>1, <2>2, SeqMonotonic
<1>3. \A i \in 1 .. rest : h[i] = g[k + i]
  OBVIOUS
<1>4. WholeEvents = Flat(g, LastPeaks)
  BY AllEvents DEF EventsTo
<1> HIDE DEF g, h, rest
<1>5. WholeEvents = x \o y
  <2>1. \A i \in 1 .. k + rest : g[i] \in Seq(Events)
    BY <1>1, <1>2
  <2>2. GoesOn(Events, g, k, rest, h)
    BY <1>1, <1>3, <2>1 DEF GoesOn
  <2>3. Flat(g, k + rest) = x \o y
    BY <2>2, FlatOfTwo
  <2>4. QED
    BY <1>1, <1>4, <2>3
<1>6. x \in Seq(Events) /\ y \in Seq(Late)
  <2>1. \A i \in 1 .. k : g[i] \in Seq(Events)
    BY <1>1, <1>2
  <2>2. \A i \in 1 .. rest : h[i] \in Seq(Late)
    <3>1. \A i \in 1 .. rest : k + i \in 1 .. LastPeaks /\ k + i > k
      BY <1>1
    <3> HIDE DEF Late
    <3>2. QED
      BY <1>2, <1>3, <3>1
  <2> HIDE DEF Late
  <2>3. x \in Seq(Events)
    BY <1>1, <2>1, FlatGrows
  <2>4. y \in Seq(Late)
    BY <1>1, <2>2, FlatGrows
  <2>5. QED
    BY <2>3, <2>4
<1>7. EventsTo(k) = x
  BY DEF EventsTo, g
<1> HIDE DEF x, y
<1>8. y \in Seq(Events) /\ \A i \in 1 .. Len(y) : y[i].t >= k + Center
  <2>1. Late \subseteq Events
    OBVIOUS
  <2> HIDE DEF Late
  <2>2. y \in Seq(Events) /\ \A i \in 1 .. Len(y) : y[i] \in Late
    BY <1>6, <2>1, SeqMonotonic, ElementOfSeq
  <2>3. QED
    BY <2>2 DEF Late
<1>9. /\ x \o y \in Seq(Events) /\ Len(x \o y) = Len(x) + Len(y) /\ Len(x) \in Nat /\ Len(y) \in Nat
      /\ \A i \in 1 .. Len(x) + Len(y) : (x \o y)[i] = IF i <= Len(x) THEN x[i] ELSE y[i - Len(x)]
  <2>1. Len(x) \in Nat /\ Len(y) \in Nat
    BY <1>6, <1>8
  <2>2. QED
    BY <1>6, <1>8, <2>1, ConcatProperties
<1>10. \A i \in 1 .. Len(x) : WholeEvents[i] = x[i]
  <2>1. \A i \in 1 .. Len(x) : i \in 1 .. Len(x) + Len(y) /\ i <= Len(x)
    BY <1>9
  <2>2. QED
    BY <1>5, <1>9, <2>1
<1>11. \A i \in Len(x) + 1 .. Len(x) + Len(y) : WholeEvents[i].t >= k + Center
  <2>1. \A i \in Len(x) + 1 .. Len(x) + Len(y) :
            i \in 1 .. Len(x) + Len(y) /\ ~(i <= Len(x)) /\ i - Len(x) \in 1 .. Len(y)
    BY <1>9
  <2>2. QED
    BY <1>5, <1>8, <1>9, <2>1
<1>12. QED
  <2>1. Len(WholeEvents) = Len(x) + Len(y) /\ WholeEvents \in Seq(Events)
    BY <1>5, <1>9
  <2>2. Len(x) <= Len(WholeEvents)
    BY <1>9, <2>1
  <2>3. QED
    BY <1>6, <1>7, <1>10, <1>11, <2>1, <2>2

\* One more frame.
LEMMA EventsGrow ==
    ASSUME file \in Files, SampleCount = file.bytes \div 2, NEW k \in Nat, k < LastPeaks
    PROVE  EventsTo(k + 1) = EventsTo(k) \o PeakLists[k + 1]
<1>1. LastPeaks \in Nat
  BY TimeFilterHasMiddle, WholeRowsAreRows DEF LastPeaks, Saturated
<1>2. \A i \in 1 .. k : i \in 1 .. LastPeaks
  BY <1>1
<1>3. k + 1 \in 1 .. LastPeaks
  BY <1>1
<1>4. \A n \in 1 .. LastPeaks : PeakLists[n] \in Seq(Events)
  <2> TAKE n \in 1 .. LastPeaks
  <2> DEFINE T == { event \in Events : event.t = n + Center - 1 }
  <2>1. T \subseteq Events
    OBVIOUS
  <2>2. PeakLists[n] \in Seq(T)
    BY PeaksAreEvents
  <2> HIDE DEF T
  <2>3. QED
    BY <2>1, <2>2, SeqMonotonic
<1>5. (\A i \in 1 .. k : PeakLists[i] \in Seq(Events)) /\ PeakLists[k + 1] \in Seq(Events)
  BY <1>2, <1>3, <1>4
<1>6. Flat(PeakLists, k + 1) = Flat(PeakLists, k) \o PeakLists[k + 1]
  BY <1>5, FlatGrows
<1>7. QED
  BY <1>6 DEF EventsTo

\* All events that leave the queue are due.
LEMMA DueAreDue ==
    ASSUME NEW queue, Len(queue) \in Nat, NEW time
    PROVE  \A i \in 1 .. Due(queue, time) : IsDue(queue[i], time)
<1> DEFINE size == Len(queue)
           S == { n \in 0 .. size : \A i \in 1 .. n : IsDue(queue[i], time) }
<1>1. S \in SUBSET (0 .. size) /\ 0 \in S
  OBVIOUS
<1>2. S \in SUBSET Nat /\ IsFiniteSet(S)
  <2>1. 0 \in Int /\ size \in Int
    OBVIOUS
  <2>2. IsFiniteSet(0 .. size)
    BY <2>1, FS_Interval
  <2> HIDE DEF S
  <2>3. IsFiniteSet(S)
    BY <1>1, <2>2, FS_Subset
  <2>4. QED
    BY <1>1, <2>3
<1>3. Max(S) \in S
  <2> HIDE DEF S
  <2>1. QED
    BY <1>1, <1>2, GreatestElement
<1>4. Due(queue, time) = Max(S)
  BY DEF Due
<1>5. QED
  BY <1>3, <1>4

\* What the queue does not have yet comes after this frame.
RestIsLater(queue, all, gone, time) ==
    \A l \in gone + Len(queue) + 1 .. Len(all) : all[l].t > time

\* An event that is due has its landmarks in the queue: what comes later is too
\* far from it and from each second event.
LEMMA DueAreComplete ==
    ASSUME NEW queue, NEW all, NEW gone, IsView(queue, all, gone), NEW time \in Nat,
           RestIsLater(queue, all, gone, time),
           NEW i \in 1 .. Len(queue), IsDue(queue[i], time)
    PROVE  Landmarks(queue, i) = Landmarks(all, gone + i)
<1>1. MaxTime \in Nat /\ MinTime \in Nat
  BY ExtractAssumption
<1>2. \A l \in 1 .. Len(all) : all[l].t \in Nat
  <2>1. all \in Seq(Events)
    BY DEF IsView
  <2>2. \A l \in 1 .. Len(all) : all[l] \in Events
    BY <2>1, ElementOfSeq
  <2>3. QED
    BY <2>2 DEF Events
<1>3. \A j \in 1 .. Len(queue) : queue[j].t \in Nat
  <2>1. queue \in Seq(Events)
    BY DEF IsView
  <2>2. \A l \in 1 .. Len(queue) : queue[l] \in Events
    BY <2>1, ElementOfSeq
  <2>3. QED
    BY <2>2 DEF Events
<1>4. ASSUME NEW j \in 1 .. Len(queue), queue[j].t + MaxTime < time
      PROVE  NoneAfter(queue, all, gone, j)
  <2> SUFFICES ASSUME NEW l \in gone + Len(queue) + 1 .. Len(all) PROVE ~IsNext(queue[j], all[l])
    BY DEF NoneAfter
  <2>1. l \in 1 .. Len(all)
    <3>1. gone \in Nat /\ Len(queue) \in Nat /\ Len(all) \in Nat
      BY DEF IsView
    <3>2. QED
      BY <3>1
  <2>2. all[l].t \in Nat /\ queue[j].t \in Nat /\ all[l].t > time
    <3>1. all[l].t \in Nat /\ queue[j].t \in Nat
      BY <1>2, <1>3, <2>1
    <3>2. all[l].t > time
      BY DEF RestIsLater
    <3>3. QED
      BY <3>1, <3>2
  <2>3. ~(all[l].t - queue[j].t \in MinTime .. MaxTime)
    <3> DEFINE later == all[l].t
               mine == queue[j].t
    <3>1. later \in Nat /\ mine \in Nat /\ later > time /\ mine + MaxTime < time
      BY <1>4, <2>2
    <3> HIDE DEF later, mine
    <3>2. ~(later - mine \in MinTime .. MaxTime)
      BY <1>1, <3>1
    <3>3. QED
      BY <3>2 DEF later, mine
  <2>4. QED
    BY <2>3 DEF IsNext
<1>5. time > queue[i].t + 2 * MaxTime /\ queue[i].t \in Nat
  BY <1>3 DEF IsDue
<1>6. NoneAfter(queue, all, gone, i)
  <2>1. queue[i].t + MaxTime < time
    BY <1>1, <1>5
  <2>2. QED
    BY <1>4, <2>1
<1>7. ASSUME NEW j \in 1 .. Len(queue), IsNext(queue[i], queue[j]) PROVE NoneAfter(queue, all, gone, j)
  <2>1. queue[j].t - queue[i].t \in MinTime .. MaxTime /\ queue[j].t \in Nat
    BY <1>3, <1>7 DEF IsNext
  <2>2. queue[j].t + MaxTime < time
    <3> DEFINE mine == queue[i].t
               next == queue[j].t
    <3>1. mine \in Nat /\ next \in Nat /\ time > mine + 2 * MaxTime /\ next - mine <= MaxTime
      BY <1>1, <1>5, <2>1
    <3> HIDE DEF mine, next
    <3>2. next + MaxTime < time
      BY <1>1, <3>1
    <3>3. QED
      BY <3>2 DEF next
  <2>3. QED
    BY <1>4, <2>2
<1>8. QED
  BY <1>6, <1>7, LandmarksInView

\* The queue after its first events are gone.
LEMMA ViewMoves ==
    ASSUME NEW queue, NEW all, NEW gone, IsView(queue, all, gone), NEW due \in 0 .. Len(queue)
    PROVE  LET left == SubSeq(queue, due + 1, Len(queue))
           IN  IsView(left, all, gone + due) /\ Len(left) = Len(queue) - due
<1> DEFINE left == SubSeq(queue, due + 1, Len(queue))
           a == due + 1
           b == Len(queue)
<1>1. /\ queue \in Seq(Events) /\ all \in Seq(Events) /\ gone \in Nat /\ b \in Nat /\ due \in Nat
      /\ Len(all) \in Nat /\ gone + b <= Len(all)
      /\ \A m \in 1 .. b : queue[m] = all[gone + m]
  BY DEF IsView
<1>2. a \in Int /\ b \in Int /\ (a <= b \/ a = b + 1) /\ b - a + 1 = b - due
  BY <1>1
<1>3. \A i \in a .. b : queue[i] \in Events
  <2>1. \A i \in a .. b : i \in 1 .. b
    BY <1>1
  <2>2. QED
    BY <1>1, <2>1, ElementOfSeq
<1>4. left = SubSeq(queue, a, b)
  OBVIOUS
<1> HIDE DEF left, a, b
<1>5. /\ left \in Seq(Events)
      /\ Len(left) = IF a <= b THEN b - a + 1 ELSE 0
      /\ \A i \in 1 .. b - a + 1 : left[i] = queue[a + i - 1]
  BY <1>2, <1>3, <1>4, SubSeqProperties
<1>6. Len(left) = b - due
  <2>1. b - a + 1 = 0 \/ a <= b
    BY <1>2
  <2>2. QED
    BY <1>2, <1>5, <2>1
<1>7. \A i \in 1 .. b - due : left[i] = queue[due + i] /\ due + i \in 1 .. b
                              /\ gone + (due + i) = (gone + due) + i
  <2> TAKE i \in 1 .. b - due
  <2>1. left[i] = queue[a + i - 1]
    BY <1>2, <1>5
  <2>2. a + i - 1 = due + i /\ due + i \in 1 .. b /\ gone + (due + i) = (gone + due) + i
    BY <1>1 DEF a
  <2>3. QED
    BY <2>1, <2>2
<1>8. \A i \in 1 .. Len(left) : left[i] = all[(gone + due) + i]
  BY <1>1, <1>6, <1>7
<1>9. gone + due \in Nat /\ (gone + due) + Len(left) <= Len(all)
  BY <1>1, <1>6
<1>10. IsView(left, all, gone + due)
  BY <1>1, <1>5, <1>8, <1>9 DEF IsView
<1>11. QED
  BY <1>6, <1>10 DEF left, b

\* These events are the first of all.
AreFirst(some, all) ==
    Len(some) <= Len(all) /\ \A i \in 1 .. Len(some) : all[i] = some[i]

\* The queue with the events of one more frame.
LEMMA ViewGrows ==
    ASSUME NEW queue, NEW new \in Seq(Events), NEW all, NEW gone, IsView(queue, all, gone),
           NEW some \in Seq(Events), AreFirst(some \o new, all), gone + Len(queue) = Len(some)
    PROVE  IsView(queue \o new, all, gone) /\ gone + Len(queue \o new) = Len(some \o new)
<1> DEFINE a == Len(queue)
           b == Len(new)
           c == Len(some)
           both == queue \o new
           more == some \o new
<1>1. /\ queue \in Seq(Events) /\ all \in Seq(Events) /\ gone \in Nat /\ a \in Nat /\ b \in Nat /\ c \in Nat
      /\ gone + a = c
      /\ \A m \in 1 .. a : queue[m] = all[gone + m]
  BY DEF IsView
<1>2. /\ both \in Seq(Events) /\ Len(both) = a + b
      /\ \A i \in 1 .. a + b : both[i] = IF i <= a THEN queue[i] ELSE new[i - a]
  BY <1>1, ConcatProperties
<1>3. /\ Len(more) = c + b
      /\ \A i \in 1 .. c + b : more[i] = IF i <= c THEN some[i] ELSE new[i - c]
  BY ConcatProperties
<1>4. Len(more) <= Len(all) /\ \A i \in 1 .. Len(more) : all[i] = more[i]
  BY DEF AreFirst
<1> HIDE DEF a, b, c, both, more
<1>5. ASSUME NEW m \in 1 .. a + b PROVE both[m] = all[gone + m]
  <2>1. CASE m <= a
    <3>1. m \in 1 .. a
      BY <1>1, <2>1
    <3>2. QED
      BY <1>1, <1>2, <2>1, <3>1
  <2>2. CASE ~(m <= a)
    <3> DEFINE l == gone + m
    <3>1. l \in 1 .. c + b /\ ~(l <= c) /\ l - c = m - a
      BY <1>1, <2>2
    <3> HIDE DEF l
    <3>2. more[l] = new[m - a]
      <4>1. more[l] = new[l - c]
        BY <1>3, <3>1
      <4>2. QED
        BY <3>1, <4>1
    <3>3. all[l] = more[l]
      BY <1>3, <1>4, <3>1
    <3>4. both[m] = new[m - a]
      BY <1>2, <2>2
    <3>5. QED
      BY <3>2, <3>3, <3>4 DEF l
  <2>3. QED
    BY <2>1, <2>2
<1>6. gone + Len(both) = Len(more)
  BY <1>1, <1>2, <1>3
<1>7. IsView(both, all, gone)
  BY <1>1, <1>2, <1>4, <1>5, <1>6 DEF IsView
<1>8. QED
  BY <1>6, <1>7 DEF both, more

-----------------------------------------------------------------------------
(* The invariant: where the stream is in the file, and what it has given.   *)

\* The rows that are not pushed yet are the frames of the chunk from here on.
RowsFollow ==
    /\ Frames(SampleCount) # 0
    /\ AreFrames(rows, frame_count)
    /\ frame_count + Len(rows) = Reached(core)
    /\ phase = "chunk" => rows = <<>>

\* The window holds the frames before the next.
WindowFollows ==
    /\ Len(magnitudes) = Least(frame_count, TimeFilter - 1)
    /\ \A i \in 1 .. Len(magnitudes) :
           magnitudes[i] = WholeRows[frame_count - Len(magnitudes) + i - 1]

\* The queue holds the last events that were found, and the caller has the
\* landmarks that begin with all others.
HasGiven(gone) ==
    /\ IsView(events, WholeEvents, gone)
    /\ gone + Len(events) = Len(EventsTo(Saturated(frame_count, 2 * Center)))
    /\ emitted = PackFirst(WholeEvents, gone)

QueueFollows == \E gone \in Nat : HasGiven(gone)

\* Between the decoder and the end the three agree on the frames so far.
StreamFollows ==
    /\ phase = "decode" =>
           /\ core = 0 /\ frame_count = 0 /\ rows = <<>>
           /\ magnitudes = <<>> /\ events = <<>> /\ emitted = <<>>
    /\ phase \in {"chunk", "rows", "ok"} => reader = "decoded"
    /\ phase \in {"chunk", "rows"} => RowsFollow /\ WindowFollows /\ QueueFollows
    /\ phase = "ok" => emitted = IF Frames(SampleCount) = 0 THEN <<>> ELSE Whole

\* A decoder that is done takes no step.
LEMMA DecodedStays ==
    ASSUME IInv, DecodeNext
    PROVE  reader # "decoded"
<1>1. reader = "decoded" => ffmpeg # "running"
  BY DEF IInv, ReaderIsKnown
<1>2. QED
  BY <1>1 DEF DecodeNext, Ffmpeg, FfmpegWrites, FfmpegComplains, FfmpegExits, FfmpegIsKilled,
              Reader, Spawn, CopyStdout, WaitWithOutput, Validate, SpoolFails

\* What is said of the file stays true of it.
LEMMA SameFile ==
    ASSUME UNCHANGED decode_vars
    PROVE  /\ SampleCount' = SampleCount /\ Frames(SampleCount)' = Frames(SampleCount)
           /\ WholeRows' = WholeRows /\ WholeEvents' = WholeEvents /\ Whole' = Whole
           /\ reader' = reader
           /\ PeakLists' = PeakLists
<1>1. spool' = spool /\ file' = file /\ reader' = reader
  BY DEF decode_vars
<1>2. SampleCount' = SampleCount
  BY <1>1 DEF SampleCount
<1>3. Frames(SampleCount)' = Frames(SampleCount)
  BY <1>2 DEF Frames
<1>4. \A input, band, s : Filtered(input, band, s)' = Filtered(input, band, s)
  BY <1>1, <1>2 DEF Filtered
<1>5. \A input, band, frame : BandMagnitude(input, band, frame)' = BandMagnitude(input, band, frame)
  BY <1>4 DEF BandMagnitude
<1>6. \A input, frame : RowAt(input, frame)' = RowAt(input, frame)
  BY <1>5 DEF RowAt
<1>7. WholeRows' = WholeRows
  BY <1>2, <1>3, <1>6 DEF WholeRows
<1>8. WholeEvents' = WholeEvents
  BY <1>3, <1>7 DEF WholeEvents
<1>9. Whole' = Whole
  BY <1>8 DEF Whole
<1>10. PeakLists' = PeakLists
  BY <1>7 DEF PeakLists
<1>11. QED
  BY <1>1, <1>2, <1>3, <1>7, <1>8, <1>9, <1>10

LEMMA InitFollows == Init => StreamFollows
BY DEF Init, StreamFollows

\* A new chunk goes on where the last one ended.
LEMMA ReadChunkFollows ==
    ASSUME IInv, StreamInv, StreamFollows, ReadChunk
    PROVE  StreamFollows'
<1>1. /\ phase = "chunk" /\ core < SampleCount
      /\ rows' = ChunkRows(core) /\ core' = core + StreamCore
      /\ phase' = (IF rows' = <<>> THEN "chunk" ELSE "rows")
      /\ UNCHANGED <<magnitudes, frame_count, events, emitted>> /\ UNCHANGED decode_vars
  BY DEF ReadChunk, stream_vars
<1>2. /\ SampleCount' = SampleCount /\ Frames(SampleCount)' = Frames(SampleCount)
      /\ WholeRows' = WholeRows /\ WholeEvents' = WholeEvents /\ reader' = reader
      /\ PeakLists' = PeakLists
  BY <1>1, SameFile
<1>3. RowsFollow /\ WindowFollows /\ QueueFollows /\ reader = "decoded"
  BY <1>1 DEF StreamFollows
<1>4. frame_count = Reached(core)
  <2>1. rows = <<>> /\ frame_count + Len(rows) = Reached(core)
    BY <1>1, <1>3 DEF RowsFollow
  <2>2. frame_count \in Nat
    BY DEF StreamInv, StreamIsTyped
  <2>3. QED
    BY <2>1, <2>2
<1>5. /\ Reached(core + StreamCore) = frame_count + Len(ChunkRows(core))
      /\ AreFrames(ChunkRows(core), frame_count)
  <2>1. IsStart(core)
    BY DEF StreamInv, StreamIsTyped
  <2>2. SampleCount \in Nat
    BY <1>1, SamplesAreWhole, WholeRowsAreRows
  <2>3. QED
    BY <1>1, <1>4, <2>1, <2>2, ChunksMeet
<1>6. Reached(core)' = Reached(core + StreamCore)
  BY <1>1, <1>2 DEF Reached
<1>7. AreFrames(rows, frame_count)'
  BY <1>1, <1>2, <1>5 DEF AreFrames
<1>8. RowsFollow'
  <2>1. Frames(SampleCount) # 0
    BY <1>3 DEF RowsFollow
  <2>2. (phase = "chunk" => rows = <<>>)'
    BY <1>1
  <2>3. (frame_count + Len(rows) = Reached(core))'
    BY <1>1, <1>5, <1>6
  <2>4. QED
    BY <1>2, <1>7, <2>1, <2>2, <2>3 DEF RowsFollow
<1>9. WindowFollows'
  BY <1>1, <1>2, <1>3 DEF WindowFollows
<1>10. QueueFollows'
  BY <1>1, <1>2, <1>3 DEF QueueFollows, HasGiven, EventsTo
<1>11. QED
  BY <1>1, <1>2, <1>3, <1>8, <1>9, <1>10 DEF StreamFollows

\* With one more row the window holds the frames up to the next.
LEMMA WindowIsWhole ==
    ASSUME IInv, StreamInv, RowsFollow, WindowFollows, phase = "rows"
    PROVE  LET n == Len(magnitudes)
               window == Append(magnitudes, Head(rows))
           IN  /\ n = Least(frame_count, TimeFilter - 1)
               /\ frame_count < Frames(SampleCount)
               /\ \A i \in 1 .. n + 1 : window[i] = WholeRows[frame_count - n + i - 1]
<1> DEFINE n == Len(magnitudes)
           row == Head(rows)
           window == Append(magnitudes, row)
<1>1. /\ rows \in Seq(Rows) /\ rows # <<>> /\ magnitudes \in Seq(Rows)
      /\ n \in Nat /\ frame_count \in Nat
  BY DEF StreamInv, StreamIsTyped, WindowsMatch
<1>2. row \in Rows /\ row = rows[1] /\ 1 \in 1 .. Len(rows)
  BY <1>1
<1>3. frame_count \in 0 .. Frames(SampleCount) - 1 /\ row = WholeRows[frame_count]
  <2>1. frame_count + 1 - 1 \in 0 .. Frames(SampleCount) - 1 /\ rows[1] = WholeRows[frame_count + 1 - 1]
    BY <1>2 DEF RowsFollow, AreFrames
  <2>2. frame_count + 1 - 1 = frame_count
    BY <1>1
  <2>3. QED
    BY <1>2, <2>1, <2>2
<1>4. frame_count < Frames(SampleCount)
  <2>1. Frames(SampleCount) \in Nat
    BY SamplesAreWhole, WholeRowsAreRows
  <2>2. QED
    BY <1>1, <1>3, <2>1
<1> HIDE DEF row
<1>5. /\ window \in Seq(Rows) /\ window[n + 1] = row
      /\ \A i \in 1 .. n : window[i] = magnitudes[i]
  BY <1>1, <1>2, Pushed
<1>6. n = Least(frame_count, TimeFilter - 1)
      /\ \A i \in 1 .. n : magnitudes[i] = WholeRows[frame_count - n + i - 1]
  BY DEF WindowFollows
<1> HIDE DEF n, window
<1>7. ASSUME NEW i \in 1 .. n + 1 PROVE window[i] = WholeRows[frame_count - n + i - 1]
  <2>1. CASE i \in 1 .. n
    BY <1>5, <1>6, <2>1
  <2>2. CASE i = n + 1
    <3>1. frame_count - n + i - 1 = frame_count
      BY <1>1, <2>2
    <3>2. QED
      BY <1>3, <1>5, <2>2, <3>1
  <2>3. QED
    BY <1>1, <2>1, <2>2
<1>8. QED
  BY <1>4, <1>6, <1>7 DEF n, window, row

\* The rows that are left are the next frames.
LEMMA PushRowKeepsRows ==
    ASSUME StreamInv, RowsFollow, PushRow
    PROVE  RowsFollow'
<1>1. /\ phase = "rows" /\ rows' = Tail(rows) /\ frame_count' = frame_count + 1 /\ core' = core
      /\ phase' = (IF rows' = <<>> THEN "chunk" ELSE "rows") /\ UNCHANGED decode_vars
  BY DEF PushRow
<1>2. SampleCount' = SampleCount /\ Frames(SampleCount)' = Frames(SampleCount) /\ WholeRows' = WholeRows
  BY <1>1, SameFile
<1>3. /\ rows \in Seq(Rows) /\ rows # <<>> /\ frame_count \in Nat /\ Len(rows) \in Nat
  BY <1>1 DEF StreamInv, StreamIsTyped, WindowsMatch
<1>4. /\ Len(rows') = Len(rows) - 1 /\ Len(rows') \in Nat
      /\ \A i \in 1 .. Len(rows) - 1 : rows'[i] = rows[i + 1]
  BY <1>1, <1>3, HeadTailProperties
<1>5. \A i \in 1 .. Len(rows) :
          frame_count + i - 1 \in 0 .. Frames(SampleCount) - 1 /\ rows[i] = WholeRows[frame_count + i - 1]
  BY DEF RowsFollow, AreFrames
<1>6. ASSUME NEW i \in 1 .. Len(rows')
      PROVE  /\ frame_count' + i - 1 \in 0 .. Frames(SampleCount) - 1
             /\ rows'[i] = WholeRows[frame_count' + i - 1]
  <2>1. i \in 1 .. Len(rows) - 1 /\ i + 1 \in 1 .. Len(rows)
    BY <1>3, <1>4
  <2>2. frame_count' + i - 1 = frame_count + (i + 1) - 1
    BY <1>1, <1>3
  <2>3. rows'[i] = rows[i + 1]
    BY <1>4, <2>1
  <2>4. QED
    BY <1>5, <2>1, <2>2, <2>3
<1>7. AreFrames(rows, frame_count)'
  BY <1>2, <1>6 DEF AreFrames
<1>8. Reached(core)' = Reached(core)
  BY <1>1, <1>2 DEF Reached
<1>9. frame_count' + Len(rows') = Reached(core)
  <2>1. frame_count + Len(rows) = Reached(core)
    BY DEF RowsFollow
  <2>2. frame_count' + Len(rows') = frame_count + Len(rows)
    BY <1>1, <1>3, <1>4
  <2>3. QED
    BY <2>1, <2>2
<1>10. Frames(SampleCount) # 0
  BY DEF RowsFollow
<1>11. QED
  BY <1>1, <1>2, <1>7, <1>8, <1>9, <1>10 DEF RowsFollow

\* The window moves on by a frame.
LEMMA PushRowKeepsWindow ==
    ASSUME IInv, StreamInv, RowsFollow, WindowFollows, PushRow
    PROVE  WindowFollows'
<1> DEFINE n == Len(magnitudes)
           window == Append(magnitudes, Head(rows))
           c == frame_count
<1>1. /\ phase = "rows"
      /\ magnitudes' = IF Len(window) < TimeFilter THEN window ELSE Tail(window)
      /\ frame_count' = c + 1 /\ UNCHANGED decode_vars
  BY DEF PushRow
<1>2. /\ n = Least(c, TimeFilter - 1)
      /\ \A i \in 1 .. n + 1 : window[i] = WholeRows[c - n + i - 1]
  BY <1>1, WindowIsWhole
<1>3. window \in Seq(Rows) /\ Len(window) = n + 1
  BY <1>1, WindowGrows DEF StreamInv
<1>4. WholeRows' = WholeRows
  BY <1>1, SameFile
<1>5. n \in Nat /\ c \in Nat /\ TimeFilter \in Nat /\ TimeFilter >= 3 /\ n < TimeFilter
  BY ExtractAssumption DEF StreamInv, StreamIsTyped, WindowsMatch
<1> HIDE DEF n, window, c
<1>6. CASE n + 1 < TimeFilter
  <2>1. magnitudes' = window
    BY <1>1, <1>3, <1>6
  <2>2. n = c
    BY <1>2, <1>5, <1>6 DEF Least
  <2>3. n + 1 = Least(c + 1, TimeFilter - 1)
    BY <1>5, <1>6, <2>2 DEF Least
  <2>4. \A i \in 1 .. n + 1 : (c + 1) - (n + 1) + i - 1 = c - n + i - 1
    BY <1>5
  <2>5. \A i \in 1 .. n + 1 : window[i] = WholeRows[(c + 1) - (n + 1) + i - 1]
    BY <1>2, <2>4
  <2>6. QED
    BY <1>1, <1>3, <1>4, <2>1, <2>3, <2>5 DEF WindowFollows
<1>7. CASE n + 1 = TimeFilter
  <2>1. magnitudes' = Tail(window)
    BY <1>1, <1>3, <1>5, <1>7
  <2>2. /\ Len(Tail(window)) = n
        /\ \A i \in 1 .. n : Tail(window)[i] = window[i + 1]
    <3>1. window # <<>>
      BY <1>3, <1>5
    <3>2. /\ Len(Tail(window)) = Len(window) - 1
          /\ \A i \in 1 .. Len(Tail(window)) : Tail(window)[i] = window[i + 1]
      BY <1>3, <3>1, HeadTailProperties
    <3>3. Len(Tail(window)) = n
      BY <1>3, <1>5, <3>2
    <3>4. QED
      BY <3>2, <3>3
  <2>3. n = Least(c + 1, TimeFilter - 1)
    BY <1>2, <1>5, <1>7 DEF Least
  <2>4. \A i \in 1 .. n : i + 1 \in 1 .. n + 1 /\ c - n + (i + 1) - 1 = (c + 1) - n + i - 1
    BY <1>5
  <2>5. \A i \in 1 .. n : Tail(window)[i] = WholeRows[(c + 1) - n + i - 1]
    BY <1>2, <2>2, <2>4
  <2>6. QED
    BY <1>1, <1>4, <2>1, <2>2, <2>3, <2>5 DEF WindowFollows
<1>8. QED
  BY <1>5, <1>6, <1>7

\* The events of one more frame go to the queue, and those that are due give
\* the file's next landmarks.
LEMMA PushRowKeepsQueue ==
    ASSUME IInv, StreamInv, RowsFollow, WindowFollows, QueueFollows, PushRow
    PROVE  QueueFollows'
<1> DEFINE n == Len(magnitudes)
           window == Append(magnitudes, Head(rows))
           maxima == Append(vertical, VerticalMax(Head(rows)))
           c == frame_count
           time == c - Center
           new == EventsOf(window, maxima, time)
           queue == events \o new
           due == Due(queue, time)
           k == c - 2 * Center
           all == WholeEvents
<1>1. /\ phase = "rows"
      /\ IF Len(window) < TimeFilter
         THEN events' = events /\ emitted' = emitted
         ELSE /\ events' = SubSeq(queue, due + 1, Len(queue))
              /\ emitted' = emitted \o PackFirst(queue, due)
      /\ frame_count' = c + 1 /\ UNCHANGED decode_vars
  BY DEF PushRow
<1>2. /\ n = Least(c, TimeFilter - 1) /\ c < Frames(SampleCount)
      /\ \A i \in 1 .. n + 1 : window[i] = WholeRows[c - n + i - 1]
  BY <1>1, WindowIsWhole
<1>3. /\ window \in Seq(Rows) /\ Len(window) = n + 1
      /\ \A i \in 1 .. n + 1 : maxima[i] = VerticalMax(window[i])
  BY <1>1, WindowGrows DEF StreamInv
<1>4. file \in Files /\ SampleCount = file.bytes \div 2 /\ Frames(SampleCount) \in Nat
  BY <1>1, SamplesAreWhole, WholeRowsAreRows
<1>5. all' = all /\ PeakLists' = PeakLists
  BY <1>1, SameFile
<1>6. /\ n \in Nat /\ c \in Nat /\ TimeFilter \in Nat /\ n < TimeFilter
      /\ Center \in Nat /\ Center >= 1 /\ TimeFilter = 2 * Center + 1
  BY ExtractAssumption, TimeFilterHasMiddle DEF StreamInv, StreamIsTyped, WindowsMatch
<1>7. PICK gone \in Nat : HasGiven(gone)
  BY DEF QueueFollows
<1>8. /\ IsView(events, all, gone)
      /\ gone + Len(events) = Len(EventsTo(Saturated(c, 2 * Center)))
      /\ emitted = PackFirst(all, gone)
  BY <1>7 DEF HasGiven
<1> HIDE DEF n, window, maxima, c
<1>9. CASE n + 1 < TimeFilter
  <2>1. events' = events /\ emitted' = emitted
    BY <1>1, <1>3, <1>9
  <2>2. Saturated(c, 2 * Center) = 0 /\ Saturated(c + 1, 2 * Center) = 0
    BY <1>2, <1>6, <1>9 DEF Least, Saturated
  <2>3. HasGiven(gone)'
    BY <1>1, <1>5, <1>8, <2>1, <2>2 DEF HasGiven, EventsTo
  <2>4. QED
    BY <2>3 DEF QueueFollows
<1>10. CASE n + 1 = TimeFilter
  <2>1. events' = SubSeq(queue, due + 1, Len(queue)) /\ emitted' = emitted \o PackFirst(queue, due)
    <3>1. ~(Len(window) < TimeFilter)
      BY <1>3, <1>6, <1>10
    <3> HIDE DEF queue, due
    <3>2. QED
      BY <1>1, <3>1
  <2>2. /\ n = 2 * Center /\ k = c - n /\ k \in Nat /\ time \in Nat /\ Center <= time /\ k + Center = time
        /\ Saturated(c, 2 * Center) = k /\ Saturated(c + 1, 2 * Center) = k + 1
        /\ time - Center = c - n
    BY <1>2, <1>6, <1>10 DEF Least, Saturated
  <2>3. LastPeaks \in Nat /\ k < LastPeaks
    BY <1>2, <1>4, <1>6, <2>2 DEF LastPeaks, Saturated
  <2>4. new = PeaksOf(WholeRows, time)
    <3>1. \A i \in 1 .. TimeFilter : window[i] = WholeRows[time - Center + i - 1]
      BY <1>2, <1>10, <2>2
    <3>2. \A i \in 1 .. TimeFilter : maxima[i] = VerticalMax(window[i])
      BY <1>3, <1>10
    <3>3. Len(window) = TimeFilter
      BY <1>3, <1>10
    <3> HIDE DEF time
    <3>4. QED
      BY <1>3, <2>2, <3>1, <3>2, <3>3, WindowHasPeaks
  <2>5. new = PeakLists[k + 1]
    <3>1. k + 1 \in Nat /\ k + 1 + Center - 1 = time
      BY <1>6, <2>2
    <3>2. PeakLists[k + 1] = PeaksOf(WholeRows, k + 1 + Center - 1)
      BY <3>1 DEF PeakLists
    <3> HIDE DEF new, k, time
    <3>3. QED
      BY <2>4, <3>1, <3>2
  <2> HIDE DEF new, k, time
  <2>6. new \in Seq(Events)
    <3> DEFINE T == { event \in Events : event.t = k + 1 + Center - 1 }
    <3>1. k + 1 \in 1 .. LastPeaks
      BY <2>2, <2>3
    <3>2. new \in Seq(T)
      BY <1>4, <2>5, <3>1, PeaksAreEvents
    <3>3. T \subseteq Events
      OBVIOUS
    <3> HIDE DEF T
    <3>4. QED
      BY <3>2, <3>3, SeqMonotonic
  <2> DEFINE some == EventsTo(k)
             more == some \o new
  <2>7. EventsTo(k + 1) = more
    BY <1>4, <2>2, <2>3, <2>5, EventsGrow
  <2>8. k \in 0 .. LastPeaks /\ k + 1 \in 0 .. LastPeaks
    BY <2>2, <2>3
  <2>9. some \in Seq(Events)
    BY <1>4, <2>8, EventsGoOn
  <2>10. /\ Len(more) <= Len(all) /\ \A i \in 1 .. Len(more) : all[i] = more[i]
         /\ \A i \in Len(more) + 1 .. Len(all) : all[i].t >= k + 1 + Center
    <3> HIDE DEF more
    <3>1. QED
      BY <1>4, <2>7, <2>8, EventsGoOn
  <2>11. gone + Len(events) = Len(some)
    BY <1>8, <2>2
  <2> HIDE DEF some, all
  <2>12. IsView(queue, all, gone) /\ gone + Len(queue) = Len(more)
    <3>1. IsView(events, all, gone)
      BY <1>8 DEF all
    <3>2. AreFirst(more, all)
      BY <2>10 DEF AreFirst
    <3>3. QED
      BY ONLY <2>6, <2>9, <2>11, <3>1, <3>2, ViewGrows
  <2> HIDE DEF queue, more, due
  <2>13. Len(queue) \in Nat /\ due \in 0 .. Len(queue) /\ \A i \in 1 .. due : IsDue(queue[i], time)
    <3>1. Len(queue) \in Nat
      BY <2>12 DEF IsView
    <3>2. QED
      BY <3>1, DueIsDue, DueAreDue DEF due
  <2>14. \A i \in 1 .. due : Landmarks(queue, i) = Landmarks(all, gone + i)
    <3> TAKE i \in 1 .. due
    <3>1. i \in 1 .. Len(queue) /\ IsDue(queue[i], time)
      BY <2>13
    <3>2. RestIsLater(queue, all, gone, time)
      <4> SUFFICES ASSUME NEW l \in gone + Len(queue) + 1 .. Len(all) PROVE all[l].t > time
        BY DEF RestIsLater
      <4>1. l \in Len(more) + 1 .. Len(all) /\ l \in 1 .. Len(all) /\ all \in Seq(Events)
        <5>1. gone \in Nat /\ Len(all) \in Nat /\ all \in Seq(Events)
          BY <2>12 DEF IsView
        <5>2. QED
          BY <2>12, <2>13, <5>1
      <4>2. all[l].t >= k + 1 + Center
        BY <2>10, <4>1
      <4>3. all[l].t \in Nat
        <5>1. all[l] \in Events
          BY <4>1, ElementOfSeq
        <5>2. QED
          BY <5>1 DEF Events
      <4>4. k \in Nat /\ time \in Nat /\ Center \in Nat /\ k + Center = time
        BY <1>6, <2>2
      <4>5. QED
        BY ONLY <4>2, <4>3, <4>4
    <3>3. IsView(queue, all, gone) /\ time \in Nat
      BY <2>2, <2>12
    <3>4. QED
      BY ONLY <3>1, <3>2, <3>3, DueAreComplete
  <2>15. PackFirst(all, gone + due) = PackFirst(all, gone) \o PackFirst(queue, due)
    BY <2>12, <2>13, <2>14, PackGoesOn
  <2>16. IsView(events', all, gone + due) /\ Len(events') = Len(queue) - due
    BY <2>1, <2>12, <2>13, ViewMoves
  <2>17. (gone + due) + Len(events') = Len(EventsTo(k + 1)) /\ gone + due \in Nat
    BY <2>7, <2>12, <2>13, <2>16
  <2>18. emitted' = PackFirst(all, gone + due)
    BY <1>8, <2>1, <2>15
  <2>19. EventsTo(Saturated(frame_count, 2 * Center))' = EventsTo(k + 1)
    BY <1>1, <1>5, <2>2 DEF EventsTo
  <2> DEFINE left == gone + due
  <2>20. left \in Nat /\ IsView(events', all, left) /\ left + Len(events') = Len(EventsTo(k + 1))
         /\ emitted' = PackFirst(all, left)
    BY <2>16, <2>17, <2>18
  <2> HIDE DEF left
  <2>21. \E g \in Nat : /\ IsView(events', all', g)
                        /\ g + Len(events') = Len(EventsTo(Saturated(frame_count, 2 * Center))')
                        /\ emitted' = PackFirst(all', g)
    BY <1>5, <2>19, <2>20
  <2>22. QED
    BY <2>21 DEF QueueFollows, HasGiven, all
<1>11. QED
  BY <1>6, <1>9, <1>10

\* A row keeps all three together.
LEMMA PushRowFollows ==
    ASSUME IInv, StreamInv, StreamFollows, PushRow
    PROVE  StreamFollows'
<1>1. phase = "rows" /\ phase' \in {"chunk", "rows"} /\ UNCHANGED decode_vars
  BY DEF PushRow
<1>2. RowsFollow /\ WindowFollows /\ QueueFollows /\ reader = "decoded"
  BY <1>1 DEF StreamFollows
<1>3. RowsFollow' /\ WindowFollows' /\ QueueFollows'
  BY <1>2, PushRowKeepsRows, PushRowKeepsWindow, PushRowKeepsQueue
<1>4. reader' = "decoded"
  BY <1>1, <1>2 DEF decode_vars
<1>5. QED
  BY <1>1, <1>3, <1>4 DEF StreamFollows

\* What was given by now is the beginning of the whole.
LEMMA GivenIsPrefix ==
    ASSUME IInv, phase \in {"chunk", "rows"}, QueueFollows
    PROVE  IsPrefix(emitted, Whole)
<1>1. PICK gone \in Nat : HasGiven(gone)
  BY DEF QueueFollows
<1>2. WholeEvents \in Seq(Events) /\ gone \in 0 .. Len(WholeEvents)
  <2>1. IsView(events, WholeEvents, gone)
    BY <1>1 DEF HasGiven
  <2>2. /\ WholeEvents \in Seq(Events) /\ events \in Seq(Events)
        /\ gone + Len(events) <= Len(WholeEvents)
    BY <2>1 DEF IsView
  <2>3. Len(WholeEvents) \in Nat /\ Len(events) \in Nat
    BY <2>2
  <2>4. QED
    BY <2>2, <2>3
<1>3. emitted = PackFirst(WholeEvents, gone)
  BY <1>1 DEF HasGiven
<1>4. IsPrefix(PackFirst(WholeEvents, gone), PackFirst(WholeEvents, Len(WholeEvents)))
  BY <1>2, PackIsPrefix
<1>5. Whole = PackFirst(WholeEvents, Len(WholeEvents))
  BY <1>2, WholeIsPacked
<1>6. QED
  BY <1>3, <1>4, <1>5

\* The last events give the rest.
LEMMA FinishFollows ==
    ASSUME IInv, StreamInv, StreamFollows, Finish
    PROVE  StreamFollows'
<1>1. /\ phase = "chunk" /\ core >= SampleCount /\ UNCHANGED decode_vars
      /\ phase' = "ok" /\ emitted' = emitted \o PackFirst(events, Len(events))
  BY DEF Finish
<1>2. RowsFollow /\ QueueFollows /\ reader = "decoded"
  BY <1>1 DEF StreamFollows
<1>3. frame_count = Frames(SampleCount) /\ Frames(SampleCount) # 0
  <2>1. rows = <<>> /\ frame_count + Len(rows) = Reached(core) /\ Frames(SampleCount) # 0
    BY <1>1, <1>2 DEF RowsFollow
  <2>2. Reached(core) = Frames(SampleCount)
    BY <1>1 DEF Reached
  <2>3. frame_count \in Nat
    BY DEF StreamInv, StreamIsTyped
  <2>4. QED
    BY <2>1, <2>2, <2>3
<1>4. PICK gone \in Nat : HasGiven(gone)
  BY <1>2 DEF QueueFollows
<1>5. /\ IsView(events, WholeEvents, gone)
      /\ gone + Len(events) = Len(EventsTo(LastPeaks))
      /\ emitted = PackFirst(WholeEvents, gone)
  BY <1>3, <1>4 DEF HasGiven, LastPeaks
<1>6. EventsTo(LastPeaks) = WholeEvents
  BY <1>1, SamplesAreWhole, AllEvents
<1>7. WholeEvents \in Seq(Events) /\ gone \in Nat /\ Len(events) \in Nat
      /\ gone + Len(events) = Len(WholeEvents)
  BY <1>5, <1>6 DEF IsView
<1>8. \A i \in 1 .. Len(events) : Landmarks(events, i) = Landmarks(WholeEvents, gone + i)
  <2>1. \A j \in 1 .. Len(events) : NoneAfter(events, WholeEvents, gone, j)
    BY <1>7 DEF NoneAfter
  <2>2. QED
    BY <1>5, <2>1, LandmarksInView
<1>9. PackFirst(WholeEvents, gone + Len(events)) = PackFirst(WholeEvents, gone) \o PackFirst(events, Len(events))
  <2>1. Len(events) \in 0 .. Len(events)
    BY <1>7
  <2>2. QED
    BY <1>5, <1>8, <2>1, PackGoesOn
<1>10. emitted' = Whole
  BY <1>1, <1>5, <1>7, <1>9, WholeIsPacked
<1>11. SampleCount' = SampleCount /\ Frames(SampleCount)' = Frames(SampleCount) /\ Whole' = Whole
       /\ reader' = "decoded"
  BY <1>1, <1>2, SameFile
<1>12. QED
  BY <1>1, <1>3, <1>10, <1>11 DEF StreamFollows

\* The first chunk begins where nothing is answered for yet.
LEMMA ExtractChunksFollows ==
    ASSUME IInv, StreamInv, StreamFollows, ExtractChunks
    PROVE  StreamFollows'
<1>1. /\ phase = "decode" /\ reader = "decoded" /\ UNCHANGED decode_vars
      /\ phase' = (IF Frames(SampleCount) = 0 THEN "ok" ELSE "chunk")
      /\ UNCHANGED <<core, rows, magnitudes, frame_count, events, emitted>>
  BY DEF ExtractChunks, stream_vars
<1>2. /\ core = 0 /\ frame_count = 0 /\ rows = <<>> /\ magnitudes = <<>>
      /\ events = <<>> /\ emitted = <<>>
  BY <1>1 DEF StreamFollows
<1>3. /\ SampleCount' = SampleCount /\ Frames(SampleCount)' = Frames(SampleCount)
      /\ WholeRows' = WholeRows /\ WholeEvents' = WholeEvents /\ Whole' = Whole
      /\ reader' = reader /\ PeakLists' = PeakLists
  BY <1>1, SameFile
<1>4. CASE Frames(SampleCount) = 0
  BY <1>1, <1>2, <1>3, <1>4 DEF StreamFollows
<1>5. CASE Frames(SampleCount) # 0
  <2>1. file \in Files /\ SampleCount = file.bytes \div 2
    BY <1>1 DEF IInv, BytesAreAccounted, StatusIsTrue, ReaderIsKnown, SampleCount
  <2>2. /\ SampleCount \in Nat /\ Frames(SampleCount) \in Nat
        /\ Center \in Nat /\ Center >= 1 /\ TimeFilter = 2 * Center + 1
    BY <2>1, WholeRowsAreRows, TimeFilterHasMiddle
  <2>3. phase' = "chunk"
    BY <1>1, <1>5
  <2>4. Reached(core) = 0
    <3>1. SampleCount # 0
      <4>1. CASE SampleCount = 0
        <5>1. SampleCount < Hop * TimeFilter
          BY <2>2, <4>1, ExtractAssumption
        <5>2. Frames(SampleCount) = 0
          BY <5>1 DEF Frames
        <5>3. QED
          BY <1>5, <5>2
      <4>2. QED
        BY <4>1
    <3>2. OutputStart(core) = 0
      BY <1>2 DEF OutputStart
    <3>3. QED
      BY <1>2, <2>2, <3>1, <3>2 DEF Reached, Least
  <2>5. RowsFollow'
    <3>1. AreFrames(rows, frame_count)'
      BY <1>1, <1>2 DEF AreFrames
    <3>2. Reached(core)' = Reached(core)
      BY <1>1, <1>3 DEF Reached
    <3>3. QED
      BY <1>1, <1>2, <1>3, <1>5, <2>4, <3>1, <3>2 DEF RowsFollow
  <2>6. WindowFollows'
    <3>1. Least(0, TimeFilter - 1) = 0
      BY <2>2 DEF Least
    <3>2. QED
      BY <1>1, <1>2, <3>1 DEF WindowFollows
  <2>7. QueueFollows'
    <3>1. 0 \in 0 .. LastPeaks /\ Saturated(0, 2 * Center) = 0
      BY <2>2 DEF LastPeaks, Saturated
    <3>2. WholeEvents \in Seq(Events)
      BY <2>1, <3>1, EventsGoOn
    <3>3. EventsTo(0) = <<>>
      <4>1. 0 \in Nat /\ \A i \in 1 .. 0 : PeakLists[i] \in Seq(Events)
        OBVIOUS
      <4>2. QED
        BY <4>1, FlatGrows DEF EventsTo
    <3>4. <<>> \in Seq(Events) /\ Len(WholeEvents) \in Nat
      BY <3>2, EmptySeq
    <3>5. IsView(<<>>, WholeEvents, 0)
      BY <3>2, <3>4 DEF IsView
    <3>6. PackFirst(WholeEvents, 0) = <<>>
      <4>1. 0 \in 0 .. Len(WholeEvents)
        BY <3>4
      <4>2. PackFirst(WholeEvents, 0) = Flat(AllLandmarks(WholeEvents), 0)
        BY <3>2, <4>1, PackIsFlat
      <4>3. 0 \in Nat /\ \A i \in 1 .. 0 : AllLandmarks(WholeEvents)[i] \in Seq(Events)
        OBVIOUS
      <4>4. Flat(AllLandmarks(WholeEvents), 0) = <<>>
        BY <4>3, FlatGrows
      <4>5. QED
        BY <4>2, <4>4
    <3>7. HasGiven(0)'
      BY <1>1, <1>2, <1>3, <3>1, <3>3, <3>5, <3>6 DEF HasGiven, EventsTo
    <3>8. QED
      BY <3>7 DEF QueueFollows
  <2>8. QED
    BY <1>1, <1>3, <2>3, <2>5, <2>6, <2>7 DEF StreamFollows
<1>6. QED
  BY <1>4, <1>5

\* Nothing but the phase changes.
LEMMA SameFollows ==
    ASSUME StreamFollows, UNCHANGED decode_vars,
           UNCHANGED <<core, rows, magnitudes, frame_count, events, emitted>>,
           phase' = "error" \/ phase' = phase
    PROVE  StreamFollows'
<1>1. /\ SampleCount' = SampleCount /\ Frames(SampleCount)' = Frames(SampleCount)
      /\ WholeRows' = WholeRows /\ WholeEvents' = WholeEvents /\ Whole' = Whole
      /\ reader' = reader /\ PeakLists' = PeakLists
  BY SameFile
<1>2. CASE phase' = "error"
  BY <1>2 DEF StreamFollows
<1>3. CASE phase' = phase
  <2>1. RowsFollow => RowsFollow'
    BY <1>1, <1>3 DEF RowsFollow, AreFrames, Reached
  <2>2. WindowFollows => WindowFollows'
    BY <1>1 DEF WindowFollows
  <2>3. QueueFollows => QueueFollows'
    BY <1>1 DEF QueueFollows, HasGiven, EventsTo
  <2>4. QED
    BY <1>1, <1>3, <2>1, <2>2, <2>3 DEF StreamFollows
<1>4. QED
  BY <1>2, <1>3

LEMMA NextFollows == IInv /\ StreamInv /\ StreamFollows /\ [Next]_vars => StreamFollows'
<1> SUFFICES ASSUME IInv, StreamInv, StreamFollows, [Next]_vars PROVE StreamFollows'
  OBVIOUS
<1>1. CASE DecodeStep
  <2>1. /\ DecodeNext /\ phase' = phase
        /\ UNCHANGED <<core, rows, magnitudes, frame_count, events, emitted>>
    BY <1>1 DEF DecodeStep, stream_vars
  <2>2. reader # "decoded"
    BY <2>1, DecodedStays
  <2>3. phase \notin {"chunk", "rows", "ok"}
    BY <2>2 DEF StreamFollows
  <2>4. QED
    BY <2>1, <2>3 DEF StreamFollows
<1>2. CASE GiveUp \/ ReadFails \/ UNCHANGED vars
  <2>1. /\ UNCHANGED decode_vars
        /\ UNCHANGED <<core, rows, magnitudes, frame_count, events, emitted>>
        /\ phase' = "error" \/ phase' = phase
    BY <1>2 DEF GiveUp, ReadFails, vars, stream_vars
  <2>2. QED
    BY <2>1, SameFollows
<1>3. QED
  BY <1>1, <1>2, ExtractChunksFollows, ReadChunkFollows, PushRowFollows, FinishFollows DEF Next

\* Streaming in chunks changes nothing of what a file's fingerprints are.
THEOREM StreamStaysWhole == Spec => []StreamIsWhole
<1>1. IInv /\ StreamFollows => (phase = "chunk" => IsPrefix(emitted, Whole))
      /\ (phase = "ok" => emitted = IF Frames(SampleCount) = 0 THEN <<>> ELSE Whole)
  <2> SUFFICES ASSUME IInv, StreamFollows
               PROVE  /\ phase = "chunk" => IsPrefix(emitted, Whole)
                      /\ phase = "ok" => emitted = IF Frames(SampleCount) = 0 THEN <<>> ELSE Whole
    OBVIOUS
  <2>1. phase = "chunk" => QueueFollows
    BY DEF StreamFollows
  <2>2. phase = "ok" => emitted = IF Frames(SampleCount) = 0 THEN <<>> ELSE Whole
    BY DEF StreamFollows
  <2>3. QED
    BY <2>1, <2>2, GivenIsPrefix
<1>2. OnlyWholeFilesAreEmitted /\ IInv /\ StreamFollows => StreamIsWhole
  BY <1>1 DEF StreamIsWhole
<1>3. Spec => [](IInv /\ StreamInv /\ StreamFollows)
  BY StreamInvariant, InitFollows, NextFollows, PTL DEF Spec
<1>4. QED
  BY <1>2, <1>3, OnlyWholeFilesStayEmitted, PTL
==============================================================================
