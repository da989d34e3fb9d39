----------------------------- MODULE MCExtract -----------------------------
(* Files of up to four chunks, some with dense and some with sparse         *)
(* magnitudes, that decode well, badly, partly and with many messages.      *)
EXTENDS Extract

MCBandCount == 7
\* The last bands have no value in every other frame, as low bands do.
MCNativeStep == [band \in 0 .. MCBandCount - 1 |-> IF band < 3 THEN 1 ELSE IF band < 6 THEN 2 ELSE 4]

\* Three families: a cheap generator, a comb of equal peaks, and silence but
\* for a few peaks around the borders of the chunks.
Dense(seed) ==
    [band \in 0 .. MCBandCount - 1 |-> [s \in 0 .. 63 |->
        ((s * s * (band + seed) + 3 * s * seed + 5 * band) % 11) \div 2]]

Comb(seed) ==
    [band \in 0 .. MCBandCount - 1 |-> [s \in 0 .. 63 |->
        IF (s \div 2 + band * seed) % 4 = 0 THEN 2 ELSE 0]]

Sparse(seed) ==
    [band \in 0 .. MCBandCount - 1 |-> [s \in 0 .. 63 |->
        IF (s * 7 + band * 5 + seed) % 17 < 2 THEN 1 + ((s + band) % 3) ELSE 0]]

Levels == { Dense(seed) : seed \in 1 .. 4 } \cup { Comb(seed) : seed \in 1 .. 2 }
              \cup { Sparse(seed) : seed \in 1 .. 4 }

Audio(samples, level) ==
    [bytes |-> 2 * samples, messages |-> 0, success |-> TRUE, level |-> level]

Troubled(bytes, messages, success) ==
    [bytes |-> bytes, messages |-> messages, success |-> success, level |-> Sparse(1)]

MCFiles ==
    { Audio(samples, level) : samples \in {41, 58, 64}, level \in Levels }
    \cup { Troubled(bytes, messages, success) :
               bytes \in {0, 96, 97}, messages \in {0, 40, 41}, success \in BOOLEAN }
    \cup { Audio(samples, Sparse(2)) : samples \in {9, 26, 34, 48} }
=============================================================================
