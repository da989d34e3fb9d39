--------------------------- MODULE MCRefingerprint ---------------------------
(* Refingerprint with small manifests. *)
EXTENDS Refingerprint, TLC

CONSTANTS t1, t2, t3, wav, mp3, one, two, three, broken

Line(key, audio) == [key |-> key, audio |-> audio]

\* A key that holds a line break.
BrokenManifests == { <<Line(broken, wav)>> }

\* Manifests that disagree on what their lines are.
SomeManifests ==
    BrokenManifests \union
    { <<Line(one, wav), Line(two, mp3), Line(three, wav)>>, <<Line(two, wav)>> }

\* More lines than threads.
LongManifests ==
    { <<Line(one, wav), Line(two, wav), Line(three, wav), Line(broken, wav)>> }

Keys == {one, two, three}

Interchangeable == Permutations(Threads)
=============================================================================
