SPECIFICATION Spec
CONSTANTS
    t1 = t1
    t2 = t2
    t3 = t3
    wav = wav
    mp3 = mp3
    one = one
    two = two
    three = three
    broken = broken
    None = None
    Ids = {1, 2, 3, 4}
    Manifests <- LongManifests
    Legible <- Keys
    Audio = {wav, mp3}
    Threads = {t1, t2, t3}
    MaxRuns = 1
SYMMETRY Interchangeable
INVARIANTS
    JobsBoundExtractions
\* Nobody has to run the batch again.
CHECK_DEADLOCK FALSE
