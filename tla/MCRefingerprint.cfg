SPECIFICATION Spec
CONSTANTS
    t1 = t1
    t2 = t2
    t3 = t3
    wav = wav
    mp3 = mp3
    one = one
    two = two
    three = three
    broken = broken
    None = None
    Ids = {1, 2, 3}
    Manifests <- SomeManifests
    Legible <- Keys
    Audio = {wav, mp3}
    Threads = {t1, t2}
    MaxRuns = 3
SYMMETRY Interchangeable
INVARIANTS
    TypeOK
    MetadataMeansComplete
    ResumeIsAccepted
    FinishedRunIsClean
PROPERTIES
    ImplementsBatch
\* Nobody has to run the batch again.
CHECK_DEADLOCK FALSE
