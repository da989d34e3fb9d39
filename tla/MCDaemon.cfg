SPECIFICATION FairSpec
CONSTANTS
    Workers = {w1, w2}
    Lines = {enroll, read, write, extract}
    w1 = w1
    w2 = w2
    ScopeWorker = w1
    enroll = enroll
    read = read
    write = write
    extract = extract
    Kind <- MCKind
    Initial = 0
    Stdin = Stdin
    Nobody = Nobody
INVARIANTS
    TypeOK
    NothingHeldIsSuspended
    ScratchIsBorrowedOnce
    ServedIsNewest
    ReadYourWrites
    ExitAnswersEveryLine
PROPERTIES
    ServedNeverGoesBack
    EveryLineIsAnswered
\* The client may close stdin, and the process ends.
CHECK_DEADLOCK FALSE
