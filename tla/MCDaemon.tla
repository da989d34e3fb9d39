------------------------------ MODULE MCDaemon ------------------------------
(* Daemon with lines of every kind. *)
EXTENDS Daemon

CONSTANTS w1, w2, enroll, read, write, extract

MCKind == [l \in Lines |->
    CASE l = enroll -> "enroll"
      [] l = read   -> "read"
      [] l = write  -> "write"
      [] l = extract -> "extract"]
=============================================================================
