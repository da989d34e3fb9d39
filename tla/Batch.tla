-------------------------------- MODULE Batch --------------------------------
(***************************************************************************)
(* What resident refingerprint promises of an output directory             *)
(* (ARCHITECTURE.md, "Batch re-fingerprinting"): it belongs to one         *)
(* manifest, a resource appears in it once and as a whole, with the key    *)
(* and the audio that its line names, and a finished run reports exactly   *)
(* the resources that are still missing.                                   *)
(***************************************************************************)
EXTENDS Naturals

CONSTANTS
    Ids,        \* the line numbers a manifest may have
    Manifests,  \* the manifests a run may be given: line number -> its item
    None        \* what is not there yet

VARIABLES
    bound,      \* the manifest the directory belongs to, or None
    done,       \* line -> the resource produced for it, or None
    report      \* the lines that the last finished run failed, or None

vars == <<bound, done, report>>

Init ==
    /\ bound = None
    /\ done = [i \in Ids |-> None]
    /\ report = None

Bind ==
    /\ bound = None
    /\ bound' \in Manifests
    /\ UNCHANGED <<done, report>>

Produce(i) ==
    /\ bound # None
    /\ i \in DOMAIN bound
    /\ done[i] = None
    /\ done' = [done EXCEPT ![i] = bound[i]]
    /\ UNCHANGED <<bound, report>>

Report ==
    /\ bound # None
    /\ report' = { i \in DOMAIN bound : done[i] = None }
    /\ UNCHANGED <<bound, done>>

Next == Bind \/ Report \/ \E i \in Ids : Produce(i)

Spec == Init /\ [][Next]_vars
=============================================================================
