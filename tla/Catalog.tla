------------------------------ MODULE Catalog -------------------------------
(***************************************************************************)
(* What the store promises its one writer (CONTRACT.md, ingest, retire,    *)
(* identity rehash and duration publication): a map from caller keys to    *)
(* resources that every request changes completely or not at all.  It      *)
(* knows nothing of shards, manifests or files; Store implements it.       *)
(***************************************************************************)
EXTENDS Naturals, FiniteSets

CONSTANTS MaxId, FitsExtent(_, _), None

VARIABLES
    catalog,   \* key -> [id, duration, prints] of every stored resource
    version,   \* the generation a reader of the catalog reports
    identified,\* whether its endpoint identities follow the prints-v1 profile
    phase,     \* "idle", "pending" (nothing done yet) or "done" (committed)
    request,   \* the request in progress, NoRequest between requests
    reply      \* its outcome

NoRequest == [type |-> "none"]

vars == <<catalog, version, identified, phase, request, reply>>

-----------------------------------------------------------------------------
(* What each request asks for, as a predicate on the catalog before it.    *)

IngestKeys(batch) == { r.key : r \in batch }

OnePerKey(batch) == \A r, s \in batch : r.key = s.key => r = s

Same(r) == r.key \in DOMAIN catalog /\ catalog[r.key].prints = r.prints

Ids == { catalog[k].id : k \in DOMAIN catalog }

IdsLeft(batch) ==
    LET fresh == Cardinality({ r \in batch : r.key \notin DOMAIN catalog })
    IN  \E last \in 0 .. MaxId :
            (\A id \in Ids : id <= last) /\ last + fresh <= MaxId

\* The source also spends one spare id, so it may refuse when ids run short.
ShortOfIds(batch) ==
    \E id \in Ids : id + Cardinality(batch) + 1 > MaxId

CanIngest(r) ==
    /\ r.batch # {}
    /\ OnePerKey(r.batch)
    /\ IdsLeft(r.batch)
    /\ r.replace \/ \A res \in r.batch : res.key \in DOMAIN catalog => Same(res)

CanRetire(r) == r.key \in DOMAIN catalog /\ Cardinality(DOMAIN catalog) > 1

CanSetDurations(r) ==
    /\ r.expected = version
    /\ identified
    /\ OnePerKey(r.updates)
    /\ IngestKeys(r.updates) = DOMAIN catalog
    /\ \A u \in r.updates : u.duration > 0 /\ FitsExtent(catalog[u.key].prints, u.duration)

Accepts(r) ==
    CASE r.type = "ingest"    -> CanIngest(r)
      [] r.type = "retire"    -> CanRetire(r)
      [] r.type = "rehash"    -> DOMAIN catalog # {}
      [] r.type = "durations" -> DOMAIN catalog # {} /\ CanSetDurations(r)

-----------------------------------------------------------------------------
(* The effects.  Unchanged content is left alone, durations and all; new   *)
(* keys get ids nothing else has; a replaced key keeps its id.             *)

Ingested(r) ==
    LET changed == { res \in r.batch : ~Same(res) }
        Incoming(k) == CHOOSE res \in changed : res.key = k
    IN  /\ DOMAIN catalog' = DOMAIN catalog \union IngestKeys(changed)
        /\ \A k \in DOMAIN catalog' :
             IF k \in IngestKeys(changed)
             THEN /\ catalog'[k].prints = Incoming(k).prints
                  /\ catalog'[k].duration = Incoming(k).duration
                  /\ IF k \in DOMAIN catalog THEN catalog'[k].id = catalog[k].id
                                             ELSE catalog'[k].id \notin Ids
             ELSE catalog'[k] = catalog[k]
        /\ \A j, k \in DOMAIN catalog' : catalog'[j].id = catalog'[k].id => j = k

Retired(r) == catalog' = [k \in DOMAIN catalog \ {r.key} |-> catalog[k]]

DurationsSet(r) ==
    LET New(k) == (CHOOSE u \in r.updates : u.key = k).duration
    IN  catalog' = [k \in DOMAIN catalog |-> [catalog[k] EXCEPT !.duration = New(k)]]

Effect(r) ==
    CASE r.type = "ingest"    -> Ingested(r)
      [] r.type = "retire"    -> Retired(r)
      [] r.type = "rehash"    -> catalog' = catalog
      [] r.type = "durations" -> DurationsSet(r)

\* Requests that may be answered ok although nothing is committed.
NothingToDo(r) ==
    \/ r.type = "ingest" /\ \A res \in r.batch : Same(res)
    \/ r.type = "rehash" /\ identified
    \/ r.type = "durations" /\ \A u \in r.updates : catalog[u.key].duration = u.duration

-----------------------------------------------------------------------------
Init ==
    /\ phase = "idle"
    /\ request = NoRequest
    /\ reply = "none"
    /\ DOMAIN catalog = {} <=> version = None

Submit ==
    /\ phase = "idle"
    /\ request'.type \in {"ingest", "retire", "rehash", "durations"}
    /\ phase' = "pending"
    /\ reply' = "none"
    /\ UNCHANGED <<catalog, version, identified>>

\* The one step that changes what readers see: the whole request takes effect.
Commit ==
    /\ phase = "pending"
    /\ Accepts(request)
    /\ ~NothingToDo(request)
    /\ Effect(request)
    /\ version' # version
    /\ identified' = (identified \/ request.type = "rehash" \/ DOMAIN catalog = {})
    /\ phase' = "done"
    /\ UNCHANGED <<request, reply>>

Succeed ==
    /\ \/ phase = "done"
       \/ phase = "pending" /\ Accepts(request) /\ NothingToDo(request)
    /\ phase' = "idle"
    /\ request' = NoRequest
    /\ reply' = "ok"
    /\ UNCHANGED <<catalog, version, identified>>

\* A refusal publishes nothing.
Refuse ==
    /\ phase = "pending"
    /\ ~Accepts(request) \/ (request.type = "ingest" /\ ShortOfIds(request.batch))
    /\ phase' = "idle"
    /\ request' = NoRequest
    /\ reply' \in {"bad_request", "store_missing"}
    /\ UNCHANGED <<catalog, version, identified>>

\* An internal error or a crash: the request took effect or it did not.
Fail ==
    /\ phase \in {"pending", "done"}
    /\ phase' = "idle"
    /\ request' = NoRequest
    /\ reply' \in {"internal", "none"}
    /\ UNCHANGED <<catalog, version, identified>>

Next == Submit \/ Commit \/ Succeed \/ Refuse \/ Fail

Spec == Init /\ [][Next]_vars
=============================================================================
