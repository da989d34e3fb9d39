------------------------------ MODULE MCStore -------------------------------
(* Store on a root of two shards: keys 1 and 2 share shard 0, key 3 is alone *)
(* in shard 1.                                                               *)
EXTENDS Store

MCKeys == {1, 2, 3}
MCShardOf == [k \in MCKeys |-> IF k = 3 THEN 1 ELSE 0]

A == <<[t |-> 1, hash |-> 10]>>
B == <<[t |-> 2, hash |-> 11], [t |-> 3, hash |-> 20]>>

Dump(key, prints, duration) == [key |-> key, prints |-> prints, duration |-> duration]

\* Single resources, a batch over both shards, one with a repeated key, none.
MCBatches ==
    { {}, {Dump(1, A, 900)}, {Dump(1, B, 900)}, {Dump(2, A, 900)},
      {Dump(1, A, 900), Dump(3, B, 900)}, {Dump(2, A, 900), Dump(2, B, 900)} }

Update(key, millis) == [key |-> key, duration |-> millis]

\* For each set of stored keys: a fitting file, one too long, one incomplete.
MCDurationFiles ==
    { {Update(1, 1000)}, {Update(1, 1000), Update(3, 2000)}, {Update(1, 20000)},
      {Update(1, 1000), Update(1, 2000)} }
=============================================================================
