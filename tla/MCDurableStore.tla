---------------------------- MODULE MCDurableStore ----------------------------
(* DurableStore for TLC: two keys, batches that put both keys, that delete   *)
(* one, and that write one key twice.                                        *)
EXTENDS DurableStore

CONSTANTS a, b, k1, k2

Put(k, v) == [kind |-> "put", key |-> k, value |-> v]
Delete(k) == [kind |-> "delete", key |-> k]
MCBatches == {<<Put(k1, 1), Put(k2, 1)>>, <<Put(k1, 1), Put(k1, 2)>>, <<Delete(k2)>>}
==============================================================================
