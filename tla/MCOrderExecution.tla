-------------------------- MODULE MCOrderExecution --------------------------
(***************************************************************************)
(* OrderExecution for TLC: two executions fed with the signals of one cfg. *)
(***************************************************************************)
EXTENDS OrderExecution, TLC

CONSTANTS u1, op, a

Signal(kind, acct, side) == [kind |-> kind, acct |-> acct, sym |-> a, side |-> side]

TenantSignals == {Signal("tenant", u1, "BUY"), Signal("tenant", u1, "SELL")}
TenantBuys == {Signal("tenant", u1, "BUY")}
\* A deployment with Redis that trades, and a dry run without a Redis client.
Mixed == {[backend |-> "redis", shadow |-> FALSE],
          [backend |-> "none", shadow |-> TRUE]}
RedisLive == {[backend |-> "redis", shadow |-> FALSE]}

AllSignals == {Signal("tenant", u1, "BUY"), Signal("global", op, "SELL"),
               Signal("strategy", op, "BUY")}

\* Another position is closed and recorded without its order being filled.
RecordedUnfilled == {[order |-> "open", booked |-> TRUE]}

\* The executions are interchangeable; no liveness is checked with it.
Symmetry == Permutations(Tasks)

=============================================================================
