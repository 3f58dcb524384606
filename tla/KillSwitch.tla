----------------------------- MODULE KillSwitch -----------------------------
(***************************************************************************)
(* The kill switch of core/kill_switch.py: a singleton per engine process  *)
(* that halts order routing for the whole system or for one user.  The     *)
(* halt is kept in the memory of the process and mirrored in Redis, where  *)
(* the other processes read it.                                            *)
(*                                                                         *)
(* trip, reset and is_halted touch the process's memory and Redis in       *)
(* separate statements, with network calls between them, and are called    *)
(* from several threads (trading loop, watchdogs, HTTP handlers), so each  *)
(* statement is an action of its own and the set calls holds the calls     *)
(* that are under way, each at the statement it has come to.  trip begins  *)
(* as is_halted does, and only at the end do the two differ.               *)
(*                                                                         *)
(* Not modelled: the Slack alert and the mass cancel thread of trip, which *)
(* change nothing here, and the CycleWatchdog that reset also resets.      *)
(***************************************************************************)
EXTENDS Naturals, FiniteSets

CONSTANTS
    Procs,       \* engine processes that share one Redis
    Users,       \* user ids a halt can be scoped to
    System,      \* the global scope, user_id = None
    RedisFails,  \* TRUE if a Redis call may raise (the code swallows it)
    MaxCalls     \* bound: calls that are under way at once

ASSUME KillSwitchAssumption ==
    /\ System \notin Users
    /\ RedisFails \in BOOLEAN
    /\ MaxCalls \in Nat

Scopes == Users \cup {System}

VARIABLES
    connected,    \* connected[p]: p reached Redis when it started
    localHalted,  \* localHalted[p]: _local_halted of p
    userHalted,   \* userHalted[p]: users with a true _user_halted entry in p
    redis,        \* scopes whose system_halted key is "true" in Redis
    calls,        \* <<p, s, step>>: a call of p for scope s is about to step
    tripped       \* history: scopes a trip was ever carried out for

memory == <<localHalted, userHalted>>
vars == <<connected, localHalted, userHalted, redis, calls, tripped>>

(* The statements a call can be about to carry out: the two reads of         *)
(* is_halted, the caching of a halt that it read, the end of a check that    *)
(* found no halt, the SET of trip and the DEL of reset.                      *)
Steps == {"get system", "get user", "cache", "not halted", "set", "delete"}

-----------------------------------------------------------------------------

(* What the memory of p says of scope s: the two early returns of is_halted. *)
CachedHalt(p, s) == localHalted[p] \/ s \in userHalted[p]

(* Faulty variant: a global halt is stored in the map of the users.          *)
HaltMemoryUnscoped(p, s) ==
    /\ userHalted' = [userHalted EXCEPT ![p] = @ \cup {s}]
    /\ UNCHANGED localHalted

(* Storing a halt of scope s in the memory of p. *)
HaltMemory(p, s) ==
    IF s = System
    THEN /\ localHalted' = [localHalted EXCEPT ![p] = TRUE]
         /\ UNCHANGED userHalted
    ELSE /\ userHalted' = [userHalted EXCEPT ![p] = @ \cup {s}]
         /\ UNCHANGED localHalted

(* Faulty variant: a global reset leaves the map of the users.               *)
ClearMemoryOfScope(p, s) ==
    IF s = System
    THEN /\ localHalted' = [localHalted EXCEPT ![p] = FALSE]
         /\ UNCHANGED userHalted
    ELSE /\ userHalted' = [userHalted EXCEPT ![p] = @ \ {s}]
         /\ UNCHANGED localHalted

(* Clearing it: a global reset also empties the map of users. *)
ClearMemory(p, s) ==
    IF s = System
    THEN /\ localHalted' = [localHalted EXCEPT ![p] = FALSE]
         /\ userHalted' = [userHalted EXCEPT ![p] = {}]
    ELSE /\ userHalted' = [userHalted EXCEPT ![p] = @ \ {s}]
         /\ UNCHANGED localHalted

(* A Redis write leaves the flags as newRedis, or unchanged if it raises. *)
WriteRedis(newRedis) ==
    \/ redis' = newRedis
    \/ RedisFails /\ UNCHANGED redis

(* A thread may begin a call: the bound on calls under way is not reached.   *)
MayCall == Cardinality(calls) < MaxCalls

(* A call of p for s begins, goes on to another statement, or returns.       *)
Begin(p, s, step) ==
    /\ MayCall
    /\ calls' = calls \cup {<<p, s, step>>}

GoOn(p, s, step, next) ==
    /\ <<p, s, step>> \in calls
    /\ calls' = (calls \ {<<p, s, step>>}) \cup {next}

Return(p, s, step) ==
    /\ <<p, s, step>> \in calls
    /\ calls' = calls \ {<<p, s, step>>}

Init ==
    /\ connected \in [Procs -> BOOLEAN]
    /\ localHalted = [p \in Procs |-> FALSE]
    /\ userHalted = [p \in Procs |-> {}]
    /\ redis = {}
    /\ calls = {}
    /\ tripped = {}

-----------------------------------------------------------------------------

(* is_halted(s), or trip(s) through it, finds no halt in the memory of p.    *)
(* One that does find a halt there returns at once.                          *)
Ask(p, s) ==
    /\ ~CachedHalt(p, s)
    /\ Begin(p, s, IF connected[p] THEN "get system" ELSE "not halted")
    /\ UNCHANGED <<connected, memory, redis, tripped>>

(* The first read, of the flag of the system. *)
GetSystem(p, s) ==
    /\ GoOn(p, s, "get system",
            IF System \in redis THEN <<p, System, "cache">>
            ELSE <<p, s, IF s = System THEN "not halted" ELSE "get user">>)
    /\ UNCHANGED <<connected, memory, redis, tripped>>

(* The second read, of the flag of the user; the first is not repeated. *)
GetUser(p, s) ==
    /\ GoOn(p, s, "get user",
            <<p, s, IF s \in redis THEN "cache" ELSE "not halted">>)
    /\ UNCHANGED <<connected, memory, redis, tripped>>

(* A read that raises counts as no halt. *)
GetFails(p, s) ==
    /\ RedisFails
    /\ \E step \in {"get system", "get user"} :
          GoOn(p, s, step, <<p, s, "not halted">>)
    /\ UNCHANGED <<connected, memory, redis, tripped>>

(* Faulty variant: the halt is stored for the system only.                   *)
CacheHaltOfSystem(p, s) ==
    /\ IF s = System THEN HaltMemory(p, s) ELSE UNCHANGED memory
    /\ Return(p, s, "cache")
    /\ UNCHANGED <<connected, redis, tripped>>

(* is_halted stores the halt it read, whatever happened in between. *)
CacheHalt(p, s) ==
    /\ HaltMemory(p, s)
    /\ Return(p, s, "cache")
    /\ UNCHANGED <<connected, redis, tripped>>

(* A check that found no halt returns, if it was not a trip ... *)
NotHalted(p, s) ==
    /\ Return(p, s, "not halted")
    /\ UNCHANGED <<connected, memory, redis, tripped>>

(* ... or trip(s) goes on and halts the memory of p.  A halt that another    *)
(* thread stored, or set in Redis, since it looked does not hold it up.      *)
TripMemory(p, s) ==
    /\ HaltMemory(p, s)
    /\ IF connected[p] THEN GoOn(p, s, "not halted", <<p, s, "set">>)
                       ELSE Return(p, s, "not halted")
    /\ tripped' = tripped \cup {s}
    /\ UNCHANGED <<connected, redis>>

(* Faulty variant: the key of the system is set for every scope.             *)
TripRedisGlobal(p, s) ==
    /\ Return(p, s, "set")
    /\ WriteRedis(redis \cup {System})
    /\ UNCHANGED <<connected, memory, tripped>>

(* trip(s) sets the key of s in Redis. *)
TripRedis(p, s) ==
    /\ Return(p, s, "set")
    /\ WriteRedis(redis \cup {s})
    /\ UNCHANGED <<connected, memory, tripped>>

ResetMemory(p, s) ==
    /\ ClearMemory(p, s)
    /\ IF connected[p] THEN Begin(p, s, "delete") ELSE UNCHANGED calls
    /\ UNCHANGED <<connected, redis, tripped>>

(* Only the key of the scope itself is deleted. *)
ResetRedis(p, s) ==
    /\ Return(p, s, "delete")
    /\ WriteRedis(redis \ {s})
    /\ UNCHANGED <<connected, memory, tripped>>

(* The process dies and starts again: its memory and its calls under way are *)
(* gone, Redis is not, and the ping of __init__ decides whether it connects. *)
Restart(p) ==
    /\ \E c \in BOOLEAN : connected' = [connected EXCEPT ![p] = c]
    /\ localHalted' = [localHalted EXCEPT ![p] = FALSE]
    /\ userHalted' = [userHalted EXCEPT ![p] = {}]
    /\ calls' = {c \in calls : c[1] # p}
    /\ UNCHANGED <<redis, tripped>>

Next ==
    \E p \in Procs :
        \/ Restart(p)
        \/ \E s \in Scopes :
              \/ Ask(p, s)
              \/ GetSystem(p, s)
              \/ GetUser(p, s)
              \/ GetFails(p, s)
              \/ CacheHalt(p, s)
              \/ NotHalted(p, s)
              \/ TripMemory(p, s)
              \/ TripRedis(p, s)
              \/ ResetMemory(p, s)
              \/ ResetRedis(p, s)

Spec == Init /\ [][Next]_vars

(* A call that has begun completes, and every process keeps asking: the      *)
(* trading loop calls is_halted in each cycle and the order paths call it    *)
(* before each order.  Ask needs strong fairness because a call of another   *)
(* thread may stand in its way for a moment, and the next cycle asks again.  *)
Fairness ==
    \A p \in Procs, s \in Scopes :
        /\ SF_vars(Ask(p, s))
        /\ WF_vars(GetSystem(p, s) \/ GetFails(p, s))
        /\ WF_vars(GetUser(p, s) \/ GetFails(p, s))
        /\ WF_vars(CacheHalt(p, s))
        /\ WF_vars(NotHalted(p, s) \/ TripMemory(p, s))
        /\ WF_vars(TripRedis(p, s))
        /\ WF_vars(ResetRedis(p, s))

FairSpec == Spec /\ Fairness

-----------------------------------------------------------------------------

TypeOK ==
    /\ connected \in [Procs -> BOOLEAN]
    /\ localHalted \in [Procs -> BOOLEAN]
    /\ userHalted \in [Procs -> SUBSET Users]
    /\ redis \subseteq Scopes
    /\ calls \subseteq Procs \X Scopes \X Steps
    /\ tripped \subseteq Scopes

(* A halt found anywhere, in a process, in Redis or in a call between the    *)
(* two, was asked for: the scope itself was tripped.  So the halt of one     *)
(* tenant can never stop another one, through whichever process, cache or    *)
(* key it travelled (the scoping of kill_switch.py by user_id).              *)
HaltsAreScoped ==
    /\ redis \subseteq tripped
    /\ \A p \in Procs :
          /\ localHalted[p] => System \in tripped
          /\ userHalted[p] \subseteq tripped
    /\ \A p \in Procs, s \in Scopes :
          <<p, s, "cache">> \in calls \/ <<p, s, "set">> \in calls
              => s \in tripped

(* What the memory of p holds halted, and the contract of HaltContract.      *)
HeldHalts(p) == userHalted[p] \cup IF localHalted[p] THEN {System} ELSE {}

Contract == INSTANCE HaltContract WITH halts <- [p \in Procs |-> HeldHalts(p)]

(* Through Redis, failing writes, stale reads and restarts each process sees *)
(* nothing but halts that were tripped, one at a time, and its own resets,   *)
(* of which that of the system ends all halts: a call that is under way, or  *)
(* a reset elsewhere, changes no halt that a process holds.                  *)
KeepsContract == Contract!Spec

(* A read of p fails and misses a halt.  One that fails without missing any  *)
(* looks like one that found none.                                           *)
Misses(p, s) == GetFails(p, s) /\ {System, s} \cap redis # {}

(* Process p is no longer restarted or asked to reset, and its reads no      *)
(* longer miss a halt.                                                       *)
LeftAlone(p) ==
    <>[][/\ ~Restart(p)
         /\ \A s \in Scopes : ~ResetMemory(p, s) /\ ~Misses(p, s)]_vars

(* A halt that stays in Redis reaches every process that stays connected,    *)
(* and sticks there: also after global resets have wiped the user map of     *)
(* that process, because they leave the keys of the users in Redis.          *)
HaltPropagates ==
    \A p \in Procs, s \in Scopes :
        <>[](s \in redis /\ connected[p]) /\ LeftAlone(p)
            => <>[]CachedHalt(p, s)

=============================================================================
