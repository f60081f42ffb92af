-------------------------------- MODULE Pools --------------------------------
(***************************************************************************)
(* The connection pools, one for each database and profile that is asked   *)
(* for (backend/service/pool_manager.go), the handlers that borrow them    *)
(* and the end of the program (main.go).                                   *)
(*                                                                         *)
(* A handler gets its pools one after the other, the schema comparison two *)
(* (handler/schema.go, GetDrift), and then asks each its question.  No     *)
(* lock is held from the one to the other.  A pool is closed with pm.mu    *)
(* held, and Close waits for the connections that are out.                 *)
(*                                                                         *)
(* The default pool is never closed and is left out, with the requests it  *)
(* serves.  pgxpool is external: a pool that is closed refuses what is     *)
(* asked of it and lets what was asked before finish.  Of the time of the  *)
(* last use the model keeps the order and whether poolManagerIdleTTL has   *)
(* passed since.                                                           *)
(***************************************************************************)
EXTENDS Naturals, FiniteSets, Sequences, SequencesExt, Functions

CONSTANTS
  Request,               \* the requests that are not for the default pool
  Key,                   \* poolKey: profile and database
  KeysOf,                \* what each request asks for, one or two of them
  MaxPools,              \* poolManagerMaxPools
  MaxConns,              \* config.MaxConns
  Sweeper, Closer, Nobody  \* sweepIdlePools, PoolManager.Close, none

ASSUME PoolsAssumption ==
  /\ KeysOf \in [Request -> Seq(Key)] /\ \A r \in Request : Len(KeysOf[r]) \in 1 .. 2
  /\ MaxPools \in Nat \ {0} /\ MaxConns \in Nat \ {0}
  /\ {Sweeper, Closer, Nobody} \cap Request = {}
  /\ Sweeper # Closer /\ Sweeper # Nobody /\ Closer # Nobody

VARIABLES
  mu,       \* who holds pm.mu for writing
  pools,    \* pm.pools, by key
  recent,   \* its keys in the order of lastUsed
  idle,     \* those of them that were last used poolManagerIdleTTL ago or more
  state,    \* every pool there was
  out,      \* who has a connection of it
  doomed,   \* the keys whose pools the holder of pm.mu is to close
  at,       \* where each request is
  held,     \* the pools it has been handed and has still to ask
  process,  \* the program
  risked    \* history: the requests that the sweep may have overtaken

poolVars == <<mu, pools, recent, idle, state, out, doomed, at, held, process, risked>>

\* A pool is named for the request that made it, and for which of its keys.
Pool == {<<r, i>> : r \in Request, i \in 1 .. 2}

Over    == {"done", "refused", "failed"}
Waiting == {"ask", "touch", "miss"}      \* for pm.mu

PoolsTypeOK ==
  /\ mu \in Request \cup {Sweeper, Closer, Nobody}
  /\ IsInjective(pools) /\ DOMAIN pools \subseteq Key /\ Range(pools) \subseteq Pool
  /\ IsInjective(recent) /\ Range(recent) = DOMAIN pools /\ idle \subseteq DOMAIN pools
  /\ state \in [Pool -> {"none", "open", "closing", "evicted", "swept", "closed"}]
  /\ out \in [Pool -> SUBSET Request] /\ doomed \subseteq DOMAIN pools
  /\ at \in [Request -> {"new", "make", "query", "using"} \cup Waiting \cup Over]
  /\ held \in [Request -> Seq(Pool)]
  /\ process \in {"up", "closed", "gone"} /\ risked \subseteq Request

PoolsInit ==
  /\ mu = Nobody /\ pools = << >> /\ recent = << >> /\ idle = {} /\ doomed = {}
  /\ state = [p \in Pool |-> "none"] /\ out = [p \in Pool |-> {}]
  /\ at = [r \in Request |-> "new"] /\ held = [r \in Request |-> << >>]
  /\ process = "up" /\ risked = {}

-----------------------------------------------------------------------------
(* GetPoolForProfile *)

Nth(r) == Len(held[r]) + 1       \* which of its keys a request is at
Goto(r, s) == at' = [at EXCEPT ![r] = s]

\* What a request does with one more pool.
Handed(r, p) ==
  /\ held' = [held EXCEPT ![r] = Append(@, p)]
  /\ Goto(r, IF Nth(r) < Len(KeysOf[r]) THEN "ask" ELSE "query")

\* The order without one of its keys.
Without(s, k) == RemoveAt(s, CHOOSE i \in DOMAIN s : s[i] = k)

\* lastUsed = now
Used(k) == recent' = Append(Without(recent, k), k) /\ idle' = idle \ {k}

Begin(r) == at[r] = "new" /\ Goto(r, "ask") /\ UNCHANGED <<mu, pools, recent, idle, state, out, doomed, held, process, risked>>

\* Under the read lock, which it gives back.
Lookup(r) ==
  /\ at[r] = "ask" /\ mu = Nobody
  /\ Goto(r, IF KeysOf[r][Nth(r)] \in DOMAIN pools THEN "touch" ELSE "miss")
  /\ held' = IF KeysOf[r][Nth(r)] \in DOMAIN pools
             THEN [held EXCEPT ![r] = Append(@, pools[KeysOf[r][Nth(r)]])] ELSE held
  /\ UNCHANGED <<mu, pools, recent, idle, state, out, doomed, process, risked>>

\* Variant for checking the properties: what is found is not touched.
touchNothing(r) ==
  /\ at[r] = "touch" /\ mu = Nobody
  /\ Goto(r, IF Nth(r) <= Len(KeysOf[r]) THEN "ask" ELSE "query")
  /\ UNCHANGED <<mu, pools, recent, idle, state, out, doomed, held, process, risked>>

\* By then the key may be gone, or lead to another pool.
touchPool(r) ==
  /\ at[r] = "touch" /\ mu = Nobody
  /\ IF KeysOf[r][Len(held[r])] \in DOMAIN pools THEN Used(KeysOf[r][Len(held[r])])
                                                 ELSE UNCHANGED <<recent, idle>>
  /\ Goto(r, IF Nth(r) <= Len(KeysOf[r]) THEN "ask" ELSE "query")
  /\ UNCHANGED <<mu, pools, state, out, doomed, held, process, risked>>

\* The double check; then the least recently used pool makes room.
Miss(r) ==
  /\ at[r] = "miss" /\ mu = Nobody
  /\ LET k == KeysOf[r][Nth(r)] IN
     IF k \in DOMAIN pools
     THEN Used(k) /\ Handed(r, pools[k]) /\ UNCHANGED <<mu, doomed>>
     ELSE /\ mu' = r /\ Goto(r, "make")
          /\ doomed' = IF Len(recent) >= MaxPools THEN {Head(recent)} ELSE {}
          /\ UNCHANGED <<recent, idle, held>>
  /\ UNCHANGED <<pools, state, out, process, risked>>

Made(r) ==
  LET k == KeysOf[r][Nth(r)]
      p == <<r, Nth(r)>>
  IN  /\ pools' = [l \in DOMAIN pools \cup {k} |-> IF l = k THEN p ELSE pools[l]]
      /\ state' = [state EXCEPT ![p] = "open"]
      /\ recent' = Append(recent, k) /\ idle' = idle
      /\ Handed(r, p)

\* Variant for checking the properties: an error returns with the lock held.
MakeKeepsLock(r) ==
  /\ at[r] = "make" /\ mu = r /\ doomed = {}
  /\ \/ mu' = Nobody /\ Made(r)
     \/ Goto(r, "failed") /\ UNCHANGED <<mu, pools, recent, idle, state, held>>
  /\ UNCHANGED <<out, doomed, process, risked>>

\* The profile, the new pool and its first ping, any of which may fail; a pool
\* whose ping fails is closed.
Make(r) ==
  /\ at[r] = "make" /\ mu = r /\ doomed = {} /\ mu' = Nobody
  /\ \/ Made(r)
     \/ Goto(r, "failed") /\ UNCHANGED <<pools, recent, idle, state, held>>
  /\ UNCHANGED <<out, doomed, process, risked>>

-----------------------------------------------------------------------------
(* The questions, each on the next of the pools *)

Acquire(r) ==
  /\ at[r] = "query"
  /\ LET p == Head(held[r]) IN
     \/ /\ state[p] = "open" /\ Cardinality(out[p]) < MaxConns
        /\ out' = [out EXCEPT ![p] = @ \cup {r}] /\ Goto(r, "using")
     \/ state[p] # "open" /\ Goto(r, "refused") /\ UNCHANGED out
  /\ UNCHANGED <<mu, pools, recent, idle, state, doomed, held, process, risked>>

Release(r) ==
  /\ at[r] = "using"
  /\ out' = [out EXCEPT ![Head(held[r])] = @ \ {r}]
  /\ held' = [held EXCEPT ![r] = Tail(@)]
  /\ Goto(r, IF Len(held[r]) = 1 THEN "done" ELSE "query")
  /\ UNCHANGED <<mu, pools, recent, idle, state, doomed, process, risked>>

-----------------------------------------------------------------------------
(* Closing, by whoever holds pm.mu: a request, the sweep or the shutdown *)

Shutting == {k \in doomed : state[pools[k]] = "closing"}

\* pool.Close refuses from now on, one pool after the other, ...
CloseOne ==
  /\ Shutting = {}
  /\ \E k \in doomed : state' = [state EXCEPT ![pools[k]] = "closing"]
  /\ UNCHANGED <<mu, pools, recent, idle, out, doomed, at, held, process, risked>>

\* ... and waits for the last connection.
CloseDone ==
  /\ \E k \in Shutting :
       /\ out[pools[k]] = {}
       /\ state' = [state EXCEPT ![pools[k]] = CASE mu = Sweeper -> "swept"
                                                 [] mu = Closer  -> "closed"
                                                 [] OTHER        -> "evicted"]
       /\ pools' = [l \in DOMAIN pools \ {k} |-> pools[l]]
       /\ recent' = Without(recent, k)
       /\ idle' = idle \ {k} /\ doomed' = doomed \ {k}
  /\ UNCHANGED <<mu, out, at, held, process, risked>>

\* The requests that have a pool of ks and have not touched it.
Untouched(ks) == {r \in Request : at[r] = "touch" /\ KeysOf[r][Len(held[r])] \in ks}

sweepIdlePools ==
  /\ process = "up" /\ mu = Nobody /\ idle # {}
  /\ mu' = Sweeper /\ doomed' = idle
  /\ risked' = risked \cup Untouched(idle)
  /\ UNCHANGED <<pools, recent, idle, state, out, at, held, process>>

\* main returns as soon as the server stops listening; requests go on.
Close ==
  /\ process = "up" /\ mu = Nobody
  /\ mu' = Closer /\ doomed' = DOMAIN pools /\ process' = "closed"
  /\ UNCHANGED <<pools, recent, idle, state, out, at, held, risked>>

Unlock ==
  /\ mu \in {Sweeper, Closer} /\ doomed = {}
  /\ mu' = Nobody
  /\ UNCHANGED <<pools, recent, idle, state, out, doomed, at, held, process, risked>>

\* main has closed the default pool as well.
Exit ==
  /\ process = "closed" /\ mu = Nobody /\ process' = "gone"
  /\ UNCHANGED <<mu, pools, recent, idle, state, out, doomed, at, held, risked>>

\* poolManagerIdleTTL passes, which only a query, a ping, and what waits for
\* them take.
Delayed(r) ==
  \/ at[r] \in {"new", "make", "using"} \cup Over
  \/ at[r] \in Waiting /\ mu # Nobody
  \/ at[r] = "query" /\ state[Head(held[r])] = "open" /\ Cardinality(out[Head(held[r])]) >= MaxConns

TimePasses ==
  /\ \A r \in Request : Delayed(r)
  /\ idle # DOMAIN pools /\ idle' = DOMAIN pools
  /\ risked' = risked \cup {r \in Request : held[r] # << >> /\ at[r] \notin Over}
  /\ UNCHANGED <<mu, pools, recent, state, out, doomed, at, held, process>>

-----------------------------------------------------------------------------
PoolsNext ==
  /\ process # "gone"
  /\ \/ \E r \in Request : \/ Begin(r) \/ Lookup(r) \/ touchPool(r) \/ Miss(r) \/ Make(r)
                           \/ Acquire(r) \/ Release(r)
     \/ CloseOne \/ CloseDone \/ Unlock
     \/ sweepIdlePools \/ Close \/ Exit \/ TimePasses

PoolsSpec == PoolsInit /\ [][PoolsNext]_poolVars

\* Goroutines run on, queries and pings end, and neither sync.RWMutex nor
\* pgxpool, which serve in the order of arrival, passes over one who waits.
PoolsFairness ==
  /\ \A r \in Request :
       /\ SF_poolVars(process # "gone" /\ (Lookup(r) \/ touchPool(r) \/ Miss(r) \/ Acquire(r)))
       /\ WF_poolVars(process # "gone" /\ (Make(r) \/ Release(r)))
  /\ WF_poolVars(process # "gone" /\ (CloseOne \/ CloseDone \/ Unlock))

PoolsFairSpec == PoolsSpec /\ PoolsFairness

-----------------------------------------------------------------------------
\* Outside the lock the cache holds exactly the pools that are open: none is
\* lost with its connections, none is handed out after it was closed, and no
\* database has two.
CacheIsOpen ==
  /\ Cardinality(DOMAIN pools) <= MaxPools
  /\ mu = Nobody => Range(pools) = {p \in Pool : state[p] = "open"}
  /\ \A p \in Pool : out[p] # {} => p \in Range(pools)

\* A request is refused by a pool that others needed the place of, or that the
\* shutdown closed; the sweep does it only to one that had not touched its pool
\* (pool_manager.go 73) or was held up for as long as a pool may be idle.
RefusalsExplained ==
  \A r \in Request : at[r] = "refused" /\ state[Head(held[r])] = "swept" => r \in risked

PoolsExplained == CacheIsOpen /\ RefusalsExplained

\* What these rest on.  Who holds pm.mu has made room when nothing is left to
\* close, and a pool is closed by the holder alone; ...
RoomInv ==
  /\ recent \in Seq(Key) /\ Len(recent) <= MaxPools
  /\ mu \in Request /\ doomed = {} => Len(recent) < MaxPools
  /\ mu = Nobody => doomed = {}

OpenInv ==
  /\ Range(pools) = {p \in Pool : state[p] \in {"open", "closing"}}
  /\ \A k \in DOMAIN pools : state[pools[k]] = "closing" => k \in doomed
  /\ \A p \in Pool : out[p] # {} => p \in Range(pools)

\* ... a pool is for one key, and is made once; ...
Getting == {"new", "make"} \cup Waiting

KeyOf(p) == KeysOf[p[1]][p[2]]

MadeInv(r) ==
  /\ \A i \in DOMAIN held[r] : state[held[r][i]] # "none"
  /\ at[r] \in Getting =>
       \A i \in 1 .. 2 : i >= Nth(r) => state[<<r, i>>] = "none"
  /\ at[r] \in Getting \ {"touch"} => Nth(r) <= Len(KeysOf[r])
  /\ at[r] \in {"query", "using"} => held[r] # << >>
  /\ at[r] = "touch" =>
       /\ Len(held[r]) \in 1 .. Len(KeysOf[r])
       /\ KeyOf(held[r][Len(held[r])]) = KeysOf[r][Len(held[r])]

\* ... and of the pools that a request has still to ask, those that are idle,
\* or that the sweep has closed or is to close, are one it had not touched or
\* was held up with.
SweptOf(r, i) ==
  \/ state[held[r][i]] = "swept"
  \/ mu = Sweeper /\ \E k \in doomed : pools[k] = held[r][i]

AskedInv(r) ==
  /\ at[r] \notin Over =>
       \A i \in DOMAIN held[r] :
         /\ SweptOf(r, i) => r \in risked
         /\ \A k \in idle : pools[k] = held[r][i] =>
              r \in risked \/ (at[r] = "touch" /\ i = Len(held[r]))
  /\ at[r] = "refused" => /\ held[r] # << >> /\ state[Head(held[r])] # "open"
                          /\ SweptOf(r, 1) => r \in risked

\* Who makes a pool has the lock, and the key is free.
MakerInv ==
  \A r \in Request : at[r] = "make" => mu = r /\ KeysOf[r][Nth(r)] \notin DOMAIN pools

KeysInv == \A k \in DOMAIN pools : pools[k] \in Pool /\ KeyOf(pools[k]) = k

PoolsInductive ==
  /\ PoolsTypeOK /\ RoomInv /\ OpenInv /\ KeysInv /\ MakerInv
  /\ \A r \in Request : MadeInv(r) /\ AskedInv(r)

\* Closing with the lock held delays every request for a pool, and stops none,
\* as long as queries end.
RequestsEnd ==
  \A r \in Request : at[r] = "ask" ~> at[r] \in Over \/ process = "gone"
==============================================================================
