----------------------------- MODULE Dashboard -----------------------------
(***************************************************************************)
(* The rates of the dashboard (backend/web/static/js/dashboard.js).        *)
(*                                                                         *)
(* PostgreSQL counts transactions, temporary bytes and blocks from the     *)
(* last reset of its statistics; the page turns two samples of the         *)
(* counters into what happened between them.  Samples come from one        *)
(* request at the start and from the sockets of Feed, each in order, but   *)
(* not in order with one another; a sample whose collector failed lists no *)
(* database at all (service/monitor.go, CollectStats).                     *)
(*                                                                         *)
(* One counter per database stands for all of them.  A rate is kept as     *)
(* what it is the growth of: the division by the seconds is left out, and  *)
(* so are the panels that print a sample as it is.                         *)
(***************************************************************************)
EXTENDS Integers, Sequences, FiniteSets, FiniteSetsExt, Functions

CONSTANTS
  Db,          \* the databases
  Stream,      \* the sockets that deliver samples
  Http,        \* the request of loadInitialData
  MaxTime,     \* the times at which samples are taken
  MaxCount,    \* how far each counter gets
  MaxPoints,   \* _maxPoints
  MaxWay       \* the samples under way at once

ASSUME DashboardAssumption ==
  /\ IsFiniteSet(Db) /\ Http \notin Stream
  /\ MaxTime \in Nat /\ MaxCount \in Nat \ {0} /\ MaxPoints \in Nat \ {0} /\ MaxWay \in Nat

VARIABLES
  time,       \* the clock of the server
  count,      \* what has ever been counted in each database
  base,       \* the count at the last reset of the statistics
  asked,      \* loadInitialData waits for the server
  way,        \* the samples under way
  _data,      \* _data: the transactions of each interval
  prev,       \* _prevCommits and _prevDbCounters: the last value of each database
  prevAt,     \* _prevSampleAt
  prevTotal,  \* _prevTempBytes
  rate,       \* the growth of the total, and of each database, that is shown
  first,      \* history: the counts at the first sample of each database
  lastTrue,   \* history: the counts at the last sample
  overtaken,  \* history: a sample was not newer than the one before it
  statsReset, \* history: the statistics were reset
  listed      \* history: the last sample listed the databases

pgVars     == <<time, count, base>>
rateVars   == <<_data, prev, prevAt, prevTotal, rate, first, lastTrue, overtaken, listed>>
dashVars   == <<pgVars, asked, way, rateVars, statsReset>>

Never == -1

Growth(d) == Max({0, d})

NoDbs == [d \in {} |-> 0]

\* What f says where it says anything, and elsewhere what g says.
Over(f, g) == [d \in DOMAIN f \cup DOMAIN g |-> IF d \in DOMAIN f THEN f[d] ELSE g[d]]

\* A sample keeps, for the properties, the counts that no reset takes back.
Value == [Db -> 0 .. MaxCount]
Listed == Value \cup [{} -> 0 .. MaxCount]
NoRate == [total |-> 0, of |-> [d \in Db |-> 0],
           grown |-> 0, each |-> [d \in Db |-> 0], gap |-> FALSE]
Sample == [via : Stream \cup {Http}, at : 0 .. MaxTime, val : Listed, true : Value]

DashboardTypeOK ==
  /\ time \in 0 .. MaxTime /\ count \in Value /\ base \in Value
  /\ asked \in BOOLEAN /\ way \subseteq Sample
  /\ _data \in Seq(Nat) /\ Len(_data) <= MaxPoints
  /\ prev \in Listed /\ first \in Listed /\ DOMAIN first = DOMAIN prev
  /\ prevAt \in {Never} \cup 0 .. MaxTime /\ prevTotal \in Nat
  /\ rate.total \in Nat /\ rate.of \in [Db -> Nat]
  /\ lastTrue \in Value
  /\ overtaken \in BOOLEAN /\ statsReset \in BOOLEAN /\ listed \in BOOLEAN

DashboardInit ==
  /\ _data = <<>> /\ prev = NoDbs /\ prevAt = Never /\ prevTotal = 0
  /\ rate = NoRate /\ first = NoDbs /\ lastTrue = [d \in Db |-> 0]
  /\ overtaken = FALSE /\ listed = FALSE /\ asked = TRUE
  /\ time = 0 /\ count = [d \in Db |-> 1] /\ base = [d \in Db |-> 0]
  /\ way = {} /\ statsReset = FALSE

-----------------------------------------------------------------------------
(* The server *)

\* Transactions, and the statistics reset of a user or a crash.
Work ==
  /\ time < MaxTime /\ time' = time + 1
  /\ \E dbs \in SUBSET {d \in Db : count[d] < MaxCount} :
       count' = [d \in Db |-> IF d \in dbs THEN count[d] + 1 ELSE count[d]]
  /\ UNCHANGED <<base, asked, way, rateVars, statsReset>>

ResetStatistics ==
  /\ base # count
  /\ base' = count /\ statsReset' = TRUE
  /\ UNCHANGED <<time, count, asked, way, rateVars>>

\* A socket sends one sample at a time of its clock, the request one at all.
CollectStats(via, dbs) ==
  /\ Cardinality(way) < MaxWay
  /\ IF via = Http THEN asked ELSE \A s \in way : s.via = via => s.at < time
  /\ way' = way \cup {[via |-> via, at |-> time, true |-> count,
                       val |-> [d \in dbs |-> count[d] - base[d]]]}
  /\ asked' = (asked /\ via # Http)
  /\ UNCHANGED <<pgVars, rateVars, statsReset>>

-----------------------------------------------------------------------------
(* The page *)

\* Variant for checking the properties: the values of the last sample are not
\* kept apart by database.
commitsByTotal(val) ==
  IF prev = NoDbs THEN 0 ELSE Growth(SumFunction(val) - prevTotal)

\* A database that was not listed before adds nothing.
commits(val) ==
  SumFunction([d \in DOMAIN val |->
    IF d \in DOMAIN prev THEN Growth(val[d] - prev[d]) ELSE 0])

\* Only a sample newer than the last one has rates.  The total starts from the
\* last sample, a database from its own last value.
rates(s) ==
  IF prevAt = Never \/ s.at <= prevAt THEN NoRate
  ELSE [total |-> Growth(SumFunction(s.val) - prevTotal),
        of    |-> [d \in Db |-> IF d \notin DOMAIN s.val THEN 0
                                ELSE IF d \in DOMAIN prev THEN Growth(s.val[d] - prev[d]) ELSE s.val[d]],
        grown |-> SumFunction(s.true) - SumFunction(lastTrue),
        each  |-> [d \in Db |-> s.true[d] - lastTrue[d]], gap |-> ~listed]

\* Variant for checking the properties: the oldest point is not dropped.
ChartAll(points) == points

Chart(points) == IF Len(points) > MaxPoints THEN Tail(points) ELSE points

updateDashboard(s) ==
  /\ _data' = Chart(Append(_data, commits(s.val)))
  /\ rate' = rates(s)
  /\ prev' = Over(s.val, prev)
  /\ prevTotal' = SumFunction(s.val) /\ prevAt' = s.at
  /\ first' = Over(first, [d \in DOMAIN s.val |-> s.true[d]])
  /\ lastTrue' = s.true
  /\ overtaken' = (overtaken \/ s.at <= prevAt)
  /\ listed' = (DOMAIN s.val # {})

\* onData, and the answer to loadInitialData.
onData ==
  \E s \in way :
    /\ \A t \in way : t.via = s.via => s.at <= t.at
    /\ updateDashboard(s)
    /\ way' = way \ {s}
    /\ UNCHANGED <<pgVars, asked, statsReset>>

\* The page is opened again; what is under way arrives all the same.
render ==
  /\ prevAt # Never
  /\ _data' = <<>> /\ prev' = NoDbs /\ prevAt' = Never /\ prevTotal' = 0
  /\ rate' = NoRate /\ first' = NoDbs /\ lastTrue' = [d \in Db |-> 0]
  /\ overtaken' = FALSE /\ listed' = FALSE
  /\ asked' = TRUE
  /\ UNCHANGED <<pgVars, way, statsReset>>

-----------------------------------------------------------------------------
DashboardNext ==
  \/ Work \/ ResetStatistics
  \/ \E via \in Stream \cup {Http}, dbs \in {{}, Db} : CollectStats(via, dbs)
  \/ onData \/ render
DashboardSpec == DashboardInit /\ [][DashboardNext]_dashVars

-----------------------------------------------------------------------------
\* The chart shows each transaction at most once, and as long as nothing was
\* reset and no point has left the chart every one since the first sample;
\* unless a sample was not newer than the one before it.
CommitsOnce ==
  ~overtaken =>
    /\ SumFunction(_data) <= SumFunctionOnSet(lastTrue, DOMAIN first) - SumFunction(first)
    /\ ~statsReset /\ Len(_data) < MaxPoints =>
         SumFunction(_data) = SumFunction(prev) - SumFunction(first)

\* A rate is the growth between the last two samples and nothing older, unless
\* the first of the two listed no database.
RateIsGrowth ==
  ~rate.gap => /\ rate.total <= rate.grown
               /\ \A d \in Db : rate.of[d] <= rate.each[d]

\* Both ways in which updateDashboard (dashboard.js) turns counters into rates.
RatesExplained == CommitsOnce /\ RateIsGrowth

-----------------------------------------------------------------------------
(* Why that holds: an invariant that every step keeps.                     *)

\* What a sample does not tell of the counts: those before the last reset.
Before(s, d) == s.true[d] - s.val[d]

\* Of two samples the later one counts no less, and no less is before it.
WayInv ==
  /\ \A d \in Db : base[d] <= count[d] /\ (~statsReset => base[d] = 0)
  /\ \A s \in way :
       /\ DOMAIN s.val \in {{}, Db} /\ s.at <= time
       /\ \A d \in Db : s.true[d] <= count[d]
       /\ \A d \in DOMAIN s.val : s.val[d] <= s.true[d] /\ Before(s, d) <= base[d]
       /\ \A o \in way : s.at < o.at =>
            /\ \A d \in Db : s.true[d] <= o.true[d]
            /\ \A d \in DOMAIN s.val \cap DOMAIN o.val : Before(s, d) <= Before(o, d)

\* The last values may be of the counts c, and a newer sample is no earlier.
Counted(c) ==
  \A d \in DOMAIN prev :
    /\ prev[d] <= c[d] /\ c[d] - prev[d] <= base[d]
    /\ \A s \in way : s.at > prevAt /\ d \in DOMAIN s.val => c[d] - prev[d] <= Before(s, d)

LastInv ==
  /\ prevAt <= time
  /\ \A d \in Db : /\ lastTrue[d] <= count[d]
                   /\ \A s \in way : s.at > prevAt => lastTrue[d] <= s.true[d]
  /\ DOMAIN prev \in {{}, Db}
  /\ listed => DOMAIN prev = Db /\ prevTotal = SumFunction(prev) /\ Counted(lastTrue)

\* The chart has what was counted from the first sample to the last that listed
\* the databases.
ChartInv ==
  ~overtaken =>
    \E c \in [DOMAIN prev -> 0 .. MaxCount] :
      /\ Counted(c) /\ \A d \in DOMAIN prev : c[d] <= lastTrue[d]
      /\ SumFunction(_data) <= SumFunction(c) - SumFunction(first)
      /\ ~statsReset /\ Len(_data) < MaxPoints =>
           SumFunction(_data) = SumFunction(prev) - SumFunction(first)

DashboardInductive == DashboardTypeOK /\ WayInv /\ LastInv /\ ChartInv /\ RateIsGrowth
=============================================================================
