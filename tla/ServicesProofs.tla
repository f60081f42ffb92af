--------------------------- MODULE ServicesProofs ---------------------------
(***************************************************************************)
(* What runs on while the pages come and go, for any number of requests,   *)
(* databases, sockets and alerts: the cache of connection pools holds what *)
(* is open, and who is refused is refused for a reason.                    *)
(***************************************************************************)
EXTENDS MCServices, FiniteSetTheorems, TLAPS

-----------------------------------------------------------------------------
(* The order of the last uses *)

LEMMA WithoutIs ==
  ASSUME NEW S, NEW s \in Seq(S), IsInjective(s), NEW k \in Range(s)
  PROVE  /\ Without(s, k) \in Seq(S) /\ Len(Without(s, k)) = Len(s) - 1
         /\ IsInjective(Without(s, k)) /\ Range(Without(s, k)) = Range(s) \ {k}
<1> DEFINE i == CHOOSE j \in DOMAIN s : s[j] = k
           a == SubSeq(s, 1, i - 1)
           b == SubSeq(s, i + 1, Len(s))
           w == Without(s, k)
<1>1. i \in 1 .. Len(s) /\ s[i] = k
  BY DEF Range
<1>2. w = a \o b
  BY DEF Without, RemoveAt
<1> HIDE DEF i
<1>3. a \in Seq(S) /\ Len(a) = i - 1 /\ \A j \in 1 .. i - 1 : a[j] = s[j]
  BY <1>1
<1>4. b \in Seq(S) /\ Len(b) = Len(s) - i /\ \A j \in 1 .. Len(s) - i : b[j] = s[i + j]
  BY <1>1
<1> HIDE DEF a, b, w
<1>5. w \in Seq(S) /\ Len(w) = Len(s) - 1
  BY <1>1, <1>2, <1>3, <1>4
<1>6. ASSUME NEW j \in 1 .. Len(w)
      PROVE  w[j] = s[IF j < i THEN j ELSE j + 1]
  <2>1. CASE j < i
    BY <1>1, <1>2, <1>3, <1>4, <1>5, <2>1
  <2>2. CASE j >= i
    <3>1. w[j] = b[j - (i - 1)] /\ j - (i - 1) \in 1 .. Len(s) - i
      BY <1>1, <1>2, <1>3, <1>4, <1>5, <2>2
    <3>2. b[j - (i - 1)] = s[i + (j - (i - 1))]
      BY <1>4, <3>1
    <3>3. i + (j - (i - 1)) = j + 1
      BY <1>1
    <3> QED
      BY <1>1, <2>2, <3>1, <3>2, <3>3
  <2> QED
    BY <1>1, <2>1, <2>2
<1>7. IsInjective(w)
  <2> SUFFICES ASSUME NEW j \in 1 .. Len(w), NEW l \in 1 .. Len(w), w[j] = w[l]
               PROVE  j = l
    BY <1>5 DEF IsInjective
  <2>1. s[IF j < i THEN j ELSE j + 1] = s[IF l < i THEN l ELSE l + 1]
    BY <1>6
  <2> QED
    BY <1>1, <1>5, <2>1 DEF IsInjective
<1>8. Range(w) \subseteq Range(s) \ {k}
  <2> SUFFICES ASSUME NEW j \in 1 .. Len(w)
               PROVE  w[j] \in Range(s) \ {k}
    BY <1>5 DEF Range
  <2> DEFINE l == IF j < i THEN j ELSE j + 1
  <2>1. l \in 1 .. Len(s) /\ l # i /\ w[j] = s[l]
    BY <1>1, <1>5, <1>6
  <2> HIDE DEF l
  <2> QED
    BY <1>1, <2>1 DEF IsInjective, Range
<1>9. ASSUME NEW l \in 1 .. Len(s), s[l] # k
      PROVE  s[l] \in Range(w)
  <2> DEFINE j == IF l < i THEN l ELSE l - 1
  <2>1. j \in 1 .. Len(w) /\ w[j] = s[l]
    BY <1>1, <1>5, <1>6, <1>9
  <2> HIDE DEF j
  <2> QED
    BY <1>5, <2>1 DEF Range
<1>10. Range(s) \ {k} \subseteq Range(w)
  BY <1>9 DEF Range
<1> QED
  BY <1>5, <1>7, <1>8, <1>10 DEF w

LEMMA AppendIs ==
  ASSUME NEW S, NEW s \in Seq(S), IsInjective(s), NEW k \in S, k \notin Range(s)
  PROVE  /\ Append(s, k) \in Seq(S) /\ Len(Append(s, k)) = Len(s) + 1
         /\ IsInjective(Append(s, k)) /\ Range(Append(s, k)) = Range(s) \cup {k}
<1> DEFINE w == Append(s, k)
<1>1. w \in Seq(S) /\ Len(w) = Len(s) + 1 /\ w[Len(s) + 1] = k
      /\ \A j \in 1 .. Len(s) : w[j] = s[j]
  OBVIOUS
<1> HIDE DEF w
<1>2. IsInjective(w)
  BY <1>1 DEF IsInjective, Range
<1>3. Range(w) = Range(s) \cup {k}
  BY <1>1 DEF Range
<1> QED
  BY <1>1, <1>2, <1>3 DEF w

\* There are as many pools as there are places in the order.
LEMMA KeysCounted ==
  ASSUME NEW S, NEW s \in Seq(S)
  PROVE  IsFiniteSet(Range(s)) /\ Cardinality(Range(s)) <= Len(s)
<1>1. s \in Surjection(1 .. Len(s), Range(s))
  BY DEF Surjection, Range
<1>2. Len(s) \in Nat /\ ExistsSurjection(1 .. Len(s), Range(s))
  BY <1>1 DEF ExistsSurjection
<1>3. IsFiniteSet(1 .. Len(s))
  BY <1>2, FS_Interval
<1>4. IsFiniteSet(Range(s))
  BY <1>1, <1>3, FS_Surjection
<1> QED
  BY <1>2, <1>4, FS_SurjCardinalityBound
-----------------------------------------------------------------------------
(* The pools *)

LEMMA PoolsStart == PoolsInit => PoolsInductive
<1> SUFFICES ASSUME PoolsInit
             PROVE  PoolsInductive
  OBVIOUS
<1>1. DOMAIN pools = {} /\ DOMAIN recent = {} /\ Range(pools) = {} /\ Range(recent) = {}
  BY DEF Range, PoolsInit
<1>2. PoolsTypeOK
  BY <1>1 DEF PoolsTypeOK, IsInjective, PoolsInit
<1>3. RoomInv
  BY PoolsAssumption DEF RoomInv, PoolsInit
<1>4. OpenInv
  BY <1>1 DEF OpenInv, PoolsInit
<1>5. KeysInv
  BY <1>1 DEF KeysInv, PoolsInit
<1>6. ASSUME NEW r \in Request
      PROVE  MadeInv(r) /\ AskedInv(r)
  <2>1. /\ at[r] = "new" /\ Len(KeysOf[r]) \in 1 .. 2
        /\ held[r] = << >> /\ Len(held[r]) = 0 /\ DOMAIN held[r] = {}
    BY PoolsAssumption DEF PoolsInit
  <2>2. \A i \in 1 .. 2 : state[<<r, i>>] = "none"
    BY DEF Pool, PoolsInit
  <2>3. MadeInv(r)
    BY <2>1, <2>2 DEF MadeInv, Nth
  <2>4. AskedInv(r)
    BY <2>1 DEF AskedInv, Over
  <2> QED
    BY <2>3, <2>4
<1>7. MakerInv
  BY DEF MakerInv, PoolsInit
<1> QED
  BY <1>2, <1>3, <1>4, <1>5, <1>6, <1>7 DEF PoolsInductive

\* A step that leaves a request where it is keeps what is said of it, if it
\* closes none of its pools and makes none idle.
LEMMA OthersKeep ==
  ASSUME NEW q \in Request, PoolsTypeOK, MadeInv(q), AskedInv(q),
         at'[q] = at[q], held'[q] = held[q], risked \subseteq risked',
         \A i \in 1 .. 2 : state'[<<q, i>>] = state[<<q, i>>],
         \A i \in DOMAIN held[q] : SweptOf(q, i)' => SweptOf(q, i),
         \A i \in DOMAIN held[q] : state'[held[q][i]] = state[held[q][i]],
         \A k \in idle' : k \in idle /\ pools'[k] = pools[k]
  PROVE  MadeInv(q)' /\ AskedInv(q)'
<1>1. MadeInv(q)'
  <2>1. \A i \in DOMAIN held'[q] : state'[held'[q][i]] # "none"
    BY DEF MadeInv
  <2>2. at'[q] \in Getting => \A i \in 1 .. 2 : i >= Nth(q)' => state'[<<q, i>>] = "none"
    BY DEF MadeInv, Nth
  <2>3. /\ at'[q] \in Getting \ {"touch"} => Nth(q)' <= Len(KeysOf[q])
        /\ at'[q] \in {"query", "using"} => held'[q] # << >>
    BY DEF MadeInv, Nth
  <2>4. at'[q] = "touch" =>
          /\ Len(held'[q]) \in 1 .. Len(KeysOf[q])
          /\ KeyOf(held'[q][Len(held'[q])]) = KeysOf[q][Len(held'[q])]
    BY DEF MadeInv
  <2> QED
    BY <2>1, <2>2, <2>3, <2>4 DEF MadeInv, KeyOf
<1>2. held[q] \in Seq(Pool)
  BY DEF PoolsTypeOK
<1>3. AskedInv(q)'
  BY <1>2 DEF AskedInv
<1> QED
  BY <1>1, <1>3
\* What is left to show of a step of one request that closes and opens nothing.
LEMMA RequestKeeps ==
  ASSUME PoolsInductive, NEW r \in Request,
         UNCHANGED <<mu, pools, state, doomed, risked>>, idle' \subseteq idle,
         at' = [at EXCEPT ![r] = at'[r]], held' = [held EXCEPT ![r] = held'[r]],
         at'[r] # "make",
         \A p \in Pool : out'[p] # {} => p \in Range(pools),
         PoolsTypeOK', RoomInv', MadeInv(r)', AskedInv(r)'
  PROVE  PoolsInductive'
<1>1. OpenInv' /\ KeysInv'
  BY DEF PoolsInductive, OpenInv, KeysInv
<1>2. ASSUME NEW q \in Request, q # r
      PROVE  MadeInv(q)' /\ AskedInv(q)'
  <2>1. PoolsTypeOK /\ MadeInv(q) /\ AskedInv(q)
    BY DEF PoolsInductive
  <2>2. at'[q] = at[q] /\ held'[q] = held[q]
    BY <1>2, <2>1 DEF PoolsTypeOK
  <2>3. \A i \in DOMAIN held[q] : SweptOf(q, i)' => SweptOf(q, i)
    BY <2>2 DEF SweptOf
  <2> QED
    BY <2>1, <2>2, <2>3, OthersKeep
<1>3. MakerInv'
  <2> SUFFICES ASSUME NEW q \in Request, at'[q] = "make"
               PROVE  mu = q /\ KeysOf[q][Nth(q)'] \notin DOMAIN pools
    BY DEF MakerInv
  <2>1. q # r
    OBVIOUS
  <2>2. at[q] = "make" /\ held'[q] = held[q]
    BY <2>1 DEF PoolsInductive, PoolsTypeOK
  <2> QED
    BY <2>2 DEF PoolsInductive, MakerInv, Nth
<1> QED
  BY <1>1, <1>2, <1>3 DEF PoolsInductive

LEMMA TypeIs ==
  ASSUME PoolsInductive, NEW r \in Request
  PROVE  /\ held[r] \in Seq(Pool) /\ KeysOf[r] \in Seq(Key) /\ Len(KeysOf[r]) \in 1 .. 2
         /\ Nth(r) \in Nat \ {0}
         /\ recent \in Seq(Key) /\ IsInjective(recent) /\ Range(recent) = DOMAIN pools
         /\ DOMAIN pools \subseteq Key /\ Range(pools) \subseteq Pool
         /\ at \in [Request -> {"new", "make", "query", "using"} \cup Waiting \cup Over]
         /\ held \in [Request -> Seq(Pool)]
         /\ MadeInv(r) /\ AskedInv(r)
  BY PoolsAssumption DEF PoolsInductive, PoolsTypeOK, RoomInv, Nth
\* A request that is to go on to its next key, with what it holds touched.
LEMMA GettingIs ==
  ASSUME PoolsInductive, NEW r \in Request, at[r] \in {"new", "ask", "miss", "make"}
  PROVE  /\ Nth(r) <= Len(KeysOf[r]) /\ Nth(r) \in 1 .. 2 /\ KeysOf[r][Nth(r)] \in Key
         /\ \A i \in 1 .. 2 : i >= Nth(r) => state[<<r, i>>] = "none"
         /\ \A i \in DOMAIN held[r] :
              /\ state[held[r][i]] # "none"
              /\ SweptOf(r, i) => r \in risked
              /\ \A k \in idle : pools[k] = held[r][i] => r \in risked
<1>1. at[r] \in Getting \ {"touch"} /\ at[r] \notin Over /\ at[r] # "touch"
  BY DEF Getting, Waiting, Over
<1>2. MadeInv(r) /\ AskedInv(r) /\ Nth(r) \in Nat \ {0} /\ Len(KeysOf[r]) \in 1 .. 2
      /\ KeysOf[r] \in Seq(Key)
  BY TypeIs
<1>3. Nth(r) <= Len(KeysOf[r]) /\ \A i \in 1 .. 2 : i >= Nth(r) => state[<<r, i>>] = "none"
  BY <1>1, <1>2 DEF MadeInv
<1>4. \A i \in DOMAIN held[r] :
        /\ state[held[r][i]] # "none"
        /\ SweptOf(r, i) => r \in risked
        /\ \A k \in idle : pools[k] = held[r][i] => r \in risked
  BY <1>1, <1>2 DEF MadeInv, AskedInv
<1>5. \A n \in 1 .. 2 : Nth(r) <= n => Nth(r) \in 1 .. n /\ Nth(r) \in 1 .. 2
  BY <1>2
<1>6. KeysOf[r][Nth(r)] \in Key
  <2>1. \A n \in Nat, s \in Seq(Key) : n \in 1 .. Len(s) => s[n] \in Key
    OBVIOUS
  <2> QED
    BY <1>2, <1>3, <1>5, <2>1
<1> QED
  BY <1>2, <1>3, <1>4, <1>5, <1>6, Zenon

\* The same said of the step that leads there.
LEMMA GettingNext ==
  ASSUME NEW r \in Request, at'[r] \in {"new", "ask", "miss", "make"},
         Nth(r)' <= Len(KeysOf[r]),
         \A i \in 1 .. 2 : i >= Nth(r)' => state'[<<r, i>>] = "none",
         \A i \in DOMAIN held'[r] :
              /\ state'[held'[r][i]] # "none"
              /\ SweptOf(r, i)' => r \in risked'
              /\ \A k \in idle' : pools'[k] = held'[r][i] => r \in risked'
  PROVE  MadeInv(r)' /\ AskedInv(r)'
<1>1. at'[r] \notin {"query", "using"} /\ at'[r] # "touch" /\ at'[r] # "refused"
  OBVIOUS
<1>2. MadeInv(r)'
  BY <1>1 DEF MadeInv
<1>3. AskedInv(r)'
  BY <1>1 DEF AskedInv
<1> QED
  BY <1>2, <1>3

LEMMA GettingSame ==
  ASSUME PoolsInductive, NEW r \in Request, at[r] \in {"new", "ask", "miss", "make"},
         at'[r] \in {"new", "ask", "miss", "make"}, held' = held,
         mu' = mu, pools' = pools, idle' = idle, state' = state, doomed' = doomed,
         risked' = risked
  PROVE  MadeInv(r)' /\ AskedInv(r)'
<1>1. Nth(r)' = Nth(r) /\ \A i \in DOMAIN held[r] : SweptOf(r, i)' => SweptOf(r, i)
  BY DEF Nth, SweptOf
<1>2. Nth(r)' <= Len(KeysOf[r])
  BY <1>1, GettingIs
<1>3. \A i \in 1 .. 2 : i >= Nth(r)' => state'[<<r, i>>] = "none"
  BY <1>1, GettingIs
<1>4. \A i \in DOMAIN held'[r] :
        /\ state'[held'[r][i]] # "none"
        /\ SweptOf(r, i)' => r \in risked'
        /\ \A k \in idle' : pools'[k] = held'[r][i] => r \in risked'
  BY <1>1, GettingIs
<1> QED
  BY <1>2, <1>3, <1>4, GettingNext

LEMMA BeginNext ==
  ASSUME PoolsInductive, NEW r \in Request, Begin(r)
  PROVE  PoolsInductive'
<1>1. /\ at' = [at EXCEPT ![r] = "ask"] /\ at[r] = "new"
      /\ UNCHANGED <<mu, pools, recent, idle, state, out, doomed, held, process, risked>>
  BY DEF Begin, Goto
<1>2. at'[r] = "ask" /\ at' = [at EXCEPT ![r] = at'[r]] /\ held' = [held EXCEPT ![r] = held'[r]]
  BY <1>1, TypeIs
<1>3. PoolsTypeOK'
  BY <1>1 DEF PoolsInductive, PoolsTypeOK, Waiting
<1>4. RoomInv'
  BY <1>1 DEF PoolsInductive, RoomInv
<1>5. MadeInv(r)' /\ AskedInv(r)'
  BY <1>1, <1>2, GettingSame
<1>6. \A p \in Pool : out'[p] # {} => p \in Range(pools)
  BY <1>1 DEF PoolsInductive, OpenInv
<1> QED
  BY <1>1, <1>2, <1>3, <1>4, <1>5, <1>6, RequestKeeps

\* A pool that is handed out outside the lock is open and not to be closed.
LEMMA FreshPool ==
  ASSUME PoolsInductive, mu = Nobody, NEW k \in DOMAIN pools
  PROVE  /\ pools[k] \in Pool /\ state[pools[k]] = "open" /\ KeyOf(pools[k]) = k
         /\ \A l \in DOMAIN pools : pools[l] = pools[k] => l = k
<1>1. pools[k] \in Range(pools) /\ doomed = {}
  BY DEF Range, PoolsInductive, RoomInv
<1>2. pools[k] \in Pool /\ state[pools[k]] = "open"
  BY <1>1 DEF PoolsInductive, OpenInv
<1>3. KeyOf(pools[k]) = k /\ \A l \in DOMAIN pools : pools[l] = pools[k] => l = k
  BY DEF PoolsInductive, KeysInv
<1> QED
  BY <1>2, <1>3

LEMMA LookupNext ==
  ASSUME PoolsInductive, NEW r \in Request, Lookup(r)
  PROVE  PoolsInductive'
<1> DEFINE k == KeysOf[r][Nth(r)]
<1>1. /\ at[r] = "ask" /\ mu = Nobody /\ k \in Key
      /\ UNCHANGED <<mu, pools, recent, idle, state, out, doomed, process, risked>>
  BY GettingIs DEF Lookup
<1>2. RoomInv'
  BY <1>1 DEF PoolsInductive, RoomInv
<1>3. \A p \in Pool : out'[p] # {} => p \in Range(pools)
  BY <1>1 DEF PoolsInductive, OpenInv
<1>4. CASE k \in DOMAIN pools
  <2> DEFINE p == pools[k]
  <2>1. at' = [at EXCEPT ![r] = "touch"] /\ held' = [held EXCEPT ![r] = Append(@, p)]
    BY <1>4 DEF Lookup, Goto
  <2>2. /\ p \in Pool /\ state[p] = "open" /\ KeyOf(p) = k
        /\ \A l \in DOMAIN pools : pools[l] = p => l = k
    BY <1>1, <1>4, FreshPool
  <2> HIDE DEF p
  <2>3. /\ at'[r] = "touch" /\ at' = [at EXCEPT ![r] = at'[r]]
        /\ held' = [held EXCEPT ![r] = held'[r]] /\ held'[r] = Append(held[r], p)
    BY <2>1, TypeIs
  <2>4. /\ held'[r] \in Seq(Pool) /\ Len(held'[r]) = Nth(r) /\ held'[r][Nth(r)] = p
        /\ \A i \in 1 .. Len(held[r]) : held'[r][i] = held[r][i]
    BY <2>2, <2>3, TypeIs DEF Nth
  <2>5. PoolsTypeOK'
    <3>1. held' \in [Request -> Seq(Pool)]
      BY <2>3, <2>4, TypeIs
    <3>2. at' \in [Request -> {"new", "make", "query", "using"} \cup Waiting \cup Over]
      BY <2>1, TypeIs DEF Waiting
    <3> QED
      BY <1>1, <3>1, <3>2 DEF PoolsInductive, PoolsTypeOK
  <2>6. MadeInv(r)'
    <3>1. \A i \in DOMAIN held'[r] : state'[held'[r][i]] # "none"
      <4>1. \A i \in DOMAIN held[r] : state[held[r][i]] # "none"
        BY <1>1, GettingIs
      <4>2. DOMAIN held'[r] = 1 .. Nth(r) /\ Nth(r) = Len(held[r]) + 1 /\ DOMAIN held[r] = 1 .. Len(held[r])
        BY <2>4, TypeIs DEF Nth
      <4> QED
        BY <1>1, <2>2, <2>4, <4>1, <4>2
    <3>2. \A i \in 1 .. 2 : i >= Nth(r)' => state'[<<r, i>>] = "none"
      <4>1. Nth(r)' = Nth(r) + 1 /\ Nth(r) \in Nat
        BY <2>4, TypeIs DEF Nth
      <4>2. \A i \in 1 .. 2 : i >= Nth(r) => state[<<r, i>>] = "none"
        BY <1>1, GettingIs
      <4>3. state' = state
        BY <1>1
      <4> QED
        BY <4>1, <4>2, <4>3
    <3>3. Len(held'[r]) \in 1 .. Len(KeysOf[r]) /\ KeyOf(held'[r][Len(held'[r])]) = k
      <4>1. Nth(r) <= Len(KeysOf[r]) /\ Nth(r) \in 1 .. 2
        BY <1>1, GettingIs
      <4>2. \A n \in Nat : Nth(r) <= n => Nth(r) \in 1 .. n
        BY <4>1
      <4> QED
        BY <2>2, <2>4, <4>1, <4>2, TypeIs
    <3> QED
      BY <2>3, <2>4, <3>1, <3>2, <3>3 DEF MadeInv, KeyOf
  <2>7. AskedInv(r)'
    <3> SUFFICES ASSUME NEW i \in DOMAIN held'[r]
                 PROVE  /\ SweptOf(r, i)' => r \in risked
                        /\ \A l \in idle : pools[l] = held'[r][i] =>
                             r \in risked \/ i = Len(held'[r])
      BY <1>1, <2>3 DEF AskedInv, Over
    <3>1. CASE i = Nth(r)
      <4>1. ~SweptOf(r, i)'
        BY <1>1, <2>2, <2>4, <3>1, PoolsAssumption DEF SweptOf
      <4> QED
        BY <2>4, <3>1, <4>1
    <3>2. CASE i \in DOMAIN held[r]
      <4>1. held'[r][i] = held[r][i] /\ (SweptOf(r, i)' => SweptOf(r, i))
        BY <1>1, <2>4, <3>2, TypeIs DEF SweptOf
      <4>2. /\ SweptOf(r, i) => r \in risked
            /\ \A l \in idle : pools[l] = held[r][i] => r \in risked
        BY <1>1, <3>2, GettingIs
      <4> QED
        BY <1>1, <3>2, <4>1, <4>2
    <3> QED
      BY <2>4, <3>1, <3>2, TypeIs DEF Nth
  <2> QED
    BY <1>1, <1>2, <1>3, <2>3, <2>5, <2>6, <2>7, RequestKeeps
<1>5. CASE k \notin DOMAIN pools
  <2>1. at' = [at EXCEPT ![r] = "miss"] /\ held' = held
    BY <1>5 DEF Lookup, Goto
  <2>2. /\ at'[r] = "miss" /\ at' = [at EXCEPT ![r] = at'[r]]
        /\ held' = [held EXCEPT ![r] = held'[r]]
    BY <2>1, TypeIs
  <2>3. PoolsTypeOK'
    BY <1>1, <2>1 DEF PoolsInductive, PoolsTypeOK, Waiting
  <2>4. MadeInv(r)' /\ AskedInv(r)'
    BY <1>1, <2>1, <2>2, GettingSame
  <2> QED
    BY <1>1, <1>2, <1>3, <2>2, <2>3, <2>4, RequestKeeps
<1> QED
  BY <1>4, <1>5
\* Asking for the next pool, or the pools one after the other.
LEMMA OnwardNext ==
  ASSUME NEW r \in Request, at'[r] \in {"ask", "query", "using"},
         at'[r] = "ask" => /\ Nth(r)' <= Len(KeysOf[r])
                           /\ \A i \in 1 .. 2 : i >= Nth(r)' => state'[<<r, i>>] = "none",
         at'[r] # "ask" => held'[r] # << >>,
         \A i \in DOMAIN held'[r] :
              /\ state'[held'[r][i]] # "none"
              /\ SweptOf(r, i)' => r \in risked'
              /\ \A k \in idle' : pools'[k] = held'[r][i] => r \in risked'
  PROVE  MadeInv(r)' /\ AskedInv(r)'
<1>1. CASE at'[r] = "ask"
  BY <1>1, GettingNext
<1>2. CASE at'[r] \in {"query", "using"}
  <2>1. at'[r] \notin Getting /\ at'[r] # "touch" /\ at'[r] # "refused"
    BY <1>2 DEF Getting, Waiting
  <2>2. MadeInv(r)'
    BY <1>2, <2>1 DEF MadeInv
  <2>3. AskedInv(r)'
    BY <2>1 DEF AskedInv
  <2> QED
    BY <2>2, <2>3
<1> QED
  BY <1>1, <1>2

LEMMA UsedIs ==
  ASSUME PoolsInductive, NEW k \in DOMAIN pools, Used(k)
  PROVE  /\ recent' \in Seq(Key) /\ Len(recent') = Len(recent)
         /\ IsInjective(recent') /\ Range(recent') = DOMAIN pools
         /\ idle' = idle \ {k}
<1>1. /\ recent \in Seq(Key) /\ IsInjective(recent) /\ Range(recent) = DOMAIN pools
      /\ k \in Key
  BY DEF PoolsInductive, PoolsTypeOK, RoomInv
<1> DEFINE w == Without(recent, k)
<1>2. /\ w \in Seq(Key) /\ Len(w) = Len(recent) - 1
      /\ IsInjective(w) /\ Range(w) = DOMAIN pools \ {k}
  BY <1>1, WithoutIs
<1>3. recent' = Append(w, k) /\ idle' = idle \ {k}
  BY DEF Used
<1> HIDE DEF w
<1>4. /\ Append(w, k) \in Seq(Key) /\ Len(Append(w, k)) = Len(w) + 1
      /\ IsInjective(Append(w, k)) /\ Range(Append(w, k)) = Range(w) \cup {k}
  BY <1>1, <1>2, AppendIs
<1>5. Len(recent') = Len(recent)
  <2>1. \A m \in Nat : (m - 1) + 1 = m
    OBVIOUS
  <2> QED
    BY <1>1, <1>2, <1>3, <1>4, <2>1
<1>6. Range(recent') = DOMAIN pools
  BY <1>2, <1>3, <1>4
<1> QED
  BY <1>3, <1>4, <1>5, <1>6

LEMMA TouchNext ==
  ASSUME PoolsInductive, NEW r \in Request, touchPool(r)
  PROVE  PoolsInductive'
<1> DEFINE n == Len(held[r])
           k == KeysOf[r][n]
<1>1. /\ at[r] = "touch" /\ mu = Nobody
      /\ UNCHANGED <<mu, pools, state, out, doomed, held, process, risked>>
  BY DEF touchPool
<1>2. /\ at' = [at EXCEPT ![r] = at'[r]] /\ held' = [held EXCEPT ![r] = held'[r]]
      /\ at'[r] = IF Nth(r) <= Len(KeysOf[r]) THEN "ask" ELSE "query"
      /\ held'[r] = held[r]
  BY <1>1, TypeIs DEF touchPool, Goto
<1>3. /\ recent' \in Seq(Key) /\ Len(recent') = Len(recent)
      /\ IsInjective(recent') /\ Range(recent') = DOMAIN pools
      /\ idle' \subseteq idle /\ k \notin idle'
  <2>1. CASE k \in DOMAIN pools
    BY <2>1, UsedIs DEF touchPool
  <2>2. CASE k \notin DOMAIN pools
    <3>1. recent' = recent /\ idle' = idle
      BY <2>2 DEF touchPool
    <3> QED
      BY <2>2, <3>1 DEF PoolsInductive, PoolsTypeOK, RoomInv
  <2> QED
    BY <2>1, <2>2
<1>4. held[r] # << >> /\ n \in DOMAIN held[r] /\ KeyOf(held[r][n]) = k
  <2>1. Len(held[r]) \in 1 .. Len(KeysOf[r]) /\ KeyOf(held[r][n]) = k
    BY <1>1, TypeIs DEF MadeInv
  <2>2. held[r] \in Seq(Pool)
    BY TypeIs
  <2> QED
    BY <2>1, <2>2
<1>5. \A i \in DOMAIN held[r] :
        /\ state[held[r][i]] # "none"
        /\ SweptOf(r, i) => r \in risked
        /\ \A l \in idle : pools[l] = held[r][i] => r \in risked \/ i = n
  <2>1. at[r] \notin Over
    BY <1>1 DEF Over
  <2> QED
    BY <2>1, TypeIs DEF MadeInv, AskedInv
<1>6. \A i \in 1 .. 2 : i >= Nth(r) => state[<<r, i>>] = "none"
  BY <1>1, TypeIs DEF MadeInv, Getting, Waiting
<1>7. PoolsTypeOK'
  <2>1. at' \in [Request -> {"new", "make", "query", "using"} \cup Waiting \cup Over]
    BY <1>2, TypeIs DEF Waiting
  <2> QED
    BY <1>1, <1>3, <2>1 DEF PoolsInductive, PoolsTypeOK
<1>8. RoomInv'
  BY <1>1, <1>3 DEF PoolsInductive, RoomInv
<1>9. MadeInv(r)' /\ AskedInv(r)'
  <2>1. Nth(r)' = Nth(r) /\ \A i \in DOMAIN held[r] : SweptOf(r, i)' => SweptOf(r, i)
    BY <1>1 DEF Nth, SweptOf
  <2>2. ASSUME NEW i \in DOMAIN held[r], NEW l \in idle', pools[l] = held[r][i]
        PROVE  r \in risked
    <3>1. l \in idle /\ l \in DOMAIN pools /\ l # k
      BY <1>3 DEF PoolsInductive, PoolsTypeOK
    <3>2. KeyOf(pools[l]) = l
      BY <3>1 DEF PoolsInductive, KeysInv
    <3>3. i # n
      BY <1>4, <2>2, <3>1, <3>2
    <3> QED
      BY <1>5, <2>2, <3>1, <3>3
  <2>3. \A i \in DOMAIN held'[r] :
          /\ state'[held'[r][i]] # "none"
          /\ SweptOf(r, i)' => r \in risked'
          /\ \A l \in idle' : pools'[l] = held'[r][i] => r \in risked'
    BY <1>1, <1>2, <1>5, <2>1, <2>2
  <2>4. at'[r] = "ask" => /\ Nth(r)' <= Len(KeysOf[r])
                          /\ \A i \in 1 .. 2 : i >= Nth(r)' => state'[<<r, i>>] = "none"
    BY <1>1, <1>2, <1>6, <2>1
  <2>5. at'[r] \in {"ask", "query", "using"} /\ held'[r] # << >>
    BY <1>2, <1>4
  <2> QED
    BY <2>3, <2>4, <2>5, OnwardNext
<1>10. \A p \in Pool : out'[p] # {} => p \in Range(pools)
  BY <1>1 DEF PoolsInductive, OpenInv
<1> QED
  BY <1>1, <1>2, <1>3, <1>7, <1>8, <1>9, <1>10, RequestKeeps
\* One more pool for a request, found or made.
LEMMA HandedIs ==
  ASSUME PoolsInductive, NEW r \in Request, at[r] \in {"miss", "make"},
         NEW p \in Pool, Handed(r, p)
  PROVE  /\ at' \in [Request -> {"new", "make", "query", "using"} \cup Waiting \cup Over]
         /\ held' \in [Request -> Seq(Pool)]
         /\ at' = [at EXCEPT ![r] = at'[r]] /\ held' = [held EXCEPT ![r] = held'[r]]
         /\ at'[r] \in {"ask", "query"} /\ held'[r] # << >>
         /\ at'[r] = "ask" => Nth(r)' <= Len(KeysOf[r])
         /\ Nth(r)' = Nth(r) + 1
         /\ DOMAIN held'[r] = 1 .. Nth(r) /\ held'[r][Nth(r)] = p
         /\ \A i \in 1 .. Nth(r) : i # Nth(r) => i \in DOMAIN held[r] /\ held'[r][i] = held[r][i]
<1>1. /\ held' = [held EXCEPT ![r] = Append(@, p)]
      /\ at' = [at EXCEPT ![r] = IF Nth(r) < Len(KeysOf[r]) THEN "ask" ELSE "query"]
  BY DEF Handed, Goto
<1>2. /\ held'[r] = Append(held[r], p) /\ held[r] \in Seq(Pool)
      /\ at'[r] = IF Nth(r) < Len(KeysOf[r]) THEN "ask" ELSE "query"
  BY <1>1, TypeIs
<1>3. /\ held'[r] \in Seq(Pool) /\ Len(held'[r]) = Nth(r) /\ held'[r][Nth(r)] = p
      /\ Nth(r) = Len(held[r]) + 1
      /\ \A i \in 1 .. Len(held[r]) : held'[r][i] = held[r][i]
  BY <1>2 DEF Nth
<1>4. at' \in [Request -> {"new", "make", "query", "using"} \cup Waiting \cup Over]
  BY <1>1, TypeIs DEF Waiting
<1>5. held' \in [Request -> Seq(Pool)] /\ held' = [held EXCEPT ![r] = held'[r]]
  BY <1>1, <1>2, <1>3, TypeIs
<1>6. at' = [at EXCEPT ![r] = at'[r]] /\ at'[r] \in {"ask", "query"}
  BY <1>1, <1>2
<1>7. Nth(r)' = Nth(r) + 1 /\ held'[r] # << >> /\ DOMAIN held'[r] = 1 .. Nth(r)
  <2>1. Nth(r)' = Len(held'[r]) + 1
    BY DEF Nth
  <2>2. DOMAIN held'[r] = 1 .. Len(held'[r])
    BY <1>3
  <2>3. held'[r] # << >>
    BY <1>2
  <2> QED
    BY <1>3, <2>1, <2>2, <2>3
<1>8. at'[r] = "ask" => Nth(r)' <= Len(KeysOf[r])
  <2>1. \A m \in Nat, n \in Nat : m < n => m + 1 <= n
    OBVIOUS
  <2>2. Nth(r) \in Nat /\ Len(KeysOf[r]) \in Nat
    BY TypeIs
  <2> QED
    BY <1>2, <1>7, <2>1, <2>2
<1>9. \A i \in 1 .. Nth(r) : i # Nth(r) => i \in DOMAIN held[r] /\ held'[r][i] = held[r][i]
  <2>1. ASSUME NEW i \in 1 .. Nth(r), i # Nth(r)
        PROVE  i \in DOMAIN held[r]
    BY <1>2, <1>3, <2>1
  <2> QED
    BY <1>2, <1>3, <2>1
<1> QED
  BY <1>3, <1>4, <1>5, <1>6, <1>7, <1>8, <1>9

\* What is said of a request that was handed a pool nobody is to close.
LEMMA HandedNext ==
  ASSUME PoolsInductive, NEW r \in Request, at[r] \in {"miss", "make"},
         NEW p \in Pool, Handed(r, p), state'[p] # "none",
         \A q \in Pool : q # p => state'[q] = state[q],
         p = <<r, Nth(r)>> \/ UNCHANGED state,
         mu' = Nobody, state'[p] # "swept", risked' = risked,
         \A l \in idle' : l \in idle /\ pools'[l] = pools[l] /\ pools'[l] # p
  PROVE  MadeInv(r)' /\ AskedInv(r)'
<1>1. \A i \in DOMAIN held'[r] :
        /\ state'[held'[r][i]] # "none"
        /\ SweptOf(r, i)' => r \in risked'
        /\ \A l \in idle' : pools'[l] = held'[r][i] => r \in risked'
  <2> SUFFICES ASSUME NEW i \in DOMAIN held'[r]
               PROVE  /\ state'[held'[r][i]] # "none"
                      /\ SweptOf(r, i)' => r \in risked
                      /\ \A l \in idle' : pools'[l] = held'[r][i] => r \in risked
    OBVIOUS
  <2>1. SweptOf(r, i)' => state'[held'[r][i]] = "swept"
    BY PoolsAssumption DEF SweptOf
  <2>2. CASE held'[r][i] = p
    BY <2>1, <2>2
  <2>3. CASE held'[r][i] # p
    <3>1. i \in DOMAIN held[r] /\ held'[r][i] = held[r][i]
      <4>1. /\ DOMAIN held'[r] = 1 .. Nth(r) /\ held'[r][Nth(r)] = p
            /\ \A j \in 1 .. Nth(r) :
                 j # Nth(r) => j \in DOMAIN held[r] /\ held'[r][j] = held[r][j]
        BY HandedIs
      <4> QED
        BY <2>3, <4>1
    <3>2. held[r][i] \in Pool
      BY <3>1, TypeIs
    <3>3. /\ state[held[r][i]] # "none"
          /\ SweptOf(r, i) => r \in risked
          /\ \A k \in idle : pools[k] = held[r][i] => r \in risked
      BY <3>1, GettingIs
    <3>4. state'[held'[r][i]] = state[held[r][i]]
      BY <2>3, <3>1, <3>2
    <3>5. state[held[r][i]] = "swept" => SweptOf(r, i)
      BY DEF SweptOf
    <3> QED
      BY <2>1, <3>1, <3>3, <3>4, <3>5
  <2> QED
    BY <2>2, <2>3
<1>2. at'[r] = "ask" => /\ Nth(r)' <= Len(KeysOf[r])
                        /\ \A i \in 1 .. 2 : i >= Nth(r)' => state'[<<r, i>>] = "none"
  <2> SUFFICES ASSUME at'[r] = "ask", NEW i \in 1 .. 2, i >= Nth(r)'
               PROVE  state'[<<r, i>>] = "none"
    BY HandedIs
  <2>1. Nth(r)' = Nth(r) + 1 /\ Nth(r) \in 1 .. 2
    BY HandedIs, GettingIs
  <2>2. i >= Nth(r) /\ i # Nth(r)
    <3>1. \A n \in 1 .. 2 : i >= n + 1 => i >= n /\ i # n
      OBVIOUS
    <3> QED
      BY <2>1, <3>1
  <2>3. state[<<r, i>>] = "none"
    BY <2>2, GettingIs
  <2>4. <<r, i>> \in Pool /\ <<r, i>> # <<r, Nth(r)>>
    BY <2>2 DEF Pool
  <2> QED
    BY <2>3, <2>4
<1>3. at'[r] \in {"ask", "query", "using"} /\ held'[r] # << >>
  BY HandedIs
<1> QED
  BY <1>1, <1>2, <1>3, OnwardNext

LEMMA MissNext ==
  ASSUME PoolsInductive, NEW r \in Request, Miss(r)
  PROVE  PoolsInductive'
<1> DEFINE k == KeysOf[r][Nth(r)]
<1>1. at[r] = "miss" /\ mu = Nobody /\ UNCHANGED <<pools, state, out, process, risked>>
  BY DEF Miss
<1>2. \A p \in Pool : out'[p] # {} => p \in Range(pools)
  BY <1>1 DEF PoolsInductive, OpenInv
<1>3. CASE k \in DOMAIN pools
  <2> DEFINE p == pools[k]
  <2>1. Used(k) /\ Handed(r, p) /\ UNCHANGED <<mu, doomed>>
    BY <1>3 DEF Miss
  <2>2. p \in Pool /\ state[p] = "open" /\ \A l \in DOMAIN pools : pools[l] = p => l = k
    BY <1>1, <1>3, FreshPool
  <2>3. /\ recent' \in Seq(Key) /\ Len(recent') = Len(recent)
        /\ IsInjective(recent') /\ Range(recent') = DOMAIN pools
        /\ idle' = idle \ {k}
    BY <1>3, <2>1, UsedIs
  <2>4. idle \subseteq DOMAIN pools
    BY DEF PoolsInductive, PoolsTypeOK
  <2> HIDE DEF k, p
  <2>5. MadeInv(r)' /\ AskedInv(r)'
    <3>1. \A l \in idle' : l \in idle /\ pools'[l] = pools[l] /\ pools'[l] # p
      BY <1>1, <2>2, <2>3, <2>4
    <3> QED
      BY <1>1, <2>1, <2>2, <3>1, HandedNext
  <2>6. /\ at' \in [Request -> {"new", "make", "query", "using"} \cup Waiting \cup Over]
        /\ held' \in [Request -> Seq(Pool)]
        /\ at' = [at EXCEPT ![r] = at'[r]] /\ held' = [held EXCEPT ![r] = held'[r]]
        /\ at'[r] \in {"ask", "query"}
    BY <1>1, <2>1, <2>2, HandedIs
  <2>7. PoolsTypeOK'
    BY <1>1, <2>1, <2>3, <2>6 DEF PoolsInductive, PoolsTypeOK
  <2>8. RoomInv'
    BY <1>1, <2>1, <2>3 DEF PoolsInductive, RoomInv
  <2> QED
    BY <1>1, <1>2, <2>1, <2>3, <2>5, <2>6, <2>7, <2>8, RequestKeeps
<1>4. CASE k \notin DOMAIN pools
  <2>1. /\ mu' = r /\ at' = [at EXCEPT ![r] = "make"] /\ UNCHANGED <<recent, idle, held>>
        /\ doomed' = IF Len(recent) >= MaxPools THEN {Head(recent)} ELSE {}
    BY <1>4 DEF Miss, Goto
  <2>2. recent \in Seq(Key) /\ Range(recent) = DOMAIN pools /\ MaxPools \in Nat \ {0}
        /\ Len(recent) <= MaxPools
    BY PoolsAssumption DEF PoolsInductive, PoolsTypeOK, RoomInv
  <2>3. doomed' \subseteq DOMAIN pools
    BY <2>1, <2>2 DEF Range
  <2>4. at'[r] = "make" /\ \A q \in Request : q # r => at'[q] = at[q]
    BY <2>1, TypeIs
  <2>5. PoolsTypeOK'
    BY <1>1, <2>1, <2>3 DEF PoolsInductive, PoolsTypeOK
  <2>6. RoomInv'
    <3>1. doomed' = {} => Len(recent) < MaxPools
      BY <2>1, <2>2
    <3>2. mu' # Nobody
      BY <2>1, PoolsAssumption
    <3> QED
      BY <2>1, <2>2, <3>1, <3>2 DEF RoomInv
  <2>7. OpenInv'
    BY <1>1 DEF PoolsInductive, OpenInv, RoomInv
  <2>8. KeysInv'
    BY <1>1 DEF PoolsInductive, KeysInv
  <2>9. ASSUME NEW q \in Request, NEW i
        PROVE  SweptOf(q, i)' => SweptOf(q, i)
    <3>1. mu' # Sweeper
      BY <2>1, PoolsAssumption
    <3> QED
      BY <1>1, <2>1, <3>1 DEF SweptOf
  <2>10. MadeInv(r)' /\ AskedInv(r)'
    <3>1. Nth(r)' = Nth(r)
      BY <2>1 DEF Nth
    <3>2. Nth(r)' <= Len(KeysOf[r]) /\ \A i \in 1 .. 2 : i >= Nth(r)' => state'[<<r, i>>] = "none"
      BY <1>1, <3>1, GettingIs
    <3>3. \A i \in DOMAIN held'[r] :
            /\ state'[held'[r][i]] # "none"
            /\ SweptOf(r, i)' => r \in risked'
            /\ \A l \in idle' : pools'[l] = held'[r][i] => r \in risked'
      BY <1>1, <2>1, <2>9, GettingIs
    <3> QED
      BY <2>4, <3>2, <3>3, GettingNext
  <2>11. ASSUME NEW q \in Request, q # r
         PROVE  MadeInv(q)' /\ AskedInv(q)'
    BY <1>1, <2>1, <2>4, <2>9, <2>11, OthersKeep DEF PoolsInductive
  <2>12. MakerInv'
    <3>1. k \notin DOMAIN pools' /\ KeysOf[r][Nth(r)'] = k
      BY <1>1, <1>4, <2>1 DEF Nth
    <3>2. \A q \in Request : at[q] # "make"
      BY <1>1, PoolsAssumption DEF PoolsInductive, MakerInv
    <3> QED
      BY <2>1, <2>4, <3>1, <3>2 DEF MakerInv
  <2> QED
    BY <2>5, <2>6, <2>7, <2>8, <2>10, <2>11, <2>12 DEF PoolsInductive
<1> QED
  BY <1>3, <1>4

\* A new pool, or an error.
LEMMA MakeNext ==
  ASSUME PoolsInductive, NEW r \in Request, Make(r)
  PROVE  PoolsInductive'
<1> DEFINE k == KeysOf[r][Nth(r)]
           p == <<r, Nth(r)>>
<1>1. /\ at[r] = "make" /\ mu = r /\ doomed = {} /\ mu' = Nobody
      /\ UNCHANGED <<out, doomed, process, risked>>
  BY DEF Make
<1>2. /\ recent \in Seq(Key) /\ IsInjective(recent) /\ Range(recent) = DOMAIN pools
      /\ Len(recent) <= MaxPools /\ Len(recent) < MaxPools /\ MaxPools \in Nat
      /\ idle \subseteq DOMAIN pools
  BY <1>1, PoolsAssumption DEF PoolsInductive, PoolsTypeOK, RoomInv
<1>3. ASSUME NEW q \in Request, NEW i, state'[held[q][i]] = state[held[q][i]], held'[q][i] = held[q][i]
      PROVE  SweptOf(q, i)' => SweptOf(q, i)
  BY <1>1, <1>3, PoolsAssumption DEF SweptOf
<1>4. CASE Made(r)
  <2>1. /\ pools' = [l \in DOMAIN pools \cup {k} |-> IF l = k THEN p ELSE pools[l]]
        /\ state' = [state EXCEPT ![p] = "open"]
        /\ recent' = Append(recent, k) /\ idle' = idle /\ Handed(r, p)
    BY <1>4 DEF Made
  <2>2. /\ Nth(r) \in 1 .. 2 /\ k \in Key /\ p \in Pool
        /\ state[p] = "none" /\ KeyOf(p) = k
    <3>1. Nth(r) \in 1 .. 2 /\ k \in Key /\ state[p] = "none"
      <4>1. /\ Nth(r) \in 1 .. 2 /\ k \in Key
            /\ \A i \in 1 .. 2 : i >= Nth(r) => state[<<r, i>>] = "none"
        BY <1>1, GettingIs
      <4>2. Nth(r) >= Nth(r)
        BY <4>1
      <4> QED
        BY <4>1, <4>2
    <3>2. p \in Pool
      BY <3>1 DEF Pool
    <3>3. p[1] = r /\ p[2] = Nth(r)
      OBVIOUS
    <3> QED
      BY <3>1, <3>2, <3>3 DEF KeyOf
  <2>3. p \notin Range(pools) /\ k \notin DOMAIN pools
    BY <1>1, <2>2 DEF PoolsInductive, OpenInv, MakerInv
  <2>4. /\ at' \in [Request -> {"new", "make", "query", "using"} \cup Waiting \cup Over]
        /\ held' \in [Request -> Seq(Pool)]
        /\ at' = [at EXCEPT ![r] = at'[r]] /\ held' = [held EXCEPT ![r] = held'[r]]
        /\ at'[r] \in {"ask", "query"}
    BY <1>1, <2>1, <2>2, HandedIs
  <2>5. /\ recent' \in Seq(Key) /\ Len(recent') = Len(recent) + 1
        /\ IsInjective(recent') /\ Range(recent') = DOMAIN pools \cup {k}
    BY <1>2, <2>1, <2>2, <2>3, AppendIs
  <2>6. /\ DOMAIN pools' = DOMAIN pools \cup {k} /\ pools'[k] = p
        /\ \A l \in DOMAIN pools : pools'[l] = pools[l]
    BY <2>1, <2>3
  <2> HIDE DEF k, p
  <2>7. Range(pools') = Range(pools) \cup {p}
    BY <2>3, <2>6 DEF Range
  <2>8. IsInjective(pools')
    BY <2>3, <2>6 DEF IsInjective, Range, PoolsInductive, PoolsTypeOK
  <2>9. /\ state' \in [Pool -> {"none", "open", "closing", "evicted", "swept", "closed"}]
        /\ state'[p] = "open" /\ \A q \in Pool : q # p => state'[q] = state[q]
    BY <2>1, <2>2 DEF PoolsInductive, PoolsTypeOK
  <2>10. PoolsTypeOK'
    <3>1. idle' \subseteq DOMAIN pools' /\ doomed' \subseteq DOMAIN pools'
      BY <1>1, <1>2, <2>1, <2>6
    <3>2. DOMAIN pools' \subseteq Key /\ Range(pools') \subseteq Pool
      BY <2>2, <2>6, <2>7 DEF PoolsInductive, PoolsTypeOK
    <3> QED
      BY <1>1, <2>4, <2>5, <2>6, <2>8, <2>9, <3>1, <3>2 DEF PoolsInductive, PoolsTypeOK
  <2>11. RoomInv'
    <3>1. Len(recent') <= MaxPools
      BY <1>2, <2>5
    <3>2. mu' \notin Request
      BY <1>1, PoolsAssumption
    <3> QED
      BY <1>1, <2>5, <3>1, <3>2 DEF RoomInv
  <2>12. OpenInv'
    <3>1. Range(pools') = {q \in Pool : state'[q] \in {"open", "closing"}}
      BY <2>2, <2>7, <2>9 DEF PoolsInductive, OpenInv
    <3>2. ASSUME NEW l \in DOMAIN pools'
          PROVE  state'[pools'[l]] # "closing"
      <4>1. CASE l = k
        BY <2>6, <2>9, <4>1
      <4>2. CASE l \in DOMAIN pools
        <5>1. pools[l] \in Pool /\ state[pools[l]] # "closing" /\ pools[l] # p
          BY <1>1, <2>3, <4>2 DEF PoolsInductive, OpenInv, KeysInv, Range
        <5> QED
          BY <2>6, <2>9, <4>2, <5>1
      <4> QED
        BY <2>6, <4>1, <4>2
    <3>3. \A q \in Pool : out'[q] # {} => q \in Range(pools')
      BY <1>1, <2>7 DEF PoolsInductive, OpenInv
    <3> QED
      BY <3>1, <3>2, <3>3 DEF OpenInv
  <2>13. KeysInv'
    <3>1. \A l \in DOMAIN pools' : pools'[l] \in Pool /\ KeyOf(pools'[l]) = l
      BY <2>2, <2>6 DEF PoolsInductive, KeysInv
    <3> QED
      BY <3>1 DEF KeysInv, KeyOf
  <2>14. ASSUME NEW q \in Request, q # r
         PROVE  at'[q] = at[q] /\ held'[q] = held[q] /\ at[q] # "make"
    BY <1>1, <2>4, <2>14, TypeIs DEF PoolsInductive, MakerInv
  <2>15. MakerInv'
    BY <2>4, <2>14 DEF MakerInv
  <2>16. MadeInv(r)' /\ AskedInv(r)'
    <3>1. \A l \in idle' : l \in idle /\ pools'[l] = pools[l] /\ pools'[l] # p
      BY <1>2, <2>1, <2>3, <2>6 DEF Range
    <3>2. p = <<r, Nth(r)>> \/ UNCHANGED state
      BY DEF p
    <3>3. state'[p] # "none" /\ state'[p] # "swept"
      BY <2>9
    <3>4. /\ at[r] \in {"miss", "make"} /\ mu' = Nobody /\ risked' = risked
          /\ Handed(r, p) /\ p \in Pool /\ \A q \in Pool : q # p => state'[q] = state[q]
      BY <1>1, <2>1, <2>2, <2>9
    <3> HIDE DEF k, p
    <3> QED
      BY <3>1, <3>2, <3>3, <3>4, HandedNext
  <2>17. ASSUME NEW q \in Request, q # r
         PROVE  MadeInv(q)' /\ AskedInv(q)'
    <3>1. PoolsTypeOK /\ MadeInv(q) /\ AskedInv(q) /\ held[q] \in Seq(Pool)
      BY TypeIs DEF PoolsInductive
    <3>2. at'[q] = at[q] /\ held'[q] = held[q]
      BY <2>14, <2>17
    <3>3. \A i \in DOMAIN held[q] : state'[held[q][i]] = state[held[q][i]]
      BY <2>2, <2>9, <3>1 DEF MadeInv
    <3>4. \A i \in DOMAIN held[q] : SweptOf(q, i)' => SweptOf(q, i)
      BY <1>3, <3>2, <3>3
    <3>5. \A i \in 1 .. 2 : state'[<<q, i>>] = state[<<q, i>>]
      BY <2>9, <2>17 DEF p, Pool
    <3>6. \A l \in idle' : l \in idle /\ pools'[l] = pools[l]
      BY <1>2, <2>1, <2>6
    <3> QED
      BY <1>1, <3>1, <3>2, <3>3, <3>4, <3>5, <3>6, OthersKeep
  <2> QED
    BY <2>10, <2>11, <2>12, <2>13, <2>15, <2>16, <2>17 DEF PoolsInductive
<1>5. CASE Goto(r, "failed") /\ UNCHANGED <<pools, recent, idle, state, held>>
  <2>1. at' = [at EXCEPT ![r] = "failed"] /\ UNCHANGED <<pools, recent, idle, state, held>>
    BY <1>5 DEF Goto
  <2>2. at'[r] = "failed" /\ \A q \in Request : q # r => at'[q] = at[q] /\ at[q] # "make"
    BY <1>1, <2>1, TypeIs DEF PoolsInductive, MakerInv
  <2>3. PoolsTypeOK'
    BY <1>1, <2>1 DEF PoolsInductive, PoolsTypeOK, Over
  <2>4. RoomInv' /\ OpenInv' /\ KeysInv'
    BY <1>1, <2>1, PoolsAssumption DEF PoolsInductive, RoomInv, OpenInv, KeysInv
  <2>5. MakerInv'
    BY <2>2 DEF MakerInv
  <2>6. MadeInv(r)' /\ AskedInv(r)'
    <3>1. at'[r] \in Over /\ at'[r] \notin Getting /\ at'[r] \notin {"query", "using", "touch", "refused"}
      BY <2>2 DEF Over, Getting, Waiting
    <3>2. \A i \in DOMAIN held'[r] : state'[held'[r][i]] # "none"
      BY <2>1, TypeIs DEF MadeInv
    <3>3. MadeInv(r)'
      BY <3>1, <3>2 DEF MadeInv
    <3>4. AskedInv(r)'
      BY <3>1 DEF AskedInv
    <3> QED
      BY <3>3, <3>4
  <2>7. ASSUME NEW q \in Request, q # r
        PROVE  MadeInv(q)' /\ AskedInv(q)'
    BY <1>1, <1>3, <2>1, <2>2, <2>7, OthersKeep DEF PoolsInductive
  <2> QED
    BY <2>3, <2>4, <2>5, <2>6, <2>7 DEF PoolsInductive
<1> QED
  BY <1>1, <1>4, <1>5 DEF Make

\* A request that is past asking for pools.
LEMMA AskingIs ==
  ASSUME PoolsInductive, NEW r \in Request, at[r] \in {"query", "using"}
  PROVE  /\ held[r] \in Seq(Pool) /\ held[r] # << >> /\ 1 \in DOMAIN held[r]
         /\ Head(held[r]) = held[r][1] /\ Head(held[r]) \in Pool
         /\ \A i \in DOMAIN held[r] :
              /\ state[held[r][i]] # "none"
              /\ SweptOf(r, i) => r \in risked
              /\ \A k \in idle : pools[k] = held[r][i] => r \in risked
<1>1. at[r] \notin Over /\ at[r] # "touch"
  BY DEF Over
<1>2. held[r] \in Seq(Pool) /\ held[r] # << >>
  BY TypeIs DEF MadeInv
<1>3. \A i \in DOMAIN held[r] :
        /\ state[held[r][i]] # "none"
        /\ SweptOf(r, i) => r \in risked
        /\ \A k \in idle : pools[k] = held[r][i] => r \in risked
  BY <1>1, TypeIs DEF MadeInv, AskedInv
<1> QED
  BY <1>2, <1>3

LEMMA AcquireNext ==
  ASSUME PoolsInductive, NEW r \in Request, Acquire(r)
  PROVE  PoolsInductive'
<1> DEFINE p == Head(held[r])
<1>1. /\ at[r] = "query"
      /\ UNCHANGED <<mu, pools, recent, idle, state, doomed, held, process, risked>>
  BY DEF Acquire
<1>2. /\ p = held[r][1] /\ p \in Pool /\ held[r] # << >> /\ 1 \in DOMAIN held[r]
      /\ \A i \in DOMAIN held[r] :
              /\ state[held[r][i]] # "none"
              /\ SweptOf(r, i) => r \in risked
              /\ \A k \in idle : pools[k] = held[r][i] => r \in risked
  BY <1>1, AskingIs
<1>3. RoomInv'
  BY <1>1 DEF PoolsInductive, RoomInv
<1>4. held' = [held EXCEPT ![r] = held'[r]]
  BY <1>1, TypeIs
<1>5. \A i \in DOMAIN held[r] : SweptOf(r, i)' => SweptOf(r, i)
  BY <1>1 DEF SweptOf
<1>6. CASE /\ state[p] = "open" /\ out' = [out EXCEPT ![p] = @ \cup {r}]
           /\ Goto(r, "using")
  <2>1. at' = [at EXCEPT ![r] = "using"]
    BY <1>6 DEF Goto
  <2>2. at'[r] = "using" /\ at' = [at EXCEPT ![r] = at'[r]]
    BY <2>1, TypeIs
  <2> HIDE DEF p
  <2>3. PoolsTypeOK'
    BY <1>1, <1>2, <1>6, <2>1 DEF PoolsInductive, PoolsTypeOK
  <2>4. ASSUME NEW q \in Pool, out'[q] # {}
        PROVE  q \in Range(pools)
    <3>1. CASE q = p
      BY <1>2, <1>6, <3>1 DEF PoolsInductive, OpenInv
    <3>2. CASE q # p
      BY <1>6, <2>4, <3>2 DEF PoolsInductive, OpenInv, PoolsTypeOK
    <3> QED
      BY <3>1, <3>2
  <2>5. MadeInv(r)' /\ AskedInv(r)'
    <3>1. \A i \in DOMAIN held'[r] :
            /\ state'[held'[r][i]] # "none"
            /\ SweptOf(r, i)' => r \in risked'
            /\ \A k \in idle' : pools'[k] = held'[r][i] => r \in risked'
      BY <1>1, <1>2, <1>5
    <3> QED
      BY <1>1, <1>2, <2>2, <3>1, OnwardNext
  <2> QED
    BY <1>1, <1>3, <1>4, <2>2, <2>3, <2>4, <2>5, RequestKeeps
<1>7. CASE state[p] # "open" /\ Goto(r, "refused") /\ UNCHANGED out
  <2>1. at' = [at EXCEPT ![r] = "refused"]
    BY <1>7 DEF Goto
  <2>2. at'[r] = "refused" /\ at' = [at EXCEPT ![r] = at'[r]]
    BY <2>1, TypeIs
  <2>3. PoolsTypeOK'
    BY <1>1, <1>7, <2>1 DEF PoolsInductive, PoolsTypeOK, Over
  <2>4. \A q \in Pool : out'[q] # {} => q \in Range(pools)
    BY <1>7 DEF PoolsInductive, OpenInv
  <2>5. MadeInv(r)'
    <3>1. at'[r] \notin Getting /\ at'[r] \notin {"query", "using", "touch"}
      BY <2>2 DEF Getting, Waiting
    <3> QED
      BY <1>1, <1>2, <3>1 DEF MadeInv
  <2>6. AskedInv(r)'
    <3>1. at'[r] \in Over
      BY <2>2 DEF Over
    <3>2. state'[Head(held'[r])] # "open" /\ held'[r] # << >>
      BY <1>1, <1>2, <1>7
    <3>3. SweptOf(r, 1)' => r \in risked'
      BY <1>1, <1>2, <1>5
    <3> QED
      BY <3>1, <3>2, <3>3 DEF AskedInv
  <2> QED
    BY <1>1, <1>3, <1>4, <2>2, <2>3, <2>4, <2>5, <2>6, RequestKeeps
<1> QED
  BY <1>6, <1>7 DEF Acquire

LEMMA ReleaseNext ==
  ASSUME PoolsInductive, NEW r \in Request, Release(r)
  PROVE  PoolsInductive'
<1> DEFINE p == Head(held[r])
<1>1. /\ at[r] = "using" /\ out' = [out EXCEPT ![p] = @ \ {r}]
      /\ held' = [held EXCEPT ![r] = Tail(@)]
      /\ at' = [at EXCEPT ![r] = IF Len(held[r]) = 1 THEN "done" ELSE "query"]
      /\ UNCHANGED <<mu, pools, recent, idle, state, doomed, process, risked>>
  BY DEF Release, Goto
<1>2. /\ held[r] \in Seq(Pool) /\ held[r] # << >> /\ p \in Pool
      /\ \A i \in DOMAIN held[r] :
              /\ state[held[r][i]] # "none"
              /\ SweptOf(r, i) => r \in risked
              /\ \A k \in idle : pools[k] = held[r][i] => r \in risked
  BY <1>1, AskingIs
<1>3. /\ at'[r] = IF Len(held[r]) = 1 THEN "done" ELSE "query"
      /\ at' = [at EXCEPT ![r] = at'[r]] /\ held'[r] = Tail(held[r])
      /\ held' = [held EXCEPT ![r] = held'[r]]
  BY <1>1, TypeIs
<1>4. /\ held'[r] \in Seq(Pool) /\ Len(held'[r]) = Len(held[r]) - 1
      /\ \A i \in DOMAIN held'[r] : i + 1 \in DOMAIN held[r] /\ held'[r][i] = held[r][i + 1]
  BY <1>2, <1>3
<1> HIDE DEF p
<1>5. PoolsTypeOK'
  <2>1. at' \in [Request -> {"new", "make", "query", "using"} \cup Waiting \cup Over]
    BY <1>1, TypeIs DEF Over
  <2>2. held' \in [Request -> Seq(Pool)]
    BY <1>3, <1>4, TypeIs
  <2>3. out' \in [Pool -> SUBSET Request]
    BY <1>1, <1>2 DEF PoolsInductive, PoolsTypeOK
  <2> QED
    BY <1>1, <2>1, <2>2, <2>3 DEF PoolsInductive, PoolsTypeOK
<1>6. RoomInv'
  BY <1>1 DEF PoolsInductive, RoomInv
<1>7. ASSUME NEW q \in Pool, out'[q] # {}
      PROVE  q \in Range(pools)
  <2>1. out[q] # {}
    BY <1>1, <1>2, <1>7 DEF PoolsInductive, PoolsTypeOK
  <2> QED
    BY <2>1 DEF PoolsInductive, OpenInv
<1>8. \A i \in DOMAIN held'[r] :
        /\ state'[held'[r][i]] # "none"
        /\ SweptOf(r, i)' => r \in risked'
        /\ \A k \in idle' : pools'[k] = held'[r][i] => r \in risked'
  <2> SUFFICES ASSUME NEW i \in DOMAIN held'[r]
               PROVE  /\ state'[held'[r][i]] # "none"
                      /\ SweptOf(r, i)' => r \in risked'
                      /\ \A k \in idle' : pools'[k] = held'[r][i] => r \in risked'
    OBVIOUS
  <2>1. i + 1 \in DOMAIN held[r] /\ held'[r][i] = held[r][i + 1]
    BY <1>4
  <2>2. SweptOf(r, i)' => SweptOf(r, i + 1)
    BY <1>1, <2>1 DEF SweptOf
  <2> QED
    BY <1>1, <1>2, <2>1, <2>2
<1>9. MadeInv(r)' /\ AskedInv(r)'
  <2>1. CASE Len(held[r]) = 1
    <3>1. /\ at'[r] \notin Getting /\ at'[r] \notin {"query", "using", "touch", "refused"}
          /\ at'[r] \in Over
      BY <1>3, <2>1 DEF Getting, Waiting, Over
    <3>2. MadeInv(r)'
      BY <1>8, <3>1 DEF MadeInv
    <3>3. AskedInv(r)'
      BY <3>1 DEF AskedInv
    <3> QED
      BY <3>2, <3>3
  <2>2. CASE Len(held[r]) # 1
    <3>1. at'[r] = "query"
      BY <1>3, <2>2
    <3>2. held'[r] # << >>
      <4>1. \A h \in Seq(Pool) : h # << >> /\ Len(h) # 1 => Len(h) - 1 # 0
        OBVIOUS
      <4>2. Len(held'[r]) # 0
        BY <1>2, <1>4, <2>2, <4>1
      <4> QED
        BY <4>2
    <3> QED
      BY <1>8, <3>1, <3>2, OnwardNext
  <2> QED
    BY <2>1, <2>2
<1>10. at'[r] # "make"
  BY <1>3
<1> QED
  BY <1>1, <1>3, <1>5, <1>6, <1>7, <1>9, <1>10, RequestKeeps

\* What a step that moves no request, and opens no pool, has to show of each.
LEMMA AllKeep ==
  ASSUME PoolsInductive, at' = at, held' = held, NEW q \in Request, risked \subseteq risked',
         \A p \in Pool : /\ state'[p] = "none" <=> state[p] = "none"
                         /\ state'[p] = "open" => state[p] = "open",
         \A i \in DOMAIN held[q] : at[q] \notin Over \/ state'[held[q][i]] # "open" =>
           (SweptOf(q, i)' => SweptOf(q, i) \/ q \in risked'),
         at[q] \notin Over => \A i \in DOMAIN held[q], k \in idle' :
           pools'[k] = held[q][i] => \/ q \in risked' \/ (at[q] = "touch" /\ i = Len(held[q]))
                                     \/ k \in idle /\ pools[k] = held[q][i]
  PROVE  MadeInv(q)' /\ AskedInv(q)'
<1>1. held[q] \in Seq(Pool) /\ MadeInv(q) /\ AskedInv(q)
  BY TypeIs
<1>2. \A i \in 1 .. 2 : <<q, i>> \in Pool
  BY DEF Pool
<1>3. Nth(q)' = Nth(q)
  BY DEF Nth
<1>4. MadeInv(q)'
  <2>1. \A i \in DOMAIN held[q] : state'[held[q][i]] # "none"
    BY <1>1 DEF MadeInv
  <2>2. at[q] \in Getting => \A i \in 1 .. 2 : i >= Nth(q) => state'[<<q, i>>] = "none"
    BY <1>1, <1>2 DEF MadeInv
  <2> QED
    BY <1>1, <1>3, <2>1, <2>2 DEF MadeInv
<1>5. AskedInv(q)'
  <2>1. at[q] \notin Over => \A i \in DOMAIN held[q] : SweptOf(q, i)' => q \in risked'
    BY <1>1 DEF AskedInv
  <2>2. at[q] \notin Over => \A i \in DOMAIN held[q], k \in idle' :
          pools'[k] = held[q][i] => q \in risked' \/ (at[q] = "touch" /\ i = Len(held[q]))
    BY <1>1 DEF AskedInv
  <2>3. ASSUME at[q] = "refused"
        PROVE  /\ held[q] # << >> /\ state'[Head(held[q])] # "open"
               /\ SweptOf(q, 1)' => q \in risked'
    <3>1. /\ held[q] # << >> /\ state[Head(held[q])] # "open"
          /\ SweptOf(q, 1) => q \in risked
      BY <1>1, <2>3 DEF AskedInv
    <3>2. Head(held[q]) \in Pool /\ 1 \in DOMAIN held[q]
      BY <1>1, <3>1
    <3> QED
      BY <3>1, <3>2
  <2> QED
    BY <2>1, <2>2, <2>3 DEF AskedInv
<1> QED
  BY <1>4, <1>5

LEMMA CloseOneNext == PoolsInductive /\ CloseOne => PoolsInductive'
<1> SUFFICES ASSUME PoolsInductive, CloseOne
             PROVE  PoolsInductive'
  OBVIOUS
<1>1. UNCHANGED <<mu, pools, recent, idle, out, doomed, at, held, process, risked>>
  BY DEF CloseOne
<1>2. PICK k \in doomed : state' = [state EXCEPT ![pools[k]] = "closing"]
  BY DEF CloseOne
<1>3. k \in DOMAIN pools /\ pools[k] \in Pool /\ pools[k] \in Range(pools)
  BY DEF PoolsInductive, PoolsTypeOK, KeysInv, Range
<1>4. state[pools[k]] \in {"open", "closing"}
  BY <1>3 DEF PoolsInductive, OpenInv
<1>5. /\ state' \in [Pool -> {"none", "open", "closing", "evicted", "swept", "closed"}]
      /\ state'[pools[k]] = "closing" /\ \A p \in Pool : p # pools[k] => state'[p] = state[p]
  BY <1>2, <1>3 DEF PoolsInductive, PoolsTypeOK
<1>6. PoolsTypeOK'
  BY <1>1, <1>5 DEF PoolsInductive, PoolsTypeOK
<1>7. RoomInv'
  BY <1>1 DEF PoolsInductive, RoomInv
<1>8. OpenInv'
  <2>1. Range(pools) = {p \in Pool : state'[p] \in {"open", "closing"}}
    BY <1>4, <1>5 DEF PoolsInductive, OpenInv
  <2>2. ASSUME NEW l \in DOMAIN pools, state'[pools[l]] = "closing"
        PROVE  l \in doomed
    <3>1. CASE pools[l] = pools[k]
      BY <1>3, <3>1 DEF PoolsInductive, KeysInv
    <3>2. CASE pools[l] # pools[k]
      BY <1>5, <2>2, <3>2 DEF PoolsInductive, KeysInv, OpenInv
    <3> QED
      BY <3>1, <3>2
  <2> QED
    BY <1>1, <2>1, <2>2 DEF PoolsInductive, OpenInv
<1>9. KeysInv' /\ MakerInv'
  BY <1>1 DEF PoolsInductive, KeysInv, MakerInv, Nth
<1>10. ASSUME NEW q \in Request
       PROVE  MadeInv(q)' /\ AskedInv(q)'
  <2>1. \A p \in Pool : /\ state'[p] = "none" <=> state[p] = "none"
                        /\ state'[p] = "open" => state[p] = "open"
    BY <1>4, <1>5
  <2>2. \A i \in DOMAIN held[q] : SweptOf(q, i)' => SweptOf(q, i)
    <3>1. \A i \in DOMAIN held[q] : held[q][i] \in Pool
      BY TypeIs
    <3> QED
      BY <1>1, <1>5, <3>1 DEF SweptOf
  <2> QED
    BY <1>1, <2>1, <2>2, AllKeep
<1> QED
  BY <1>6, <1>7, <1>8, <1>9, <1>10 DEF PoolsInductive

LEMMA CloseDoneNext == PoolsInductive /\ CloseDone => PoolsInductive'
<1> SUFFICES ASSUME PoolsInductive, CloseDone
             PROVE  PoolsInductive'
  OBVIOUS
<1>1. UNCHANGED <<mu, out, at, held, process, risked>>
  BY DEF CloseDone
<1>2. PICK k \in Shutting :
        /\ out[pools[k]] = {}
        /\ state' = [state EXCEPT ![pools[k]] = CASE mu = Sweeper -> "swept"
                                                  [] mu = Closer  -> "closed"
                                                  [] OTHER        -> "evicted"]
        /\ pools' = [l \in DOMAIN pools \ {k} |-> pools[l]]
        /\ recent' = Without(recent, k)
        /\ idle' = idle \ {k} /\ doomed' = doomed \ {k}
  BY DEF CloseDone
<1> DEFINE p == pools[k]
           s == CASE mu = Sweeper -> "swept" [] mu = Closer -> "closed" [] OTHER -> "evicted"
<1>3. k \in doomed /\ k \in DOMAIN pools /\ p \in Pool /\ state[p] = "closing"
  BY DEF Shutting, PoolsInductive, PoolsTypeOK, KeysInv
<1>4. s \in {"swept", "closed", "evicted"} /\ (s = "swept" => mu = Sweeper)
  BY PoolsAssumption
<1>5. /\ DOMAIN pools' = DOMAIN pools \ {k} /\ \A l \in DOMAIN pools' : pools'[l] = pools[l]
      /\ \A l \in DOMAIN pools : pools[l] = p => l = k
  BY <1>2, <1>3 DEF PoolsInductive, KeysInv
<1> HIDE DEF s
<1>6. /\ state' \in [Pool -> {"none", "open", "closing", "evicted", "swept", "closed"}]
      /\ state'[p] = s /\ \A q \in Pool : q # p => state'[q] = state[q]
  <2>1. state' = [state EXCEPT ![p] = s]
    BY <1>2 DEF s
  <2> HIDE DEF p
  <2> QED
    BY <1>3, <1>4, <2>1 DEF PoolsInductive, PoolsTypeOK
<1>7. /\ recent' \in Seq(Key) /\ Len(recent') = Len(recent) - 1
      /\ IsInjective(recent') /\ Range(recent') = DOMAIN pools \ {k}
  <2>1. recent \in Seq(Key) /\ IsInjective(recent) /\ Range(recent) = DOMAIN pools
    BY DEF PoolsInductive, PoolsTypeOK, RoomInv
  <2> QED
    BY <1>2, <1>3, <2>1, WithoutIs
<1>8. idle' = idle \ {k} /\ doomed' = doomed \ {k} /\ out[p] = {}
  BY <1>2
<1> HIDE DEF p
<1>9. Range(pools') = Range(pools) \ {p}
  <2>1. p = pools[k]
    BY DEF p
  <2> QED
    BY <1>3, <1>5, <2>1 DEF Range
<1>10. PoolsTypeOK'
  <2>1. IsInjective(pools')
    BY <1>5 DEF IsInjective, PoolsInductive, PoolsTypeOK
  <2> QED
    BY <1>1, <1>5, <1>6, <1>7, <1>8, <1>9, <2>1 DEF PoolsInductive, PoolsTypeOK
<1>11. RoomInv'
  <2>1. Len(recent) \in Nat /\ Len(recent) <= MaxPools /\ MaxPools \in Nat
    BY PoolsAssumption DEF PoolsInductive, RoomInv
  <2>2. Len(recent') < MaxPools
    BY <1>7, <2>1
  <2>3. mu # Nobody
    BY <1>3 DEF PoolsInductive, RoomInv
  <2> QED
    BY <1>1, <1>7, <2>1, <2>2, <2>3 DEF RoomInv
<1>12. OpenInv'
  <2>1. Range(pools') = {q \in Pool : state'[q] \in {"open", "closing"}}
    BY <1>4, <1>6, <1>9 DEF PoolsInductive, OpenInv
  <2>2. ASSUME NEW l \in DOMAIN pools', state'[pools'[l]] = "closing"
        PROVE  l \in doomed'
    <3>1. l \in DOMAIN pools /\ l # k /\ pools'[l] = pools[l] /\ pools[l] # p /\ pools[l] \in Pool
      BY <1>5 DEF PoolsInductive, KeysInv
    <3> QED
      BY <1>6, <1>8, <2>2, <3>1 DEF PoolsInductive, OpenInv
  <2>3. \A q \in Pool : out'[q] # {} => q \in Range(pools')
    BY <1>1, <1>8, <1>9 DEF PoolsInductive, OpenInv
  <2> QED
    BY <2>1, <2>2, <2>3 DEF OpenInv
<1>13. KeysInv' /\ MakerInv'
  BY <1>1, <1>5 DEF PoolsInductive, KeysInv, MakerInv, Nth, KeyOf
<1>14. ASSUME NEW q \in Request
       PROVE  MadeInv(q)' /\ AskedInv(q)'
  <2>1. \A o \in Pool : /\ state'[o] = "none" <=> state[o] = "none"
                        /\ state'[o] = "open" => state[o] = "open"
    BY <1>3, <1>4, <1>6
  <2>2. ASSUME NEW i \in DOMAIN held[q], SweptOf(q, i)'
        PROVE  SweptOf(q, i)
    <3>1. held[q][i] \in Pool
      BY TypeIs
    <3>2. CASE held[q][i] = p
      <4>1. mu = Sweeper
        BY <1>1, <1>4, <1>6, <2>2, <3>2 DEF SweptOf
      <4> QED
        BY <1>3, <3>2, <4>1 DEF SweptOf, p
    <3>3. CASE held[q][i] # p
      BY <1>1, <1>5, <1>6, <1>8, <2>2, <3>1, <3>3 DEF SweptOf, PoolsInductive, PoolsTypeOK
    <3> QED
      BY <3>2, <3>3
  <2>3. \A i \in DOMAIN held[q], l \in idle' :
          pools'[l] = held[q][i] => l \in idle /\ pools[l] = held[q][i]
    <3>1. \A l \in idle' : l \in idle /\ l \in DOMAIN pools'
      BY <1>5, <1>8 DEF PoolsInductive, PoolsTypeOK
    <3> QED
      BY <1>5, <3>1
  <2> QED
    BY <1>1, <2>1, <2>2, <2>3, AllKeep
<1> QED
  BY <1>10, <1>11, <1>12, <1>13, <1>14 DEF PoolsInductive

\* The sweep, the shutdown and the clock, which close nothing yet.
LEMMA LockKeeps ==
  ASSUME PoolsInductive, UNCHANGED <<pools, recent, state, out, at, held>>,
         risked' \in SUBSET Request, risked \subseteq risked', process' \in {"up", "closed", "gone"},
         mu' \in {Sweeper, Closer, Nobody} \/ mu' = mu,
         doomed \subseteq doomed', doomed' \subseteq DOMAIN pools, idle' \subseteq DOMAIN pools,
         mu' # Nobody \/ doomed' = {}, mu' = mu \/ mu \notin Request,
         mu' = mu => doomed' = doomed,
         \A q \in Request : at[q] \notin Over => \A i \in DOMAIN held[q], k \in DOMAIN pools :
           pools[k] = held[q][i] =>
             /\ k \in doomed' /\ mu' = Sweeper => SweptOf(q, i) \/ q \in risked'
             /\ k \in idle' => k \in idle \/ q \in risked',
         \A k \in doomed' : (k \in doomed /\ mu' = mu) \/ state[pools[k]] = "open"
  PROVE  PoolsInductive'
<1>1. PoolsTypeOK'
  BY DEF PoolsInductive, PoolsTypeOK
<1>2. RoomInv'
  BY PoolsAssumption DEF PoolsInductive, RoomInv
<1>3. OpenInv' /\ KeysInv'
  BY DEF PoolsInductive, OpenInv, KeysInv
<1>4. MakerInv'
  BY DEF PoolsInductive, MakerInv, Nth
<1>5. ASSUME NEW q \in Request
      PROVE  MadeInv(q)' /\ AskedInv(q)'
  <2>1. ASSUME NEW i \in DOMAIN held[q], at[q] \notin Over \/ state[held[q][i]] # "open",
               SweptOf(q, i)'
        PROVE  SweptOf(q, i) \/ q \in risked'
    <3>1. CASE state[held[q][i]] = "swept"
      BY <3>1 DEF SweptOf
    <3>2. CASE state[held[q][i]] # "swept"
      <4>1. mu' = Sweeper /\ \E k \in doomed' : pools[k] = held[q][i]
        BY <2>1, <3>2 DEF SweptOf
      <4>2. PICK k \in doomed' : pools[k] = held[q][i]
        BY <4>1
      <4>3. CASE k \in doomed /\ mu' = mu
        BY <4>1, <4>2, <4>3 DEF SweptOf
      <4>4. CASE state[pools[k]] = "open"
        BY <2>1, <4>1, <4>2, <4>4
      <4> QED
        BY <4>2, <4>3, <4>4
    <3> QED
      BY <3>1, <3>2
  <2>2. at[q] \notin Over => \A i \in DOMAIN held[q], k \in idle' :
          pools[k] = held[q][i] => k \in idle \/ q \in risked'
    OBVIOUS
  <2> QED
    BY <2>1, <2>2, AllKeep
<1> QED
  BY <1>1, <1>2, <1>3, <1>4, <1>5 DEF PoolsInductive

LEMMA SweepNext == PoolsInductive /\ sweepIdlePools => PoolsInductive'
<1> SUFFICES ASSUME PoolsInductive, sweepIdlePools
             PROVE  PoolsInductive'
  OBVIOUS
<1>1. /\ process = "up" /\ mu = Nobody /\ mu' = Sweeper /\ doomed' = idle
      /\ risked' = risked \cup Untouched(idle)
      /\ UNCHANGED <<pools, recent, idle, state, out, at, held, process>>
  BY DEF sweepIdlePools
<1>2. doomed = {} /\ idle \subseteq DOMAIN pools /\ mu' # Nobody /\ mu' # mu /\ mu \notin Request
  BY <1>1, PoolsAssumption DEF PoolsInductive, PoolsTypeOK, RoomInv
<1>3. risked' \in SUBSET Request /\ risked \subseteq risked'
  BY <1>1 DEF Untouched, PoolsInductive, PoolsTypeOK
<1>4. ASSUME NEW q \in Request, at[q] \notin Over, NEW i \in DOMAIN held[q], NEW k \in idle,
             pools[k] = held[q][i]
      PROVE  q \in risked'
  <2>1. q \in risked \/ (at[q] = "touch" /\ i = Len(held[q]))
    BY <1>4 DEF PoolsInductive, AskedInv
  <2>2. CASE at[q] = "touch" /\ i = Len(held[q])
    <3>1. KeyOf(held[q][Len(held[q])]) = KeysOf[q][Len(held[q])]
      BY <2>2 DEF PoolsInductive, MadeInv
    <3>2. KeyOf(pools[k]) = k
      BY <1>2 DEF PoolsInductive, KeysInv
    <3>3. KeysOf[q][Len(held[q])] = k
      BY <1>4, <2>2, <3>1, <3>2
    <3>4. KeysOf[q][Len(held[q])] \in idle
      BY <3>3
    <3> QED
      BY <1>1, <2>2, <3>4 DEF Untouched
  <2> QED
    BY <1>1, <2>1, <2>2
<1>5. \A k \in idle : state[pools[k]] = "open"
  BY <1>1, <1>2, FreshPool
<1> QED
  BY <1>1, <1>2, <1>3, <1>4, <1>5, LockKeeps

LEMMA CloseNext == PoolsInductive /\ Close => PoolsInductive'
<1> SUFFICES ASSUME PoolsInductive, Close
             PROVE  PoolsInductive'
  OBVIOUS
<1>1. /\ mu = Nobody /\ mu' = Closer /\ doomed' = DOMAIN pools /\ process' = "closed"
      /\ UNCHANGED <<pools, recent, idle, state, out, at, held, risked>>
  BY DEF Close
<1>2. /\ doomed = {} /\ idle \subseteq DOMAIN pools /\ risked \in SUBSET Request
      /\ mu' # Nobody /\ mu' # mu /\ mu' # Sweeper /\ mu \notin Request
  BY <1>1, PoolsAssumption DEF PoolsInductive, PoolsTypeOK, RoomInv
<1>3. \A k \in DOMAIN pools : state[pools[k]] = "open"
  BY <1>1, FreshPool
<1> QED
  BY <1>1, <1>2, <1>3, LockKeeps

LEMMA UnlockNext == PoolsInductive /\ Unlock => PoolsInductive'
<1> SUFFICES ASSUME PoolsInductive, Unlock
             PROVE  PoolsInductive'
  OBVIOUS
<1>1. /\ mu \in {Sweeper, Closer} /\ doomed = {} /\ mu' = Nobody
      /\ UNCHANGED <<pools, recent, idle, state, out, doomed, at, held, process, risked>>
  BY DEF Unlock
<1>2. /\ idle \subseteq DOMAIN pools /\ risked \in SUBSET Request /\ mu \notin Request
      /\ process \in {"up", "closed", "gone"} /\ mu' # mu
  BY <1>1, PoolsAssumption DEF PoolsInductive, PoolsTypeOK
<1> QED
  BY <1>1, <1>2, LockKeeps

LEMMA ExitNext == PoolsInductive /\ Exit => PoolsInductive'
<1> SUFFICES ASSUME PoolsInductive, Exit
             PROVE  PoolsInductive'
  OBVIOUS
<1>1. /\ mu = Nobody /\ process' = "gone"
      /\ UNCHANGED <<mu, pools, recent, idle, state, out, doomed, at, held, risked>>
  BY DEF Exit
<1>2. /\ idle \subseteq DOMAIN pools /\ risked \in SUBSET Request /\ doomed = {}
  BY <1>1 DEF PoolsInductive, PoolsTypeOK, RoomInv
<1> QED
  BY <1>1, <1>2, LockKeeps

LEMMA TimeNext == PoolsInductive /\ TimePasses => PoolsInductive'
<1> SUFFICES ASSUME PoolsInductive, TimePasses
             PROVE  PoolsInductive'
  OBVIOUS
<1>1. /\ idle' = DOMAIN pools
      /\ risked' = risked \cup {r \in Request : held[r] # << >> /\ at[r] \notin Over}
      /\ UNCHANGED <<mu, pools, recent, state, out, doomed, at, held, process>>
  BY DEF TimePasses
<1>2. /\ risked' \in SUBSET Request /\ risked \subseteq risked' /\ doomed \subseteq DOMAIN pools
      /\ process \in {"up", "closed", "gone"} /\ (mu # Nobody \/ doomed = {})
  BY <1>1 DEF PoolsInductive, PoolsTypeOK, RoomInv
<1>3. ASSUME NEW q \in Request, at[q] \notin Over, NEW i \in DOMAIN held[q]
      PROVE  q \in risked'
  <2>1. held[q] # << >>
    BY <1>3
  <2> QED
    BY <1>1, <1>3, <2>1
<1> QED
  BY <1>1, <1>2, <1>3, LockKeeps

LEMMA PoolsStep == PoolsInductive /\ [PoolsNext]_poolVars => PoolsInductive'
<1> SUFFICES ASSUME PoolsInductive, [PoolsNext]_poolVars
             PROVE  PoolsInductive'
  OBVIOUS
<1>1. ASSUME NEW r \in Request,
             \/ Begin(r) \/ Lookup(r) \/ touchPool(r) \/ Miss(r) \/ Make(r)
             \/ Acquire(r) \/ Release(r)
      PROVE  PoolsInductive'
  BY <1>1, BeginNext, LookupNext, TouchNext, MissNext, MakeNext, AcquireNext, ReleaseNext
<1>2. CASE UNCHANGED poolVars
  <2>1. PoolsTypeOK' /\ RoomInv' /\ OpenInv' /\ KeysInv' /\ MakerInv'
    BY <1>2 DEF poolVars, PoolsInductive, PoolsTypeOK, RoomInv, OpenInv, KeysInv, MakerInv, Nth
  <2>2. ASSUME NEW q \in Request
        PROVE  MadeInv(q)' /\ AskedInv(q)'
    <3>1. \A i \in DOMAIN held[q] : SweptOf(q, i)' => SweptOf(q, i)
      BY <1>2 DEF poolVars, SweptOf
    <3>2. PoolsTypeOK /\ MadeInv(q) /\ AskedInv(q)
      BY DEF PoolsInductive
    <3> QED
      BY <1>2, <3>1, <3>2, OthersKeep DEF poolVars
  <2> QED
    BY <2>1, <2>2 DEF PoolsInductive
<1> QED
  BY <1>1, <1>2, CloseOneNext, CloseDoneNext, UnlockNext, SweepNext, CloseNext, ExitNext, TimeNext
  DEF PoolsNext

\* Outside pm.mu the cache holds the pools that are open, at most
\* poolManagerMaxPools of them, nobody keeps a connection of a pool that is not
\* in it, and a request that finds its pool closed by the sweep had not touched
\* it or was held up (GetPoolForProfile, evictLRULocked, sweepIdlePools): for
\* any number of requests, databases and pools.
THEOREM PoolsTrue == PoolsSpec => [](PoolsTypeOK /\ PoolsExplained)
<1>1. PoolsInductive => PoolsTypeOK /\ PoolsExplained
  <2> SUFFICES ASSUME PoolsInductive
               PROVE  PoolsTypeOK /\ PoolsExplained
    OBVIOUS
  <2>1. CacheIsOpen
    <3>1. Cardinality(DOMAIN pools) <= MaxPools
      <4>1. /\ recent \in Seq(Key) /\ Range(recent) = DOMAIN pools /\ Len(recent) <= MaxPools
            /\ Len(recent) \in Nat /\ MaxPools \in Nat
        BY PoolsAssumption DEF PoolsInductive, PoolsTypeOK, RoomInv
      <4>2. Cardinality(DOMAIN pools) <= Len(recent) /\ IsFiniteSet(DOMAIN pools)
        BY <4>1, KeysCounted
      <4>3. Cardinality(DOMAIN pools) \in Nat
        BY <4>2, FS_CardinalityType
      <4> QED
        BY <4>1, <4>2, <4>3
    <3>2. ASSUME mu = Nobody
          PROVE  Range(pools) = {p \in Pool : state[p] = "open"}
      <4>1. doomed = {}
        BY <3>2 DEF PoolsInductive, RoomInv
      <4>2. \A p \in Range(pools) : state[p] # "closing"
        BY <4>1 DEF PoolsInductive, OpenInv, Range
      <4> QED
        BY <4>2 DEF PoolsInductive, OpenInv
    <3>3. \A p \in Pool : out[p] # {} => p \in Range(pools)
      BY DEF PoolsInductive, OpenInv
    <3> QED
      BY <3>1, <3>2, <3>3 DEF CacheIsOpen
  <2>2. RefusalsExplained
    <3> SUFFICES ASSUME NEW r \in Request, at[r] = "refused", state[Head(held[r])] = "swept"
                 PROVE  r \in risked
      BY DEF RefusalsExplained
    <3>1. held[r] # << >> /\ held[r] \in Seq(Pool) /\ (SweptOf(r, 1) => r \in risked)
      BY TypeIs DEF AskedInv
    <3>2. Head(held[r]) = held[r][1]
      BY <3>1
    <3> QED
      BY <3>1, <3>2 DEF SweptOf
  <2> QED
    BY <2>1, <2>2 DEF PoolsExplained, PoolsInductive
<1> QED
  BY <1>1, PoolsStart, PoolsStep, PTL DEF PoolsSpec

-----------------------------------------------------------------------------
(* The sockets *)

Stages == {"free", "connecting", "open", "closing", "broken"}
Rec    == [heard : BOOLEAN, stage : Stages]

LEMMA ClosedIs ==
  ASSUME NEW r \in Rec
  PROVE  /\ Closed(r) \in Rec /\ Closed(r).stage \notin {"connecting", "open"}
         /\ Closed(r).heard = r.heard
         /\ Closed(r).stage = "free" <=> r.stage = "free"
         /\ r.stage \in {"open", "closing", "broken"} => Closed(r).stage \in {"closing", "broken"}
<1>1. r = [heard |-> r.heard, stage |-> r.stage] /\ r.heard \in BOOLEAN /\ r.stage \in Stages
  BY DEF Rec
<1>2. CASE r.stage = "open"
  <2>1. Closed(r) = [r EXCEPT !.stage = "closing"]
    BY <1>2 DEF Closed
  <2>2. Closed(r) = [heard |-> r.heard, stage |-> "closing"]
    BY <1>1, <2>1
  <2> QED
    BY <1>1, <1>2, <2>2 DEF Rec, Stages
<1>3. CASE r.stage = "connecting"
  <2>1. Closed(r) = [r EXCEPT !.stage = "broken"]
    BY <1>3 DEF Closed
  <2>2. Closed(r) = [heard |-> r.heard, stage |-> "broken"]
    BY <1>1, <2>1
  <2> QED
    BY <1>1, <1>3, <2>2 DEF Rec, Stages
<1>4. CASE r.stage \in {"free", "closing", "broken"}
  BY <1>1, <1>4 DEF Closed
<1> QED
  BY <1>1, <1>2, <1>3, <1>4 DEF Stages

LEMMA DropIs ==
  ASSUME NEW socks \in [Socket -> Rec], NEW s
  PROVE  /\ Drop(socks, s) \in [Socket -> Rec]
         /\ \A t \in Socket : t # s => Drop(socks, s)[t] = socks[t]
         /\ s \in Socket => /\ Drop(socks, s)[s].heard = FALSE
                            /\ Drop(socks, s)[s].stage \notin {"connecting", "open"}
                            /\ Drop(socks, s)[s].stage = "free" <=> socks[s].stage = "free"
<1>1. ASSUME NEW t \in Socket
      PROVE  /\ Drop(socks, s)[t] \in Rec
             /\ t # s => Drop(socks, s)[t] = socks[t]
             /\ t = s => /\ Drop(socks, s)[t].heard = FALSE
                         /\ Drop(socks, s)[t].stage \notin {"connecting", "open"}
                         /\ Drop(socks, s)[t].stage = "free" <=> socks[t].stage = "free"
  <2> DEFINE c == Closed(socks[t])
  <2>1. c \in Rec /\ c.stage \notin {"connecting", "open"} /\ (c.stage = "free" <=> socks[t].stage = "free")
    BY ClosedIs
  <2>2. t = s => Drop(socks, s)[t] = [c EXCEPT !.heard = FALSE]
    BY DEF Drop
  <2>3. t # s => Drop(socks, s)[t] = socks[t]
    BY DEF Drop
  <2> HIDE DEF c
  <2>4. [c EXCEPT !.heard = FALSE] = [heard |-> FALSE, stage |-> c.stage]
    <3>1. ASSUME NEW d \in Rec, NEW b
          PROVE  [d EXCEPT !.heard = b] = [heard |-> b, stage |-> d.stage]
      BY DEF Rec
    <3> QED
      BY <2>1, <3>1
  <2> QED
    BY <2>1, <2>2, <2>3, <2>4 DEF Rec
<1> QED
  BY <1>1 DEF Drop

LEMMA CloseIs ==
  ASSUME NEW socks \in [Socket -> Rec], NEW s
  PROVE  /\ close(socks, s) \in [Socket -> Rec]
         /\ \A t \in Socket :
              /\ t # s => close(socks, s)[t] = socks[t]
              /\ close(socks, s)[t].heard = socks[t].heard
              /\ close(socks, s)[t].stage = "free" <=> socks[t].stage = "free"
              /\ socks[t].stage \in {"closing", "broken"} =>
                   close(socks, s)[t].stage \in {"closing", "broken"}
              /\ socks[t].stage = "open" =>
                   close(socks, s)[t].stage \in {"open", "closing", "broken"}
              /\ socks[t].stage = "connecting" =>
                   close(socks, s)[t].stage \in {"connecting", "broken", "closing"}
              /\ t = s => close(socks, s)[t].stage \notin {"connecting", "open"}
<1>1. ASSUME NEW t \in Socket
      PROVE  /\ socks[t] \in Rec /\ Closed(socks[t]) \in Rec
             /\ t = s => close(socks, s)[t] = Closed(socks[t])
             /\ t # s => close(socks, s)[t] = socks[t]
  BY ClosedIs DEF close
<1>2. close(socks, s) \in [Socket -> Rec]
  BY <1>1 DEF close
<1>3. ASSUME NEW t \in Socket, t = s
      PROVE  /\ close(socks, s)[t].heard = socks[t].heard
             /\ close(socks, s)[t].stage \notin {"connecting", "open"}
             /\ close(socks, s)[t].stage = "free" <=> socks[t].stage = "free"
             /\ close(socks, s)[t].stage \in Stages
             /\ socks[t].stage \in {"open", "closing", "broken"} =>
                  close(socks, s)[t].stage \in {"closing", "broken"}
  BY <1>1, <1>3, ClosedIs DEF Rec
<1> QED
  BY <1>1, <1>2, <1>3 DEF Stages

\* The dashboard's socket stays if it is open, or a free one takes its place.
LEMMA ConnectIs ==
  ASSUME FeedInductive, NEW socks \in [Socket -> Rec], connectWebSocket(socks)
  PROVE  \/ /\ sock' = socks /\ UNCHANGED <<ws, hasty>>
            /\ ws \in Feeds /\ socks[ws].stage = "open"
         \/ \E s \in Feeds :
              /\ sock[s].stage = "free" /\ sock' = [socks EXCEPT ![s] = Fresh] /\ ws' = s
              /\ hasty' = (hasty \/ (ws # NoSocket /\ socks[ws].stage # "free"))
  BY FeedAssumption DEF connectWebSocket, FeedInductive, FeedTypeOK

LEMMA FeedIs ==
  ASSUME FeedInductive
  PROVE  /\ sock \in [Socket -> Rec] /\ Fresh \in Rec /\ Free \in Rec
         /\ \A s \in Socket : /\ sock[s].heard => sock[s].stage # "free"
                              /\ Live(s) => sock[s].heard
         /\ ws \in Feeds \cup {NoSocket} /\ _ws \in Logs \cup {NoSocket}
         /\ Feeds \cap Logs = {} /\ Feeds \subseteq Socket /\ Logs \subseteq Socket
         /\ Socket = Feeds \cup Logs /\ NoSocket \notin Socket
<1>1. \A s \in Socket : Handled(s)
  BY DEF FeedInductive, DashboardInv, LogStreamInv, Socket
<1>2. /\ sock \in [Socket -> Rec] /\ Fresh \in Rec /\ Free \in Rec
      /\ ws \in Feeds \cup {NoSocket} /\ _ws \in Logs \cup {NoSocket}
  BY DEF FeedInductive, FeedTypeOK, Rec, Stages, Fresh, Free
<1> QED
  BY <1>1, <1>2, FeedAssumption DEF Handled, Socket

LEMMA FeedStart == FeedInit => FeedInductive
<1> SUFFICES ASSUME FeedInit
             PROVE  FeedInductive
  OBVIOUS
<1>1. \A s \in Socket : sock[s].stage = "free" /\ sock[s].heard = FALSE
  BY DEF FeedInit, Free
<1>2. FeedTypeOK
  <2>1. Free \in Rec
    BY DEF Free, Rec, Stages
  <2>2. sock \in [Socket -> Rec]
    BY <2>1 DEF FeedInit
  <2>3. /\ page = "other" /\ ws = NoSocket /\ _ws = NoSocket /\ wsReconnectTimer = FALSE
        /\ wsStatus = FALSE /\ loads = 0 /\ hasty = FALSE /\ doubled = FALSE /\ MaxLoads \in Nat
    BY FeedAssumption DEF FeedInit
  <2>4. sock \in [Socket -> [heard : BOOLEAN,
                            stage : {"free", "connecting", "open", "closing", "broken"}]]
    BY <2>2 DEF Rec, Stages
  <2>5. /\ wsReconnectTimer \in BOOLEAN /\ wsStatus \in BOOLEAN
        /\ hasty \in BOOLEAN /\ doubled \in BOOLEAN
    BY <2>3, Zenon
  <2>6. loads \in 0 .. MaxLoads
    BY <2>3
  <2> QED
    BY <2>3, <2>4, <2>5, <2>6 DEF FeedTypeOK
<1>3. DashboardInv
  BY <1>1 DEF FeedInit, DashboardInv, ConnectedIsTrue, DashboardLives, Live, Handled, Socket
<1>4. LogStreamInv
  BY <1>1 DEF FeedInit, LogStreamInv, Live, Handled, Socket
<1> QED
  BY <1>2, <1>3, <1>4 DEF FeedInductive

\* The dashboard's sockets and the log viewer's have nothing to do with each
\* other.
LEMMA DashboardAlone ==
  ASSUME FeedInductive, UNCHANGED <<page, ws, wsReconnectTimer, wsStatus, hasty>>,
         \A s \in Feeds : sock'[s] = sock[s]
  PROVE  DashboardInv'
<1>1. DashboardInv
  BY DEF FeedInductive
<1>2. \A s \in Feeds : Handled(s)'
  BY <1>1 DEF DashboardInv, Handled, Live
<1>3. ConnectedIsTrue' /\ DashboardLives'
  BY <1>1 DEF DashboardInv, ConnectedIsTrue, DashboardLives, Feeding, Leaving, Live
<1>4. /\ ~hasty => \A s \in Feeds : sock'[s].heard =>
            /\ s = ws /\ page = "dashboard"
            /\ sock'[s].stage = "open" => wsStatus
      /\ ~hasty /\ wsReconnectTimer => page = "dashboard"
  BY <1>1 DEF DashboardInv
<1> QED
  BY <1>2, <1>3, <1>4 DEF DashboardInv

LEMMA LogsAlone ==
  ASSUME FeedInductive, UNCHANGED <<_ws, doubled>>, \A s \in Logs : sock'[s] = sock[s]
  PROVE  LogStreamInv'
<1>1. LogStreamInv /\ _ws \in Logs \cup {NoSocket}
  BY DEF FeedInductive, FeedTypeOK
<1>2. \A s \in Logs : Handled(s)'
  BY <1>1 DEF LogStreamInv, Handled, Live
<1> QED
  BY <1>1, <1>2 DEF LogStreamInv

\* What is left to show of a step.
LEMMA FeedKeeps ==
  ASSUME page' \in {"dashboard", "logs", "other"}, sock' \in [Socket -> Rec],
         ws' \in Feeds \cup {NoSocket}, _ws' \in Logs \cup {NoSocket},
         wsReconnectTimer' \in BOOLEAN, wsStatus' \in BOOLEAN, loads' \in 0 .. MaxLoads,
         hasty' \in BOOLEAN, doubled' \in BOOLEAN, DashboardInv', LogStreamInv'
  PROVE  FeedInductive'
<1>1. _ws' # NoSocket => sock'[_ws'].stage # "free"
  BY DEF LogStreamInv, Handled
<1>2. FeedTypeOK'
  BY <1>1 DEF FeedTypeOK, Rec, Stages
<1> QED
  BY <1>2 DEF FeedInductive

\* The dashboard is opened, or its timer has run out.
LEMMA DashboardConnects ==
  ASSUME FeedInductive, NEW socks \in [Socket -> Rec], connectWebSocket(socks),
         \A s \in Feeds : socks[s] = sock[s],
         page' = "dashboard" \/ (hasty /\ page' = page),
         wsReconnectTimer' \in BOOLEAN, wsReconnectTimer' => page' = "dashboard",
         wsStatus' = wsStatus
  PROVE  /\ DashboardInv' /\ sock' \in [Socket -> Rec] /\ ws' \in Feeds /\ hasty' \in BOOLEAN
         /\ \A s \in Logs : sock'[s] = socks[s]
<1>1. DashboardInv /\ hasty \in BOOLEAN /\ wsStatus \in BOOLEAN
  BY DEF FeedInductive, FeedTypeOK
<1>2. CASE /\ sock' = socks /\ UNCHANGED <<ws, hasty>>
           /\ ws \in Feeds /\ socks[ws].stage = "open"
  <2>1. /\ \A s \in Feeds : sock'[s] = sock[s]
        /\ ws \in Socket /\ sock[ws].stage = "open" /\ ws' = ws /\ hasty' = hasty
    BY <1>2, FeedIs
  <2>2. \A s \in Feeds : Handled(s)'
    BY <1>1, <2>1 DEF DashboardInv, Handled, Live
  <2>3. ConnectedIsTrue'
    BY <1>1, <2>1 DEF DashboardInv, ConnectedIsTrue, Feeding, Leaving, Live
  <2>4. DashboardLives'
    BY <1>2, <2>1 DEF DashboardLives, Feeding, Live
  <2>5. ~hasty' => \A s \in Feeds : sock'[s].heard =>
          /\ s = ws' /\ page' = "dashboard"
          /\ sock'[s].stage = "open" => wsStatus'
    BY <1>1, <2>1 DEF DashboardInv
  <2> QED
    BY <1>1, <1>2, <2>2, <2>3, <2>4, <2>5 DEF DashboardInv
<1>3. ASSUME NEW s \in Feeds,
             sock[s].stage = "free", sock' = [socks EXCEPT ![s] = Fresh], ws' = s,
             hasty' = (hasty \/ (ws # NoSocket /\ socks[ws].stage # "free"))
      PROVE  /\ DashboardInv' /\ sock' \in [Socket -> Rec] /\ ws' \in Feeds /\ hasty' \in BOOLEAN
             /\ \A t \in Logs : sock'[t] = socks[t]
  <2>1. /\ sock' \in [Socket -> Rec] /\ sock'[s] = Fresh
        /\ \A t \in Socket : t # s => sock'[t] = socks[t]
    BY <1>3, FeedIs
  <2>2. Fresh.stage = "connecting" /\ Fresh.heard = TRUE
    BY DEF Fresh
  <2>3. \A t \in Feeds : t # s => sock'[t] = sock[t]
    BY <2>1, FeedIs
  <2>4. \A t \in Feeds : Handled(t)'
    BY <1>1, <2>1, <2>2, <2>3 DEF DashboardInv, Handled, Live
  <2>5. ASSUME ~hasty', NEW t \in Feeds, sock'[t].heard
        PROVE  /\ t = s /\ page' = "dashboard"
               /\ sock'[t].stage = "open" => wsStatus
    <3>1. ~hasty /\ (ws = NoSocket \/ socks[ws].stage = "free")
      BY <1>3, <2>5
    <3>2. t # s => FALSE
      BY <1>1, <2>3, <2>5, <3>1, FeedIs DEF DashboardInv, Handled
    <3> QED
      BY <2>1, <2>2, <3>1, <3>2
  <2>6. ConnectedIsTrue'
    BY <1>1, <1>3, <2>1, <2>2, <2>3, FeedIs DEF DashboardInv, ConnectedIsTrue, Feeding, Leaving, Live
  <2>7. DashboardLives'
    BY <2>1, <2>2, FeedIs DEF DashboardLives, Feeding, Live
  <2>8. DashboardInv'
    BY <1>3, <2>4, <2>5, <2>6, <2>7 DEF DashboardInv
  <2> QED
    BY <1>3, <2>1, <2>8, FeedIs
<1> QED
  BY <1>2, <1>3, ConnectIs

LEMMA DestroyIs ==
  ASSUME FeedInductive
  PROVE  /\ destroy \in [Socket -> Rec] /\ \A s \in Feeds : destroy[s] = sock[s]
         /\ \A s \in Socket :
              /\ s # _ws => destroy[s] = sock[s]
              /\ s = _ws => /\ destroy[s].heard = FALSE
                            /\ destroy[s].stage \notin {"connecting", "open"}
<1>1. sock \in [Socket -> Rec]
  BY FeedIs
<1>2. /\ destroy \in [Socket -> Rec]
      /\ \A s \in Socket : s # _ws => destroy[s] = sock[s]
      /\ _ws \in Socket => /\ destroy[_ws].heard = FALSE
                            /\ destroy[_ws].stage \notin {"connecting", "open"}
  BY <1>1, DropIs DEF destroy
<1> QED
  BY <1>2, FeedIs

\* The log viewer's socket is dropped with its page.
LEMMA LogsDestroyed ==
  ASSUME FeedInductive, _ws' = NoSocket, doubled' = doubled, \A s \in Logs : sock'[s] = destroy[s]
  PROVE  LogStreamInv'
<1>1. LogStreamInv /\ _ws \in Logs \cup {NoSocket}
  BY DEF FeedInductive, FeedTypeOK
<1>2. ASSUME NEW s \in Logs
      PROVE  Handled(s)' /\ (~doubled' => sock'[s].heard = FALSE)
  <2>1. s \in Socket /\ sock[s] \in Rec
    BY FeedIs
  <2>2. CASE s = _ws
    <3>1. sock'[s].heard = FALSE /\ sock'[s].stage \notin {"connecting", "open"}
      BY <2>1, <2>2, DestroyIs
    <3> QED
      BY <3>1 DEF Handled, Live
  <2>3. CASE s # _ws
    <3>1. sock'[s] = sock[s]
      BY <2>1, <2>3, DestroyIs
    <3>2. Handled(s)'
      BY <1>1, <3>1 DEF LogStreamInv, Handled, Live
    <3>3. ~doubled => ~sock[s].heard
      BY <1>1, <2>3 DEF LogStreamInv
    <3>4. sock[s].heard \in BOOLEAN
      BY <2>1 DEF Rec
    <3> QED
      BY <3>1, <3>2, <3>3, <3>4
  <2> QED
    BY <2>2, <2>3
<1> QED
  BY <1>2 DEF LogStreamInv

LEMMA NavigateNext ==
  ASSUME FeedInductive, NEW p \in {"dashboard", "logs", "other"}, navigate(p)
  PROVE  FeedInductive'
<1>1. /\ page' = p /\ _ws' = NoSocket /\ doubled' = doubled /\ loads' <= MaxLoads
      /\ loads' = loads + (IF p = "logs" THEN 1 ELSE 0)
  BY DEF navigate
<1>2. /\ loads \in Nat /\ MaxLoads \in Nat /\ wsReconnectTimer \in BOOLEAN /\ wsStatus \in BOOLEAN
      /\ hasty \in BOOLEAN /\ doubled \in BOOLEAN
  BY FeedAssumption DEF FeedInductive, FeedTypeOK
<1>3. loads' \in 0 .. MaxLoads
  BY <1>1, <1>2
<1>4. /\ destroy \in [Socket -> Rec] /\ \A s \in Feeds : destroy[s] = sock[s]
  BY DestroyIs
<1> DEFINE socks == destroy
<1>5. CASE p = "dashboard"
  <2>1. connectWebSocket(socks) /\ UNCHANGED <<wsReconnectTimer, wsStatus>>
    BY <1>5 DEF navigate
  <2>2. /\ DashboardInv' /\ sock' \in [Socket -> Rec] /\ ws' \in Feeds /\ hasty' \in BOOLEAN
        /\ \A s \in Logs : sock'[s] = socks[s]
    <3>1. socks \in [Socket -> Rec] /\ \A s \in Feeds : socks[s] = sock[s]
      BY <1>4
    <3>2. page' = "dashboard" \/ (hasty /\ page' = page)
      BY <1>1, <1>5
    <3>4. wsReconnectTimer' => page' = "dashboard"
      BY <1>1, <1>5
    <3>5. wsReconnectTimer' \in BOOLEAN /\ wsStatus' = wsStatus
      BY <1>2, <2>1, Zenon
    <3>3. connectWebSocket(socks)
      BY <2>1
    <3> HIDE DEF socks
    <3> QED
      BY <3>1, <3>2, <3>3, <3>4, <3>5, DashboardConnects
  <2>3. LogStreamInv'
    BY <1>1, <2>2, LogsDestroyed
  <2> QED
    BY <1>1, <1>2, <1>3, <2>1, <2>2, <2>3, FeedKeeps
<1>6. CASE p # "dashboard"
  <2>1. /\ wsReconnectTimer' = FALSE /\ wsStatus' = FALSE /\ hasty' = hasty
        /\ sock' = Drop(socks, ws) /\ ws' = NoSocket
    BY <1>6 DEF navigate, disconnectWebSocket
  <2> HIDE DEF socks
  <2>2. /\ sock' \in [Socket -> Rec] /\ \A s \in Socket : s # ws => sock'[s] = socks[s]
        /\ ws \in Socket => /\ sock'[ws].heard = FALSE
                            /\ sock'[ws].stage \notin {"connecting", "open"}
    BY <1>4, <2>1, DropIs DEF socks
  <2>3. ASSUME NEW s \in Feeds
        PROVE  Handled(s)' /\ (~hasty => ~sock'[s].heard)
    <3>1. s \in Socket /\ DashboardInv
      BY FeedIs DEF FeedInductive
    <3>2. CASE s = ws
      BY <2>2, <3>1, <3>2 DEF Handled, Live
    <3>3. CASE s # ws
      <4>1. sock'[s] = sock[s]
        BY <1>4, <2>2, <3>1, <3>3 DEF socks
      <4> QED
        BY <3>1, <3>3, <4>1 DEF DashboardInv, Handled, Live
    <3> QED
      BY <3>2, <3>3
  <2>4. DashboardInv'
    BY <1>1, <1>6, <2>1, <2>3 DEF DashboardInv, ConnectedIsTrue, DashboardLives
  <2>5. \A s \in Logs : sock'[s] = destroy[s]
    BY <2>2, FeedIs DEF socks
  <2>6. LogStreamInv'
    BY <1>1, <2>5, LogsDestroyed
  <2> QED
    BY <1>1, <1>2, <1>3, <2>1, <2>2, <2>4, <2>6, FeedKeeps
<1> QED
  BY <1>5, <1>6

LEMMA ReconnectNext == FeedInductive /\ Reconnect => FeedInductive'
<1> SUFFICES ASSUME FeedInductive, Reconnect
             PROVE  FeedInductive'
  OBVIOUS
<1>1. /\ wsReconnectTimer /\ wsReconnectTimer' = FALSE /\ connectWebSocket(sock)
      /\ UNCHANGED <<page, wsStatus, _ws, loads, doubled>>
  BY DEF Reconnect
<1>2. page = "dashboard" \/ hasty
  BY <1>1 DEF FeedInductive, DashboardInv
<1>3. /\ DashboardInv' /\ sock' \in [Socket -> Rec] /\ ws' \in Feeds /\ hasty' \in BOOLEAN
      /\ \A s \in Logs : sock'[s] = sock[s]
  <2>1. page' = "dashboard" \/ (hasty /\ page' = page)
    BY <1>1, <1>2
  <2> QED
    BY <1>1, <2>1, FeedIs, DashboardConnects
<1>4. LogStreamInv'
  BY <1>1, <1>3, LogsAlone
<1> QED
  BY <1>1, <1>3, <1>4, FeedKeeps DEF FeedInductive, FeedTypeOK

LEMMA LoadNext == FeedInductive /\ loadRecent => FeedInductive'
<1> SUFFICES ASSUME FeedInductive, loadRecent
             PROVE  FeedInductive'
  OBVIOUS
<1>1. /\ loads > 0 /\ loads' = loads - 1
      /\ UNCHANGED <<page, ws, wsReconnectTimer, wsStatus, hasty>>
  BY DEF loadRecent
<1>2. PICK s \in Logs : sock[s].stage = "free" /\ connectWs(s) /\ _ws' = s
  BY DEF loadRecent
<1> DEFINE socks == close(sock, _ws)
<1>3. /\ sock' = [socks EXCEPT ![s] = Fresh] /\ doubled' = (doubled \/ _ws # NoSocket)
  BY <1>2 DEF connectWs
<1>4. /\ socks \in [Socket -> Rec]
      /\ \A t \in Socket : /\ t # _ws => socks[t] = sock[t]
                           /\ socks[t].heard = sock[t].heard
                           /\ socks[t].stage = "free" <=> sock[t].stage = "free"
      /\ _ws \in Socket => socks[_ws].stage \notin {"connecting", "open"}
  BY FeedIs, CloseIs
<1> HIDE DEF socks
<1>5. /\ sock' \in [Socket -> Rec] /\ sock'[s] = Fresh
      /\ \A t \in Socket : t # s => sock'[t] = socks[t]
  BY <1>3, <1>4, FeedIs
<1>6. \A t \in Feeds : sock'[t] = sock[t]
  BY <1>4, <1>5, FeedIs
<1>7. DashboardInv'
  BY <1>1, <1>6, DashboardAlone
<1>8. LogStreamInv /\ _ws \in Logs \cup {NoSocket}
  BY DEF FeedInductive, FeedTypeOK
<1>9. Fresh.stage = "connecting" /\ Fresh.heard = TRUE
  BY DEF Fresh
<1>10. LogStreamInv'
  <2>1. ASSUME NEW t \in Logs
        PROVE  Handled(t)'
    <3>1. CASE t = s
      BY <1>5, <1>9, <3>1 DEF Handled, Live
    <3>2. CASE t # s
      <4>1. t \in Socket /\ sock'[t] = socks[t]
        BY <1>5, <3>2, FeedIs
      <4>2. CASE t = _ws
        BY <1>4, <1>8, <4>1, <4>2 DEF LogStreamInv, Handled, Live
      <4>3. CASE t # _ws
        BY <1>4, <1>8, <4>1, <4>3 DEF LogStreamInv, Handled, Live
      <4> QED
        BY <4>2, <4>3
    <3> QED
      BY <3>1, <3>2
  <2>2. sock'[_ws'].heard
    BY <1>2, <1>5, <1>9
  <2>3. ASSUME ~doubled', NEW t \in Logs, sock'[t].heard
        PROVE  t = s
    <3>1. ~doubled /\ _ws = NoSocket
      BY <1>3, <2>3
    <3>2. t # s => FALSE
      BY <1>4, <1>5, <1>8, <2>3, <3>1, FeedIs DEF LogStreamInv
    <3> QED
      BY <3>2
  <2> QED
    BY <1>2, <2>1, <2>2, <2>3 DEF LogStreamInv
<1>11. /\ page' \in {"dashboard", "logs", "other"} /\ ws' \in Feeds \cup {NoSocket}
       /\ wsReconnectTimer' \in BOOLEAN /\ wsStatus' \in BOOLEAN /\ loads' \in 0 .. MaxLoads
       /\ hasty' \in BOOLEAN /\ doubled' \in BOOLEAN
  BY <1>1, <1>3, FeedAssumption DEF FeedInductive, FeedTypeOK
<1> QED
  BY <1>2, <1>5, <1>7, <1>10, <1>11, FeedKeeps

\* A connection that is there, and one that was closed by the other side.
LEMMA OpenNext ==
  ASSUME FeedInductive, NEW s \in Socket, onopen(s)
  PROVE  FeedInductive'
<1>1. /\ sock[s].stage = "connecting" /\ sock' = [sock EXCEPT ![s].stage = "open"]
      /\ IF s \in Feeds THEN wsStatus' = TRUE /\ wsReconnectTimer' = FALSE
         ELSE UNCHANGED <<wsStatus, wsReconnectTimer>>
      /\ UNCHANGED <<page, ws, _ws, loads, hasty, doubled>>
  BY DEF onopen
<1>2. /\ sock' \in [Socket -> Rec] /\ sock'[s].stage = "open" /\ sock'[s].heard = sock[s].heard
      /\ \A t \in Socket : t # s => sock'[t] = sock[t]
  BY <1>1, FeedIs DEF Rec, Stages
<1>3. sock[s].heard
  BY <1>1, FeedIs DEF Live
<1>4. DashboardInv /\ LogStreamInv
  BY DEF FeedInductive
<1>5. DashboardInv'
  <2>1. CASE s \in Feeds
    <3>1. \A t \in Feeds : Handled(t)'
      BY <1>2, <1>3, <1>4, FeedIs DEF DashboardInv, Handled, Live
    <3>2. ConnectedIsTrue' /\ DashboardLives'
      BY <1>2, <2>1 DEF ConnectedIsTrue, DashboardLives, Feeding, Live
    <3>3. ~hasty => \A t \in Feeds : sock'[t].heard => t = ws /\ page = "dashboard"
      BY <1>2, <1>4, FeedIs DEF DashboardInv
    <3> QED
      BY <1>1, <2>1, <3>1, <3>2, <3>3 DEF DashboardInv
  <2>2. CASE s \notin Feeds
    BY <1>1, <1>2, <2>2, FeedIs, DashboardAlone
  <2> QED
    BY <2>1, <2>2
<1>6. LogStreamInv'
  <2>1. \A t \in Logs : Handled(t)'
    BY <1>2, <1>3, <1>4, FeedIs DEF LogStreamInv, Handled, Live
  <2>2. _ws # NoSocket => sock'[_ws].heard
    BY <1>2, <1>3, <1>4, FeedIs DEF LogStreamInv
  <2>3. ~doubled => \A t \in Logs : sock'[t].heard => t = _ws
    BY <1>2, <1>4, FeedIs DEF LogStreamInv
  <2> QED
    BY <1>1, <2>1, <2>2, <2>3 DEF LogStreamInv
<1> QED
  BY <1>1, <1>2, <1>5, <1>6, FeedKeeps DEF FeedInductive, FeedTypeOK

LEMMA ServerClosesNext ==
  ASSUME FeedInductive, NEW s \in Socket, ServerCloses(s)
  PROVE  FeedInductive'
<1>1. /\ sock[s].stage = "open" /\ sock' = [sock EXCEPT ![s].stage = "closing"]
      /\ UNCHANGED <<page, ws, wsReconnectTimer, wsStatus, _ws, loads, hasty, doubled>>
  BY DEF ServerCloses
<1>2. /\ sock' \in [Socket -> Rec] /\ sock'[s].stage = "closing" /\ sock'[s].heard = sock[s].heard
      /\ \A t \in Socket : t # s => sock'[t] = sock[t]
  BY <1>1, FeedIs DEF Rec, Stages
<1>3. sock[s].heard
  BY <1>1, FeedIs DEF Live
<1>4. DashboardInv /\ LogStreamInv
  BY DEF FeedInductive
<1>5. DashboardInv'
  <2>1. CASE s \in Feeds
    <3>1. \A t \in Feeds : Handled(t)'
      BY <1>2, <1>3, <1>4, FeedIs DEF DashboardInv, Handled, Live
    <3>2. ConnectedIsTrue' /\ DashboardLives'
      BY <1>1, <1>2, <1>3, <1>4, <2>1 DEF DashboardInv, ConnectedIsTrue, DashboardLives, Leaving
    <3>3. ~hasty => \A t \in Feeds : sock'[t].heard =>
            /\ t = ws /\ page = "dashboard"
            /\ sock'[t].stage = "open" => wsStatus
      BY <1>2, <1>4, FeedIs DEF DashboardInv
    <3> QED
      BY <1>1, <1>4, <3>1, <3>2, <3>3 DEF DashboardInv
  <2>2. CASE s \notin Feeds
    BY <1>1, <1>2, <2>2, FeedIs, DashboardAlone
  <2> QED
    BY <2>1, <2>2
<1>6. LogStreamInv'
  <2>1. \A t \in Logs : Handled(t)'
    BY <1>2, <1>3, <1>4, FeedIs DEF LogStreamInv, Handled, Live
  <2>2. _ws # NoSocket => sock'[_ws].heard
    BY <1>2, <1>3, <1>4, FeedIs DEF LogStreamInv
  <2>3. ~doubled => \A t \in Logs : sock'[t].heard => t = _ws
    BY <1>2, <1>4, FeedIs DEF LogStreamInv
  <2> QED
    BY <1>1, <2>1, <2>2, <2>3 DEF LogStreamInv
<1> QED
  BY <1>1, <1>2, <1>5, <1>6, FeedKeeps DEF FeedInductive, FeedTypeOK

\* The end of a socket that is closing, or fails: its handlers run, and what
\* the error handler closes is closing from then on.
LEMMA GoneNext ==
  ASSUME FeedInductive, NEW s \in Socket, sock[s].stage # "free",
         NEW socks \in [Socket -> Rec], Gone(s, socks),
         \A t \in Socket : t # s =>
           /\ socks[t].heard = sock[t].heard
           /\ socks[t].stage = "free" <=> sock[t].stage = "free"
           /\ socks[t].stage \in {"connecting", "open"} => socks[t] = sock[t]
           /\ sock[t].stage \in {"closing", "broken"} => socks[t].stage \in {"closing", "broken"}
           /\ sock[t].stage \in {"connecting", "open"} => socks[t].stage # "free"
           /\ sock[t].stage = "open" => socks[t].stage # "connecting"
  PROVE  FeedInductive'
<1>1. /\ sock' = [socks EXCEPT ![s] = Free] /\ ws' = IF ws = s THEN NoSocket ELSE ws
      /\ onclose(s) /\ logsOnclose(s)
      /\ UNCHANGED <<page, loads, hasty, doubled>>
  BY DEF Gone
<1>2. /\ sock' \in [Socket -> Rec] /\ sock'[s].stage = "free" /\ sock'[s].heard = FALSE
      /\ \A t \in Socket : t # s => sock'[t] = socks[t]
  BY <1>1, FeedIs DEF Free
<1>3. DashboardInv /\ LogStreamInv
  BY DEF FeedInductive
<1>4. \A t \in Socket : Handled(t)'
  <2> SUFFICES ASSUME NEW t \in Socket
               PROVE  Handled(t)'
    OBVIOUS
  <2>1. CASE t = s
    BY <1>2, <2>1 DEF Handled, Live
  <2>2. CASE t # s
    BY <1>2, <2>2, FeedIs DEF Handled, Live
  <2> QED
    BY <2>1, <2>2
<1>5. ASSUME NEW t \in Feeds, t # s, Leaving(t) \/ (Feeding(t) /\ sock[t].stage = "open")
      PROVE  Leaving(t)' \/ (Feeding(t)' /\ sock'[t].stage = "open")
  <2>1. /\ sock'[t] = socks[t] /\ socks[t].heard = sock[t].heard /\ sock'[t] \in Rec
        /\ Live(t) => sock[t].heard
    BY <1>2, <1>5, FeedIs
  <2> QED
    BY <1>5, <2>1, FeedIs DEF Leaving, Feeding, Live, Rec, Stages
<1>6. ASSUME NEW t \in Feeds, t # s, Leaving(t) \/ Feeding(t)
      PROVE  Leaving(t)' \/ Feeding(t)'
  <2>1. /\ sock'[t] = socks[t] /\ socks[t].heard = sock[t].heard /\ sock'[t] \in Rec
        /\ Live(t) => sock[t].heard
    BY <1>2, <1>6, FeedIs
  <2> QED
    BY <1>6, <2>1, FeedIs DEF Leaving, Feeding, Live, Rec, Stages
<1>7. (sock[s].heard /\ s \in Feeds) \/ UNCHANGED <<wsReconnectTimer, wsStatus>>
  BY <1>1 DEF onclose
<1>8. DashboardInv'
  <2>1. ~hasty => \A t \in Feeds : sock'[t].heard =>
          /\ t = ws' /\ page = "dashboard"
          /\ sock'[t].stage = "open" => wsStatus'
    <3> SUFFICES ASSUME ~hasty, NEW t \in Feeds, sock'[t].heard
                 PROVE  /\ t = ws' /\ page = "dashboard"
                        /\ sock'[t].stage = "open" => wsStatus'
      OBVIOUS
    <3>1. t # s /\ sock'[t] = socks[t] /\ socks[t].heard = sock[t].heard
      BY <1>2, FeedIs
    <3>2. /\ t = ws /\ page = "dashboard"
          /\ sock[t].stage = "open" => wsStatus
      BY <1>3, <3>1 DEF DashboardInv
    <3>3. ~(sock[s].heard /\ s \in Feeds)
      BY <1>3, <3>1, <3>2 DEF DashboardInv
    <3>4. wsStatus' = wsStatus
      BY <1>7, <3>3
    <3>5. sock'[t].stage = "open" => sock[t].stage = "open"
      BY <3>1, FeedIs
    <3> QED
      BY <1>1, <3>1, <3>2, <3>4, <3>5
  <2>2. CASE sock[s].heard /\ s \in Feeds
    <3>1. wsStatus' = FALSE /\ wsReconnectTimer' = TRUE
      BY <1>1, <2>2 DEF onclose
    <3>2. ConnectedIsTrue' /\ DashboardLives'
      BY <3>1 DEF ConnectedIsTrue, DashboardLives
    <3>3. ~hasty => page = "dashboard"
      BY <1>3, <2>2 DEF DashboardInv
    <3> QED
      BY <1>1, <1>4, <2>1, <3>1, <3>2, <3>3, FeedIs DEF DashboardInv
  <2>3. CASE ~(sock[s].heard /\ s \in Feeds)
    <3>1. UNCHANGED <<wsReconnectTimer, wsStatus>>
      BY <1>7, <2>3
    <3>2. ~Leaving(s) /\ ~Feeding(s)
      BY <2>3, FeedIs DEF Leaving, Feeding
    <3>3. ConnectedIsTrue'
      BY <1>3, <1>5, <3>1, <3>2 DEF DashboardInv, ConnectedIsTrue, Leaving, Feeding
    <3>4. DashboardLives'
      BY <1>1, <1>3, <1>6, <3>1, <3>2 DEF DashboardInv, DashboardLives, Leaving, Feeding
    <3> QED
      BY <1>1, <1>3, <1>4, <2>1, <3>1, <3>3, <3>4, FeedIs DEF DashboardInv
  <2> QED
    BY <2>2, <2>3
<1>9. LogStreamInv'
  <2>1. _ws' = IF sock[s].heard /\ s \in Logs THEN NoSocket ELSE _ws
    BY <1>1 DEF logsOnclose
  <2>2. _ws' # NoSocket => sock'[_ws'].heard
    BY <1>2, <1>3, <2>1, FeedIs DEF LogStreamInv
  <2>3. ASSUME ~doubled, NEW t \in Logs, sock'[t].heard
        PROVE  t = _ws'
    <3>1. t # s /\ socks[t].heard = sock[t].heard /\ sock'[t] = socks[t]
      BY <1>2, <2>3, FeedIs
    <3>2. t = _ws /\ ~(sock[s].heard /\ s \in Logs)
      BY <1>3, <2>3, <3>1 DEF LogStreamInv
    <3> QED
      BY <2>1, <3>2
  <2> QED
    BY <1>1, <1>4, <2>2, <2>3, FeedIs DEF LogStreamInv
<1>10. /\ page' \in {"dashboard", "logs", "other"} /\ ws' \in Feeds \cup {NoSocket}
       /\ _ws' \in Logs \cup {NoSocket} /\ wsReconnectTimer' \in BOOLEAN /\ wsStatus' \in BOOLEAN
       /\ loads' \in 0 .. MaxLoads /\ hasty' \in BOOLEAN /\ doubled' \in BOOLEAN
  BY <1>1 DEF onclose, logsOnclose, FeedInductive, FeedTypeOK
<1> QED
  BY <1>2, <1>8, <1>9, <1>10, FeedKeeps

LEMMA FinishNext ==
  ASSUME FeedInductive, NEW s \in Socket, Finish(s)
  PROVE  FeedInductive'
<1>1. sock[s].stage = "closing" /\ Gone(s, sock) /\ sock \in [Socket -> Rec]
  BY FeedIs DEF Finish
<1> QED
  BY <1>1, GoneNext

LEMMA BreakNext ==
  ASSUME FeedInductive, NEW s \in Socket, Break(s)
  PROVE  FeedInductive'
<1> DEFINE socks == onerror(s)
<1>1. sock[s].stage \in {"connecting", "open", "broken"} /\ Gone(s, socks) /\ sock \in [Socket -> Rec]
  BY FeedIs DEF Break
<1>2. CASE s \in Feeds /\ ws # s
  <2>1. socks = close(sock, ws)
    BY <1>2 DEF onerror
  <2> HIDE DEF socks
  <2>2. /\ socks \in [Socket -> Rec]
        /\ \A t \in Socket :
             /\ socks[t].heard = sock[t].heard
             /\ socks[t].stage = "free" <=> sock[t].stage = "free"
             /\ socks[t].stage \in {"connecting", "open"} => socks[t] = sock[t]
             /\ sock[t].stage \in {"closing", "broken"} => socks[t].stage \in {"closing", "broken"}
             /\ sock[t].stage = "open" => socks[t].stage # "connecting"
    BY <1>1, <2>1, CloseIs
  <2> QED
    BY <1>1, <2>2, GoneNext
<1>3. CASE ~(s \in Feeds /\ ws # s)
  <2>1. socks = sock
    BY <1>3 DEF onerror
  <2> HIDE DEF socks
  <2> QED
    BY <1>1, <2>1, GoneNext
<1> QED
  BY <1>2, <1>3

LEMMA FeedStep == FeedInductive /\ [FeedNext]_feedVars => FeedInductive'
<1> SUFFICES ASSUME FeedInductive, [FeedNext]_feedVars
             PROVE  FeedInductive'
  OBVIOUS
<1>1. CASE UNCHANGED feedVars
  <2>1. DashboardInv' /\ LogStreamInv'
    BY <1>1, DashboardAlone, LogsAlone DEF feedVars
  <2> QED
    BY <1>1, <2>1 DEF FeedInductive, FeedTypeOK, feedVars
<1> QED
  BY <1>1, NavigateNext, OpenNext, FinishNext, ServerClosesNext, BreakNext, ReconnectNext, LoadNext
  DEF FeedNext

\* What is shown of the dashboard's socket is true, the dashboard goes on, and
\* nothing goes on elsewhere, through every close, error and change of page
\* (connectWebSocket to updateWsStatus, LogStream, navigate): for any number of
\* sockets that the browser may have at once.
THEOREM SocketsTrue == FeedSpec => [](FeedTypeOK /\ SocketsExplained)
<1>1. FeedInductive => FeedTypeOK /\ SocketsExplained
  <2> SUFFICES ASSUME FeedInductive
               PROVE  FeedTypeOK /\ SocketsExplained
    OBVIOUS
  <2>1. DashboardInv /\ LogStreamInv
    BY DEF FeedInductive
  <2>2. DisconnectedIsTrue
    <3> SUFFICES ASSUME page = "dashboard", ~wsStatus, ~wsReconnectTimer, ~hasty
                 PROVE  \E s \in Socket : (Feeding(s) /\ sock[s].stage = "connecting") \/ Leaving(s)
      BY DEF DisconnectedIsTrue
    <3>1. PICK s \in Socket : Feeding(s) \/ Leaving(s)
      BY <2>1 DEF DashboardInv, DashboardLives
    <3>2. CASE Feeding(s)
      <4>1. sock[s].heard /\ s \in Feeds
        BY <3>2, FeedIs DEF Feeding
      <4>2. sock[s].stage # "open"
        BY <2>1, <4>1 DEF DashboardInv
      <4> QED
        BY <3>2, <4>2 DEF Feeding, Live
    <3> QED
      BY <3>1, <3>2
  <2>3. QuietElsewhere
    <3> SUFFICES ASSUME page # "dashboard", ~hasty
                 PROVE  ~wsReconnectTimer /\ \A s \in Socket : ~Feeding(s)
      BY DEF QuietElsewhere
    <3>1. ~wsReconnectTimer /\ \A s \in Feeds : ~sock[s].heard
      BY <2>1 DEF DashboardInv
    <3> QED
      BY <3>1, FeedIs DEF Feeding
  <2>4. OneLogStream
    BY <2>1, FeedIs DEF OneLogStream, LogStreamInv
  <2> QED
    BY <2>1, <2>2, <2>3, <2>4 DEF SocketsExplained, DashboardInv, FeedInductive
<1> QED
  BY <1>1, FeedStart, FeedStep, PTL DEF FeedSpec

-----------------------------------------------------------------------------
(* The alerts *)

\* The last event of an alert is still its last when older ones are dropped.
LEMMA TrimmedIs ==
  ASSUME NEW h \in Seq(Event)
  PROVE  /\ Trimmed(h) \in Seq(Event) /\ Len(Trimmed(h)) <= MaxHistory
         /\ \A k, i : LastIn(Trimmed(h), k, i) => \E j : LastIn(h, k, j) /\ h[j] = Trimmed(h)[i]
<1> DEFINE t == Trimmed(h)
<1>1. MaxHistory \in Nat /\ Len(h) \in Nat
  BY AlerterAssumption
<1>2. CASE Len(h) <= MaxHistory
  BY <1>1, <1>2 DEF Trimmed
<1>3. CASE Len(h) > MaxHistory
  <2> DEFINE d == Len(h) - MaxHistory
  <2>1. t = SubSeq(h, d + 1, Len(h)) /\ d \in Nat
    BY <1>1, <1>3 DEF Trimmed
  <2>2. t \in Seq(Event) /\ Len(t) = MaxHistory /\ \A i \in 1 .. MaxHistory : t[i] = h[d + i]
    BY <1>1, <1>3, <2>1
  <2> HIDE DEF t
  <2>3. ASSUME NEW k, NEW i, LastIn(t, k, i)
        PROVE  \E j : LastIn(h, k, j) /\ h[j] = t[i]
    <3>1. i \in 1 .. MaxHistory /\ t[i].key = k /\ \A j \in 1 .. MaxHistory : j > i => t[j].key # k
      BY <2>2, <2>3 DEF LastIn
    <3>2. d + i \in 1 .. Len(h) /\ h[d + i] = t[i]
      BY <1>1, <1>3, <2>2, <3>1
    <3>3. ASSUME NEW j \in 1 .. Len(h), j > d + i
          PROVE  h[j].key # k
      <4>1. j - d \in 1 .. MaxHistory /\ j - d > i /\ d + (j - d) = j
        BY <1>1, <1>3, <3>1, <3>3
      <4> QED
        BY <2>2, <3>1, <4>1
    <3>4. LastIn(h, k, d + i)
      BY <3>1, <3>2, <3>3 DEF LastIn
    <3> QED
      BY <3>2, <3>4
  <2> QED
    BY <1>1, <2>2, <2>3 DEF t
<1> QED
  BY <1>1, <1>2, <1>3

\* What was added tells of its alert, and the rest tells of the others.
LEMMA AddedIs ==
  ASSUME NEW h \in Seq(Event), NEW g \in Seq(Event), NEW k, NEW i, LastIn(h \o g, k, i)
  PROVE  \/ \E j \in 1 .. Len(g) : g[j].key = k /\ (h \o g)[i] = g[j]
         \/ /\ LastIn(h, k, i) /\ (h \o g)[i] = h[i]
            /\ \A j \in 1 .. Len(g) : g[j].key # k
<1> DEFINE c == h \o g
<1>1. /\ Len(h) \in Nat /\ Len(g) \in Nat /\ DOMAIN c = 1 .. Len(h) + Len(g)
      /\ \A j \in 1 .. Len(h) : c[j] = h[j]
      /\ \A j \in 1 .. Len(g) : c[Len(h) + j] = g[j]
  OBVIOUS
<1> HIDE DEF c
<1>2. i \in 1 .. Len(h) + Len(g) /\ c[i].key = k
      /\ \A j \in 1 .. Len(h) + Len(g) : j > i => c[j].key # k
  BY <1>1 DEF LastIn, c
<1>3. CASE i > Len(h)
  <2>1. i - Len(h) \in 1 .. Len(g) /\ Len(h) + (i - Len(h)) = i
    BY <1>1, <1>2, <1>3
  <2>2. c[i] = g[i - Len(h)]
    BY <1>1, <2>1
  <2> QED
    BY <1>2, <2>1, <2>2 DEF c
<1>4. CASE i <= Len(h)
  <2>1. i \in 1 .. Len(h) /\ c[i] = h[i]
    BY <1>1, <1>2, <1>4
  <2>2. \A j \in 1 .. Len(g) : g[j].key # k
    <3> SUFFICES ASSUME NEW j \in 1 .. Len(g)
                 PROVE  g[j].key # k
      OBVIOUS
    <3>1. Len(h) + j \in 1 .. Len(h) + Len(g) /\ Len(h) + j > i
      BY <1>1, <2>1
    <3> QED
      BY <1>1, <1>2, <3>1
  <2>3. \A j \in 1 .. Len(h) : j > i => h[j].key # k
    BY <1>1, <1>2
  <2>4. LastIn(h, k, i)
    BY <1>2, <2>1, <2>3 DEF LastIn
  <2> QED
    BY <2>1, <2>2, <2>4 DEF c
<1> QED
  BY <1>1, <1>2, <1>3, <1>4

LEMMA AlerterStart == AlerterInit => AlerterInductive
<1> SUFFICES ASSUME AlerterInit
             PROVE  AlerterInductive
  OBVIOUS
<1>1. DOMAIN active = {} /\ DOMAIN due = {} /\ DOMAIN history = {} /\ Len(history) = 0
  BY DEF AlerterInit
<1>2. AlerterTypeOK
  <2>1. checking \in BOOLEAN
    BY DEF AlerterInit
  <2>2. IsFiniteSet(DOMAIN active)
    BY <1>1, FS_EmptySet
  <2>3. /\ history \in Seq(Event) /\ Len(history) <= MaxHistory
        /\ seen = {} /\ cooldown = 0 /\ quiet = {}
    BY AlerterAssumption DEF AlerterInit
  <2> QED
    BY <1>1, <2>1, <2>2, <2>3 DEF AlerterTypeOK
<1>3. HistoryIsState /\ EndIsOver /\ FiredSoFar
  BY <1>1 DEF AlerterInit, HistoryIsState, EndIsOver, FiredSoFar
<1> QED
  BY <1>2, <1>3 DEF AlerterInductive

LEMMA TickNext == AlerterInductive /\ Tick => AlerterInductive'
<1> SUFFICES ASSUME AlerterInductive, Tick
             PROVE  AlerterInductive'
  OBVIOUS
<1>1. ~checking /\ active' = Aged /\ UNCHANGED <<history, quiet>>
  BY DEF Tick
<1>2. AlerterTypeOK /\ MaxAge \in Nat
  BY AlerterAssumption DEF AlerterInductive
<1>3. DOMAIN active' = DOMAIN active
  BY <1>1 DEF Aged
<1>4. ASSUME NEW k \in DOMAIN active
      PROVE  /\ active'[k] \in State /\ active'[k].status = active[k].status
             /\ active'[k].level = active[k].level
             /\ active'[k].resolvedAt = active[k].resolvedAt
  <2>1. active[k] \in State
    BY <1>2 DEF AlerterTypeOK
  <2>2. active'[k] = IF active[k].lastFired < MaxAge
                     THEN [active[k] EXCEPT !.lastFired = @ + 1] ELSE active[k]
    BY <1>1 DEF Aged
  <2> QED
    BY <1>2, <2>1, <2>2 DEF State
<1>5. /\ DOMAIN due' \subseteq seen' /\ seen' \subseteq Alert
      /\ \A k \in DOMAIN due' : due'[k] \in Levels
      /\ cooldown' \in Cooldowns \cup {0} /\ checking' \in BOOLEAN
      /\ checking' => DOMAIN due' = seen'
  <2>1. CASE checking' = FALSE /\ UNCHANGED <<due, seen, cooldown>>
    BY <1>2, <2>1 DEF AlerterTypeOK
  <2>2. CASE /\ checking' = TRUE /\ cooldown' \in Cooldowns
             /\ \E ks \in SUBSET Alert : seen' = ks /\ due' \in [ks -> Levels]
    BY <2>2
  <2> QED
    BY <2>1, <2>2 DEF Tick
<1>6. AlerterTypeOK'
  BY <1>1, <1>2, <1>3, <1>4, <1>5 DEF AlerterTypeOK
<1>7. HistoryIsState' /\ EndIsOver'
  BY <1>1, <1>3, <1>4 DEF AlerterInductive, HistoryIsState, EndIsOver
<1>8. FiredSoFar'
  BY <1>5 DEF FiredSoFar
<1> QED
  BY <1>6, <1>7, <1>8 DEF AlerterInductive

\* What is left to show of an alert that is fired: its new state s, and what
\* is said of it.
LEMMA FireKeeps ==
  ASSUME AlerterInductive, NEW k \in DOMAIN due, NEW s \in State, active' = With(k, s),
         due' = [l \in DOMAIN due \ {k} |-> due[l]], UNCHANGED <<seen, cooldown, checking>>,
         history' \in Seq(Event), Len(history') <= MaxHistory,
         quiet' \in SUBSET Alert, \A l \in quiet : l # k => l \in quiet',
         s.status = "open", s.lastFired = 0 \/ s.lastFired < cooldown,
         s.resolvedAt => k \in quiet',
         \A l, i : LastIn(history', l, i) =>
           IF l = k THEN k \in quiet' \/ history'[i].level = s.level
           ELSE \E j : LastIn(history, l, j) /\ history[j] = history'[i]
  PROVE  AlerterInductive'
<1>1. AlerterTypeOK /\ k \in Alert
  BY DEF AlerterInductive, AlerterTypeOK
<1>2. /\ DOMAIN active' = DOMAIN active \cup {k} /\ active'[k] = s
      /\ \A l \in DOMAIN active : l # k => active'[l] = active[l]
  BY DEF With
<1>3. IsFiniteSet(DOMAIN active')
  BY <1>1, <1>2, FS_AddElement DEF AlerterTypeOK
<1>4. AlerterTypeOK'
  <2>1. \A l \in DOMAIN active' : active'[l] \in State
    BY <1>1, <1>2 DEF AlerterTypeOK
  <2>2. /\ DOMAIN due' \subseteq seen' /\ seen' \subseteq Alert
        /\ \A l \in DOMAIN due' : due'[l] \in Levels
    BY <1>1 DEF AlerterTypeOK
  <2> QED
    BY <1>1, <1>2, <1>3, <2>1, <2>2 DEF AlerterTypeOK
<1>5. HistoryIsState'
  <2> SUFFICES ASSUME NEW l \in DOMAIN active', NEW i \in DOMAIN history', LastIn(history', l, i)
               PROVE  IF active'[l].status = "resolved" THEN history'[i].level = "resolved"
                      ELSE l \in quiet' \/ history'[i].level = active'[l].level
    BY DEF HistoryIsState, LastIn
  <2>1. CASE l = k
    BY <1>2, <2>1
  <2>2. CASE l # k
    <3>1. PICK j : LastIn(history, l, j) /\ history[j] = history'[i]
      BY <2>2
    <3>2. l \in DOMAIN active /\ active'[l] = active[l] /\ j \in DOMAIN history
      BY <1>2, <2>2, <3>1 DEF LastIn
    <3>3. IF active[l].status = "resolved" THEN history[j].level = "resolved"
          ELSE l \in quiet \/ history[j].level = active[l].level
      BY <3>1, <3>2 DEF AlerterInductive, HistoryIsState
    <3> QED
      BY <2>2, <3>1, <3>2, <3>3
  <2> QED
    BY <2>1, <2>2
<1>6. EndIsOver'
  <2> SUFFICES ASSUME NEW l \in DOMAIN active'
               PROVE  IF active'[l].status = "resolved" THEN active'[l].resolvedAt
                      ELSE active'[l].resolvedAt => l \in quiet'
    BY DEF EndIsOver
  <2>1. CASE l = k
    BY <1>2, <2>1
  <2>2. CASE l # k
    BY <1>2, <2>2 DEF AlerterInductive, EndIsOver
  <2> QED
    BY <2>1, <2>2
<1>7. FiredSoFar'
  <2> SUFFICES ASSUME checking, NEW l \in seen \ DOMAIN due'
               PROVE  /\ l \in DOMAIN active' /\ active'[l].status = "open"
                      /\ active'[l].lastFired = 0 \/ active'[l].lastFired < cooldown
    BY DEF FiredSoFar
  <2>1. CASE l = k
    BY <1>2, <2>1
  <2>2. CASE l # k
    <3>1. l \in seen \ DOMAIN due
      BY <2>2
    <3>2. /\ l \in DOMAIN active /\ active[l].status = "open"
          /\ active[l].lastFired = 0 \/ active[l].lastFired < cooldown
      BY <3>1 DEF AlerterInductive, FiredSoFar
    <3> QED
      BY <1>2, <2>2, <3>2
  <2> QED
    BY <2>1, <2>2
<1> QED
  BY <1>4, <1>5, <1>6, <1>7 DEF AlerterInductive

LEMMA FireNext ==
  ASSUME AlerterInductive, NEW k \in Alert, fire(k)
  PROVE  AlerterInductive'
<1>1. /\ k \in DOMAIN due /\ due' = [l \in DOMAIN due \ {k} |-> due[l]]
      /\ UNCHANGED <<seen, cooldown, checking>>
  BY DEF fire
<1>2. /\ AlerterTypeOK /\ due[k] \in Levels /\ history \in Seq(Event)
      /\ Len(history) <= MaxHistory /\ quiet \in SUBSET Alert
  BY <1>1 DEF AlerterInductive, AlerterTypeOK
<1>3. CASE Announces(k)
  <2> DEFINE s == [status |-> "open", level |-> due[k], lastFired |-> 0, resolvedAt |-> FALSE]
             e == [key |-> k, level |-> due[k]]
  <2>1. active' = With(k, s) /\ history' = Trimmed(Append(history, e)) /\ quiet' = quiet \ {k}
    BY <1>3 DEF fire
  <2>2. s \in State /\ s.status = "open" /\ s.lastFired = 0 /\ s.level = due[k]
    BY <1>2, AlerterAssumption DEF State
  <2>3. ~s.resolvedAt
    OBVIOUS
  <2>4. e \in Event /\ e.key = k /\ e.level = due[k]
    BY <1>2 DEF Event
  <2> HIDE DEF s, e
  <2> DEFINE g == <<e>>
             c == history \o g
  <2>5. /\ g \in Seq(Event) /\ Len(g) = 1 /\ g[1] = e
        /\ c \in Seq(Event) /\ history' = Trimmed(c)
    <3>1. g \in Seq(Event) /\ Len(g) = 1 /\ g[1] = e
      BY <2>4
    <3>2. c = Append(history, e) /\ c \in Seq(Event)
      BY <1>2, <2>4
    <3>3. history' = Trimmed(c)
      BY <2>1, <3>2
    <3> QED
      BY <3>1, <3>2, <3>3
  <2>8. \A l, i : LastIn(c, l, i) =>
          \/ \E j \in 1 .. Len(g) : g[j].key = l /\ c[i] = g[j]
          \/ LastIn(history, l, i) /\ c[i] = history[i] /\ \A j \in 1 .. Len(g) : g[j].key # l
    BY <1>2, <2>5, AddedIs
  <2> HIDE DEF g, c
  <2>6. history' \in Seq(Event) /\ Len(history') <= MaxHistory
    BY <2>5, TrimmedIs
  <2>7. ASSUME NEW l, NEW i, LastIn(history', l, i)
        PROVE  IF l = k THEN history'[i].level = s.level
               ELSE \E j : LastIn(history, l, j) /\ history[j] = history'[i]
    <3>1. PICK m : LastIn(c, l, m) /\ c[m] = history'[i]
      BY <2>5, <2>7, TrimmedIs
    <3>3. \/ e.key = l /\ c[m] = e
          \/ LastIn(history, l, m) /\ c[m] = history[m] /\ e.key # l
      BY <2>5, <2>8, <3>1
    <3> QED
      BY <2>2, <2>4, <3>1, <3>3
  <2> QED
    BY <1>1, <1>2, <2>1, <2>2, <2>3, <2>6, <2>7, FireKeeps
<1>4. CASE ~Announces(k)
  <2> DEFINE s == [active[k] EXCEPT !.status = "open", !.level = due[k]]
  <2>1. /\ active' = With(k, s) /\ history' = history
        /\ quiet' = IF active[k].status = "open" /\ active[k].level = due[k] THEN quiet ELSE quiet \cup {k}
    BY <1>4 DEF fire
  <2>2. k \in DOMAIN active /\ active[k].lastFired < cooldown
    <3>1. k \in DOMAIN active /\ ~(active[k].lastFired >= cooldown)
      BY <1>4 DEF Announces
    <3>2. active[k].lastFired \in Nat
      <4>1. active[k] \in State /\ MaxAge \in Nat
        BY <1>2, <3>1, AlerterAssumption DEF AlerterTypeOK
      <4> QED
        BY <4>1 DEF State
    <3>3. cooldown \in Nat
      BY <1>2, AlerterAssumption DEF AlerterTypeOK
    <3> QED
      BY <3>1, <3>2, <3>3
  <2>3. active[k] \in State
    BY <1>2, <2>2 DEF AlerterTypeOK
  <2>4. /\ s \in State /\ s.status = "open" /\ s.level = due[k]
        /\ s.lastFired = active[k].lastFired /\ s.resolvedAt = active[k].resolvedAt
    BY <1>2, <2>3 DEF State
  <2> HIDE DEF s
  <2>5. s.resolvedAt => k \in quiet'
    BY <2>1, <2>2, <2>4 DEF AlerterInductive, EndIsOver
  <2>6. ASSUME NEW l, NEW i, LastIn(history', l, i)
        PROVE  IF l = k THEN k \in quiet' \/ history'[i].level = s.level
               ELSE \E j : LastIn(history, l, j) /\ history[j] = history'[i]
    <3>1. CASE l = k
      <4>1. i \in DOMAIN history
        BY <2>1, <2>6 DEF LastIn
      <4>2. active[k].status = "open" => k \in quiet \/ history[i].level = active[k].level
        BY <2>1, <2>2, <2>6, <3>1, <4>1 DEF AlerterInductive, HistoryIsState
      <4> QED
        BY <2>1, <2>4, <3>1, <4>2
    <3>2. CASE l # k
      BY <2>1, <2>6, <3>2
    <3> QED
      BY <3>1, <3>2
  <2>7. quiet' \in SUBSET Alert /\ \A l \in quiet : l # k => l \in quiet'
    BY <1>2, <2>1
  <2> QED
    BY <1>1, <1>2, <2>1, <2>2, <2>4, <2>5, <2>6, <2>7, FireKeeps
<1> QED
  BY <1>3, <1>4

LEMMA ResolveNext == AlerterInductive /\ resolveMissing => AlerterInductive'
<1> SUFFICES ASSUME AlerterInductive, resolveMissing
             PROVE  AlerterInductive'
  OBVIOUS
<1>1. /\ checking /\ due = << >> /\ checking' = FALSE
      /\ active' = [k \in DOMAIN active |->
                     IF k \in Missing
                     THEN [active[k] EXCEPT !.status = "resolved", !.resolvedAt = TRUE]
                     ELSE active[k]]
      /\ UNCHANGED <<due, seen, cooldown, quiet>>
  BY DEF resolveMissing
<1>2. PICK order \in [1 .. Cardinality(Missing) -> Missing] :
        /\ {order[i] : i \in DOMAIN order} = Missing
        /\ history' = Trimmed(history \o [i \in DOMAIN order |-> [key |-> order[i], level |-> "resolved"]])
  BY DEF resolveMissing
<1> DEFINE n == Cardinality(Missing)
           g == [i \in 1 .. n |-> [key |-> order[i], level |-> "resolved"]]
<1>3. AlerterTypeOK /\ history \in Seq(Event)
  BY DEF AlerterInductive, AlerterTypeOK
<1>4. n \in Nat
  <2>1. Missing \subseteq DOMAIN active /\ IsFiniteSet(DOMAIN active)
    BY <1>3 DEF Missing, AlerterTypeOK
  <2>2. IsFiniteSet(Missing)
    BY <2>1, FS_Subset
  <2> QED
    BY <2>2, FS_CardinalityType
<1>5. Missing \subseteq Alert /\ Missing \subseteq DOMAIN active
  BY <1>3 DEF Missing, AlerterTypeOK
<1> HIDE DEF n
<1>6. /\ order \in [1 .. n -> Missing] /\ {order[i] : i \in 1 .. n} = Missing
      /\ history' = Trimmed(history \o g)
  BY <1>2 DEF n
<1>7. /\ g \in Seq(Event) /\ Len(g) = n
      /\ \A i \in 1 .. n : g[i].key = order[i] /\ g[i].level = "resolved"
  <2>1. \A i \in 1 .. n : [key |-> order[i], level |-> "resolved"] \in Event
    BY <1>5, <1>6 DEF Event
  <2>2. g \in [1 .. n -> Event]
    BY <2>1
  <2> QED
    BY <1>4, <2>2
<1> HIDE DEF g
<1> DEFINE c == history \o g
<1>8. /\ c \in Seq(Event) /\ history' = Trimmed(c)
      /\ \A k, i : LastIn(c, k, i) =>
           \/ \E j \in 1 .. Len(g) : g[j].key = k /\ c[i] = g[j]
           \/ LastIn(history, k, i) /\ c[i] = history[i] /\ \A j \in 1 .. Len(g) : g[j].key # k
  <2>1. c \in Seq(Event)
    BY <1>3, <1>7
  <2>2. history' = Trimmed(c)
    BY <1>6
  <2>3. \A k, i : LastIn(c, k, i) =>
          \/ \E j \in 1 .. Len(g) : g[j].key = k /\ c[i] = g[j]
          \/ LastIn(history, k, i) /\ c[i] = history[i] /\ \A j \in 1 .. Len(g) : g[j].key # k
    BY <1>3, <1>7, AddedIs
  <2> QED
    BY <2>1, <2>2, <2>3
<1> HIDE DEF c
<1>9. history' \in Seq(Event) /\ Len(history') <= MaxHistory
  BY <1>8, TrimmedIs
<1>10. ASSUME NEW k \in DOMAIN active
       PROVE  /\ active'[k] \in State
              /\ k \in Missing => active'[k].status = "resolved" /\ active'[k].resolvedAt = TRUE
              /\ k \notin Missing => active'[k] = active[k]
  <2>1. active[k] \in State
    BY <1>3 DEF AlerterTypeOK
  <2>2. ASSUME NEW b \in BOOLEAN
        PROVE  LET s == [active[k] EXCEPT !.status = "resolved", !.resolvedAt = b]
               IN  s \in State /\ s.status = "resolved" /\ s.resolvedAt = b
    BY <2>1 DEF State
  <2>3. CASE k \in Missing
    BY <1>1, <2>2, <2>3
  <2>4. CASE k \notin Missing
    BY <1>1, <2>1, <2>4
  <2> QED
    BY <2>3, <2>4
<1>11. DOMAIN active' = DOMAIN active
  BY <1>1
<1>12. AlerterTypeOK'
  <2>1. checking' \in BOOLEAN
    BY <1>1
  <2>2. \A k \in DOMAIN active' : active'[k] \in State
    BY <1>10, <1>11
  <2> QED
    BY <1>1, <1>3, <1>9, <1>11, <2>1, <2>2 DEF AlerterTypeOK
<1>13. HistoryIsState'
  <2> SUFFICES ASSUME NEW k \in DOMAIN active, NEW i, LastIn(history', k, i)
               PROVE  IF active'[k].status = "resolved" THEN history'[i].level = "resolved"
                      ELSE k \in quiet \/ history'[i].level = active'[k].level
    BY <1>1, <1>11 DEF HistoryIsState
  <2>1. PICK m : LastIn(c, k, m) /\ c[m] = history'[i]
    BY <1>8, TrimmedIs
  <2>2. \/ \E j \in 1 .. n : g[j].key = k /\ c[m] = g[j]
        \/ /\ LastIn(history, k, m) /\ c[m] = history[m]
           /\ \A j \in 1 .. n : g[j].key # k
    BY <1>7, <1>8, <2>1
  <2>3. CASE \E j \in 1 .. n : g[j].key = k /\ c[m] = g[j]
    <3>1. k \in Missing /\ history'[i].level = "resolved"
      BY <1>6, <1>7, <2>1, <2>3
    <3> QED
      BY <1>10, <3>1
  <2>4. CASE /\ LastIn(history, k, m) /\ c[m] = history[m]
             /\ \A j \in 1 .. n : g[j].key # k
    <3>1. k \notin Missing
      BY <1>6, <1>7, <2>4
    <3>2. m \in DOMAIN history
      BY <2>4 DEF LastIn
    <3>3. IF active[k].status = "resolved" THEN history[m].level = "resolved"
          ELSE k \in quiet \/ history[m].level = active[k].level
      BY <2>4, <3>2 DEF AlerterInductive, HistoryIsState
    <3> QED
      BY <1>10, <2>1, <2>4, <3>1, <3>3
  <2> QED
    BY <2>2, <2>3, <2>4
<1>14. EndIsOver'
  <2> SUFFICES ASSUME NEW k \in DOMAIN active
               PROVE  IF active'[k].status = "resolved" THEN active'[k].resolvedAt
                      ELSE active'[k].resolvedAt => k \in quiet'
    BY <1>11 DEF EndIsOver
  <2>1. CASE k \in Missing
    BY <1>10, <2>1
  <2>2. CASE k \notin Missing
    BY <1>1, <1>10, <2>2 DEF AlerterInductive, EndIsOver
  <2> QED
    BY <2>1, <2>2
<1>15. FiredSoFar'
  BY <1>1 DEF FiredSoFar
<1> QED
  BY <1>12, <1>13, <1>14, <1>15 DEF AlerterInductive

LEMMA AlerterStep == AlerterInductive /\ [AlerterNext]_alertVars => AlerterInductive'
<1> SUFFICES ASSUME AlerterInductive, [AlerterNext]_alertVars
             PROVE  AlerterInductive'
  OBVIOUS
<1>1. CASE UNCHANGED alertVars
  <2>1. AlerterTypeOK' /\ HistoryIsState' /\ EndIsOver'
    BY <1>1 DEF alertVars, AlerterInductive, AlerterTypeOK, HistoryIsState, EndIsOver
  <2>2. FiredSoFar'
    BY <1>1 DEF alertVars, AlerterInductive, FiredSoFar
  <2> QED
    BY <2>1, <2>2 DEF AlerterInductive
<1> QED
  BY <1>1, TickNext, ResolveNext, FireNext DEF AlerterNext

\* The history tells what the alerts are at, an open alert with the time of its
\* end came back in silence, and what a check has found is open when it ends
\* (fire, resolveMissing): for any alerts, cooldowns and length of the history.
THEOREM AlertsTrue == AlerterSpec => [](AlerterTypeOK /\ AlertsExplained)
<1>1. AlerterInductive => AlerterTypeOK /\ AlertsExplained
  <2> SUFFICES ASSUME AlerterInductive
               PROVE  AlerterTypeOK /\ AlertsExplained
    OBVIOUS
  <2>1. SeenAreOpen
    BY DEF SeenAreOpen, AlerterInductive, FiredSoFar
  <2> QED
    BY <2>1 DEF AlertsExplained, AlerterInductive
<1> QED
  BY <1>1, AlerterStart, AlerterStep, PTL DEF AlerterSpec

-----------------------------------------------------------------------------
(* The three together.                                                     *)

\* Whichever of the three a behaviour is about (app.js and logs.js, pool.go,
\* alerter.go), the variables of all of them keep their types.
THEOREM ServicesTyped == ServicesSpec => []ServicesTypeOK
<1> DEFINE Inv == FeedInductive /\ PoolsInductive /\ AlerterInductive
<1>1. ServicesInit => Inv
  BY FeedStart, PoolsStart, AlerterStart DEF ServicesInit
<1>2. Inv /\ [ServicesNext]_<<part, feedVars, poolVars, alertVars>> => Inv'
  <2> SUFFICES ASSUME Inv, [ServicesNext]_<<part, feedVars, poolVars, alertVars>>
               PROVE  Inv'
    OBVIOUS
  <2>1. [FeedNext]_feedVars /\ [PoolsNext]_poolVars /\ [AlerterNext]_alertVars
    BY DEF ServicesNext, InFeed, InPools, InAlerter
  <2> QED
    BY <2>1, FeedStep, PoolsStep, AlerterStep
<1>3. Inv => ServicesTypeOK
  BY DEF FeedInductive, PoolsInductive, AlerterInductive, ServicesTypeOK
<1> QED
  BY <1>1, <1>2, <1>3, PTL DEF ServicesSpec
=============================================================================
