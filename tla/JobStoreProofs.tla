--------------------------- MODULE JobStoreProofs ---------------------------
(***************************************************************************)
(* What the critical sections of the job store preserve, for every set of  *)
(* job ids and every maxJobs.  The proofs about the workers cite these.    *)
(***************************************************************************)
EXTENDS JobStore, FiniteSetTheorems, TLAPS

\* trimLocked: what is kept is a list of ids, each of which was there.
LEMMA TrimType ==
  ASSUME NEW ids \in Seq(JobId)
  PROVE  /\ Trim(ids) \in Seq(JobId)
         /\ Len(Trim(ids)) <= MaxJobs
         /\ Len(Trim(ids)) <= Len(ids)
         /\ \A i \in 1 .. Len(Trim(ids)) : Trim(ids)[i] = ids[i]
<1>1. Len(ids) \in Nat
  OBVIOUS
<1>2. CASE Len(ids) > MaxJobs
  <2>1. MaxJobs \in Nat /\ MaxJobs <= Len(ids)
    BY <1>1, <1>2, StoreAssumption
  <2>2. Trim(ids) = SubSeq(ids, 1, MaxJobs)
    BY <1>2 DEF Trim
  <2> QED
    BY <2>1, <2>2
<1>3. CASE ~(Len(ids) > MaxJobs)
  <2>1. Trim(ids) = SubSeq(ids, 1, Len(ids))
    BY <1>3 DEF Trim
  <2>2. Len(ids) <= MaxJobs
    BY <1>1, <1>3, StoreAssumption
  <2> QED
    BY <1>1, <2>1, <2>2
<1> QED
  BY <1>2, <1>3

\* JobStore.Start keeps the store well-typed.
LEMMA StartType ==
  ASSUME NEW id \in JobId, StoreTypeOK, Start(id)
  PROVE  StoreTypeOK'
<1> DEFINE ids     == <<id>> \o order
           evicted == Range(ids) \ Range(Trim(ids))
           all     == [j \in DOMAIN jobs \cup {id} |->
                         IF j = id THEN NewJob ELSE jobs[j]]
<1>1. /\ order' = Trim(ids)
      /\ jobs' = Restrict(all, DOMAIN all \ evicted)
      /\ files' = files \ {j \in evicted : j \in DOMAIN all /\ all[j].artifact}
  BY DEF Start
<1>2. ids \in Seq(JobId)
  BY DEF StoreTypeOK
<1>3. order' \in Seq(JobId)
  BY <1>1, <1>2, TrimType
<1>4. NewJob \in JobRecord
  BY DEF NewJob, JobRecord, Terminal
<1>5. DOMAIN all = DOMAIN jobs \cup {id}
  OBVIOUS
<1>6. \A j \in DOMAIN all : all[j] \in JobRecord
  BY <1>4 DEF StoreTypeOK
<1>7. jobs' = [j \in DOMAIN all \ evicted |-> all[j]]
  BY <1>1 DEF Restrict
<1> HIDE DEF all, evicted
<1>8. DOMAIN jobs' = DOMAIN all \ evicted
  BY <1>7
<1>9. jobs' \in [DOMAIN jobs' -> JobRecord]
  BY <1>6, <1>7, <1>8
<1>10. DOMAIN jobs' \subseteq JobId
  BY <1>5, <1>8 DEF StoreTypeOK
<1>11. files' \subseteq JobId
  BY <1>1 DEF StoreTypeOK
<1> QED
  BY <1>3, <1>9, <1>10, <1>11 DEF StoreTypeOK

\* JobStore.Update keeps the records well-typed.
LEMMA UpdateType ==
  ASSUME NEW id, StoreTypeOK, Update(id)
  PROVE  /\ DOMAIN jobs' = DOMAIN jobs
         /\ jobs' \in [DOMAIN jobs -> JobRecord]
         /\ order' = order
<1>1. ASSUME NEW j \in DOMAIN jobs
      PROVE  [jobs[j] EXCEPT !.message = "running"] \in JobRecord
  BY DEF StoreTypeOK, JobRecord
<1> QED
  BY <1>1 DEF Update, StoreTypeOK

\* finish keeps the records well-typed.
LEMMA FinishType ==
  ASSUME NEW id, NEW status \in Terminal, NEW art \in BOOLEAN,
         StoreTypeOK, Finish(id, status, art)
  PROVE  /\ DOMAIN jobs' = DOMAIN jobs
         /\ jobs' \in [DOMAIN jobs -> JobRecord]
         /\ order' = order
<1>1. ASSUME NEW j \in DOMAIN jobs
      PROVE  [status   |-> status,
              message  |-> "final",
              error    |-> jobs[j].error \/ status = "failed",
              artifact |-> jobs[j].artifact \/ art] \in JobRecord
  <2>1. /\ (jobs[j].error \/ status = "failed") \in BOOLEAN
        /\ (jobs[j].artifact \/ art) \in BOOLEAN
    BY Zenon
  <2> QED
    BY <2>1 DEF StoreTypeOK, JobRecord
<1> QED
  BY <1>1 DEF Finish, StoreTypeOK
-----------------------------------------------------------------------------
\* JobStore.Start with a fresh id keeps the list and the map in step: what
\* trimLocked takes off the list it deletes from the map.
LEMMA StartIndex ==
  ASSUME NEW id \in JobId, StoreTypeOK, IndexInv, id \notin DOMAIN jobs,
         Start(id)
  PROVE  IndexInv' /\ DOMAIN jobs' \subseteq DOMAIN jobs \cup {id}
<1> DEFINE ids     == <<id>> \o order
           evicted == Range(ids) \ Range(Trim(ids))
           all     == [j \in DOMAIN jobs \cup {id} |->
                         IF j = id THEN NewJob ELSE jobs[j]]
<1>1. order' = Trim(ids) /\ jobs' = Restrict(all, DOMAIN all \ evicted)
  BY DEF Start
<1>2. ids \in Seq(JobId) /\ order \in Seq(JobId)
  BY DEF StoreTypeOK
<1>3. /\ Len(order) \in Nat
      /\ Len(ids) = Len(order) + 1
      /\ DOMAIN order = 1 .. Len(order)
      /\ DOMAIN ids = 1 .. Len(ids)
      /\ ids[1] = id
      /\ \A i \in 2 .. Len(ids) : ids[i] = order[i - 1] /\ i - 1 \in DOMAIN order
  BY <1>2
<1>4. /\ order' \in Seq(JobId)
      /\ Len(order') <= MaxJobs
      /\ Len(order') <= Len(ids)
      /\ \A i \in 1 .. Len(order') : order'[i] = ids[i]
  BY <1>1, <1>2, TrimType
<1>5. DOMAIN order' = 1 .. Len(order') /\ Len(order') \in Nat
  BY <1>4
<1>6. \A i \in DOMAIN order' : i \in DOMAIN ids /\ order'[i] = ids[i]
  BY <1>3, <1>4, <1>5
<1>7. Range(ids) = DOMAIN jobs \cup {id}
  <2>1. \A j \in Range(ids) : j \in DOMAIN jobs \cup {id}
    BY <1>3 DEF Range, IndexInv
  <2>2. ASSUME NEW j \in DOMAIN jobs PROVE j \in Range(ids)
    <3>1. PICK i \in DOMAIN order : order[i] = j
      BY DEF Range, IndexInv
    <3>2. i + 1 \in 2 .. Len(ids) /\ (i + 1) - 1 = i
      BY <1>3
    <3>3. ids[i + 1] = j /\ i + 1 \in DOMAIN ids
      BY <1>3, <3>1, <3>2
    <3> QED
      BY <3>3 DEF Range
  <2>3. id \in Range(ids)
    BY <1>3 DEF Range
  <2> QED
    BY <2>1, <2>2, <2>3
<1>8. Range(order') \subseteq Range(ids)
  BY <1>6 DEF Range
<1>9. DOMAIN all = Range(ids)
  BY <1>7
<1>10. DOMAIN jobs' = DOMAIN all \ evicted
  <2> HIDE DEF all, evicted
  <2> QED
    BY <1>1 DEF Restrict
<1>11. Range(order') = DOMAIN jobs'
  BY <1>1, <1>8, <1>9, <1>10
<1>12. \A i, k \in DOMAIN ids : ids[i] = ids[k] => i = k
  <2>1. \A i \in DOMAIN order : order[i] # id
    BY DEF Range, IndexInv
  <2>2. \A i, k \in 2 .. Len(ids) : ids[i] = ids[k] => i = k
    <3> SUFFICES ASSUME NEW i \in 2 .. Len(ids), NEW k \in 2 .. Len(ids),
                        ids[i] = ids[k]
                 PROVE  i = k
      OBVIOUS
    <3>1. i - 1 = k - 1
      BY <1>3 DEF IndexInv
    <3> QED
      BY <1>3, <3>1
  <2> QED
    BY <1>3, <2>1, <2>2
<1>13. \A i, k \in DOMAIN order' : order'[i] = order'[k] => i = k
  BY <1>6, <1>12
<1>14. DOMAIN jobs' \subseteq DOMAIN jobs \cup {id}
  BY <1>7, <1>8, <1>11
<1> QED
  BY <1>4, <1>11, <1>13, <1>14 DEF IndexInv

\* The inductive form says what IndexOK says: as many records as places.
LEMMA IndexInvImplies ==
  ASSUME StoreTypeOK, IndexInv
  PROVE  IndexOK
<1>1. /\ Len(order) \in Nat
      /\ DOMAIN order = 1 .. Len(order)
  BY DEF StoreTypeOK
<1>2. order \in Bijection(1 .. Len(order), DOMAIN jobs)
  BY <1>1 DEF StoreTypeOK, IndexInv, Range, Bijection, Injection, Surjection,
              IsInjective
<1>3. /\ IsFiniteSet(1 .. Len(order))
      /\ Cardinality(1 .. Len(order)) = Len(order)
  <2>1. /\ IsFiniteSet(1 .. Len(order))
        /\ Cardinality(1 .. Len(order)) =
             IF 1 > Len(order) THEN 0 ELSE Len(order) - 1 + 1
    <3>1. 1 \in Int /\ Len(order) \in Int
      BY <1>1
    <3> QED
      BY <3>1, FS_Interval, Zenon
  <2> QED
    BY <1>1, <2>1
<1>4. Cardinality(DOMAIN jobs) = Len(order)
  BY <1>2, <1>3, FS_Bijection DEF ExistsBijection
<1> QED
  BY <1>4 DEF IndexOK, IndexInv

\* What Start leaves in the map: a fresh record for the new id, and the
\* records it found for those it did not evict.
LEMMA StartRecords ==
  ASSUME NEW id, Start(id)
  PROVE  \A j \in DOMAIN jobs' :
           /\ j = id => jobs'[j] = NewJob
           /\ j # id => j \in DOMAIN jobs /\ jobs'[j] = jobs[j]
<1> DEFINE ids     == <<id>> \o order
           evicted == Range(ids) \ Range(Trim(ids))
           all     == [j \in DOMAIN jobs \cup {id} |->
                         IF j = id THEN NewJob ELSE jobs[j]]
<1>1. jobs' = Restrict(all, DOMAIN all \ evicted)
  BY DEF Start
<1> HIDE DEF evicted
<1>2. DOMAIN jobs' \subseteq DOMAIN all /\ \A j \in DOMAIN jobs' : jobs'[j] = all[j]
  BY <1>1 DEF Restrict
<1> QED
  BY <1>2

\* Update and finish change no record's existence and no place in the list;
\* Update changes no status, and finish the one it is asked to change.
LEMMA RecordMoves ==
  ASSUME NEW id
  PROVE  /\ Update(id) =>
              /\ DOMAIN jobs' = DOMAIN jobs /\ order' = order
              /\ StoreTypeOK => \A j \in DOMAIN jobs :
                   /\ jobs'[j].status = jobs[j].status
                   /\ jobs'[j].error = jobs[j].error
         /\ \A s \in Terminal, a \in BOOLEAN : Finish(id, s, a) =>
              /\ DOMAIN jobs' = DOMAIN jobs /\ order' = order
              /\ \A j \in DOMAIN jobs :
                   /\ j = id => /\ jobs'[j].status = s
                                /\ jobs'[j].error = (jobs[j].error \/ s = "failed")
                   /\ j # id => jobs'[j] = jobs[j]
<1>1. ASSUME Update(id), StoreTypeOK, NEW j \in DOMAIN jobs
      PROVE  /\ jobs'[j].status = jobs[j].status
             /\ jobs'[j].error = jobs[j].error
  BY <1>1 DEF Update, StoreTypeOK, JobRecord
<1>2. ASSUME NEW s \in Terminal, NEW a \in BOOLEAN, Finish(id, s, a)
      PROVE  /\ DOMAIN jobs' = DOMAIN jobs /\ order' = order
             /\ \A j \in DOMAIN jobs :
                  /\ j = id => /\ jobs'[j].status = s
                               /\ jobs'[j].error = (jobs[j].error \/ s = "failed")
                  /\ j # id => jobs'[j] = jobs[j]
  BY <1>2 DEF Finish
<1> QED
  BY <1>1, <1>2 DEF Update

\* What trimLocked removes from the disk is the artifact of a record it evicts.
LEMMA StartFiles ==
  ASSUME NEW id, Start(id)
  PROVE  /\ files' \subseteq files
         /\ \A j \in files \ files' :
              /\ j \notin DOMAIN jobs'
              /\ j \in DOMAIN jobs /\ j # id /\ jobs[j].artifact
<1> DEFINE ids     == <<id>> \o order
           evicted == Range(ids) \ Range(Trim(ids))
           all     == [j \in DOMAIN jobs \cup {id} |->
                         IF j = id THEN NewJob ELSE jobs[j]]
<1>1. /\ jobs' = Restrict(all, DOMAIN all \ evicted)
      /\ files' = files \ {j \in evicted : j \in DOMAIN all /\ all[j].artifact}
  BY DEF Start
<1> HIDE DEF evicted
<1>2. \A j \in DOMAIN all : all[j].artifact => j # id /\ j \in DOMAIN jobs
                                               /\ jobs[j].artifact
  BY DEF NewJob
<1>3. DOMAIN jobs' = DOMAIN all \ evicted
  <2> HIDE DEF all
  <2> QED
    BY <1>1 DEF Restrict
<1> QED
  BY <1>1, <1>2, <1>3

\* The new record stays, and one that is evicted takes its artifact with it.
LEMMA StartEvicts ==
  ASSUME NEW id \in JobId, Start(id), order \in Seq(JobId)
  PROVE  /\ id \in DOMAIN jobs'
         /\ \A j \in DOMAIN jobs \ DOMAIN jobs' :
              jobs[j].artifact => j \notin files'
<1> DEFINE ids     == <<id>> \o order
           evicted == Range(ids) \ Range(Trim(ids))
           all     == [j \in DOMAIN jobs \cup {id} |->
                         IF j = id THEN NewJob ELSE jobs[j]]
<1>1. /\ jobs' = Restrict(all, DOMAIN all \ evicted)
      /\ files' = files \ {j \in evicted : j \in DOMAIN all /\ all[j].artifact}
  BY DEF Start
<1>2. id \notin evicted
  <2>1. ids \in Seq(JobId) /\ Len(ids) >= 1 /\ ids[1] = id
    OBVIOUS
  <2> HIDE DEF ids
  <2>2. 1 \in DOMAIN Trim(ids) /\ Trim(ids)[1] = id
    BY <2>1, StoreAssumption DEF Trim
  <2> QED
    BY <2>2 DEF Range
<1> HIDE DEF evicted
<1>3. DOMAIN jobs' = DOMAIN all \ evicted
  <2> HIDE DEF all
  <2> QED
    BY <1>1 DEF Restrict
<1>4. id \in DOMAIN jobs'
  BY <1>2, <1>3
<1>5. ASSUME NEW j \in DOMAIN jobs \ DOMAIN jobs', jobs[j].artifact
      PROVE  j \notin files'
  <2>1. j # id /\ j \in evicted /\ j \in DOMAIN all
    BY <1>3, <1>4, <1>5
  <2>2. all[j] = jobs[j]
    BY <2>1
  <2> QED
    BY <1>1, <1>5, <2>1, <2>2
<1> QED
  BY <1>4, <1>5

\* Only finish gives a record an artifact, and only the record it finishes.
LEMMA ArtifactMoves ==
  ASSUME NEW id, StoreTypeOK
  PROVE  /\ Update(id) =>
              \A j \in DOMAIN jobs : jobs'[j].artifact = jobs[j].artifact
         /\ \A s \in Terminal, a \in BOOLEAN : Finish(id, s, a) =>
              \A j \in DOMAIN jobs :
                jobs'[j].artifact <=> jobs[j].artifact \/ (j = id /\ a)
<1>1. ASSUME Update(id), NEW j \in DOMAIN jobs
      PROVE  jobs'[j].artifact = jobs[j].artifact
  BY <1>1 DEF Update, StoreTypeOK, JobRecord
<1>2. ASSUME NEW s \in Terminal, NEW a \in BOOLEAN, Finish(id, s, a),
             NEW j \in DOMAIN jobs
      PROVE  jobs'[j].artifact <=> jobs[j].artifact \/ (j = id /\ a)
  <2>1. CASE j = id
    <3>1. jobs'[j].artifact = (jobs[j].artifact \/ a)
      BY <1>2, <2>1 DEF Finish
    <3> QED
      BY <2>1, <3>1, Zenon
  <2>2. CASE j # id
    <3>1. jobs'[j] = jobs[j]
      BY <1>2, <2>2 DEF Finish
    <3> QED
      BY <2>2, <3>1, Zenon
  <2> QED
    BY <2>1, <2>2
<1>3. Update(id) => \A j \in DOMAIN jobs : jobs'[j].artifact = jobs[j].artifact
  BY <1>1
<1>4. \A s \in Terminal, a \in BOOLEAN : Finish(id, s, a) =>
        \A j \in DOMAIN jobs :
          jobs'[j].artifact <=> jobs[j].artifact \/ (j = id /\ a)
  BY <1>2, Zenon
<1> QED
  BY <1>3, <1>4, Zenon

\* Start puts the new id in front; the others keep their order.
LEMMA StartOrder ==
  ASSUME NEW id \in JobId, StoreTypeOK, Start(id)
  PROVE  /\ DOMAIN order = 1 .. Len(order) /\ Len(order) \in Nat
         /\ DOMAIN order' = 1 .. Len(order') /\ Len(order') \in Nat
         /\ \A i \in DOMAIN order' :
              IF i = 1 THEN order'[i] = id
                       ELSE i - 1 \in DOMAIN order /\ order'[i] = order[i - 1]
<1> DEFINE ids == <<id>> \o order
<1>1. order' = Trim(ids)
  BY DEF Start
<1>2. ids \in Seq(JobId) /\ order \in Seq(JobId)
  BY DEF StoreTypeOK
<1>3. /\ Len(order) \in Nat
      /\ Len(ids) = Len(order) + 1
      /\ ids[1] = id
      /\ \A i \in 2 .. Len(ids) : ids[i] = order[i - 1] /\ i - 1 \in DOMAIN order
  BY <1>2
<1>4. /\ order' \in Seq(JobId)
      /\ Len(order') <= Len(ids)
      /\ \A i \in 1 .. Len(order') : order'[i] = ids[i]
  BY <1>1, <1>2, TrimType
<1>5. DOMAIN order = 1 .. Len(order) /\ DOMAIN order' = 1 .. Len(order')
      /\ Len(order') \in Nat
  BY <1>2, <1>4
<1>6. ASSUME NEW i \in DOMAIN order', i # 1
      PROVE  i - 1 \in DOMAIN order /\ order'[i] = order[i - 1]
  <2>1. i \in 2 .. Len(ids)
    BY <1>3, <1>4, <1>5, <1>6
  <2> QED
    BY <1>3, <1>4, <1>5, <2>1
<1>7. ASSUME 1 \in DOMAIN order' PROVE order'[1] = id
  BY <1>3, <1>4, <1>5, <1>7
<1> QED
  BY <1>3, <1>5, <1>6, <1>7
=============================================================================
