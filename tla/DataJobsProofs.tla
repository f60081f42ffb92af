--------------------------- MODULE DataJobsProofs ---------------------------
(***************************************************************************)
(* Theorems about exports, imports, vacuums and the job endpoints, for     *)
(* every set of requests and downloads, every maxJobs and every default    *)
(* limit, and without the bound the TLC instance puts on imports beside    *)
(* other requests.                                                         *)
(***************************************************************************)
EXTENDS DataJobs, JobStoreProofs

LEMMA InductiveInit == ASSUME Init PROVE Inductive
<1>1. StoreTypeOK
  BY DEF Init, StoreInit, StoreTypeOK
<1>2. TypeOK
  BY <1>1 DEF Init, TypeOK, NoOptions, Options
<1>3. IndexInv
  BY StoreAssumption DEF Init, StoreInit, IndexInv, Range
<1>4. TimeInv
  BY DEF Init, StoreInit, TimeInv
<1>5. \A op \in Op : FileInv(op) /\ ImportInv(op)
  BY DEF Init, StoreInit, FileInv, ImportInv, NotInserted
<1>6. \A d \in Download : DownloadInv(d)
  BY DEF Init, DownloadInv
<1> QED
  BY <1>2, <1>3, <1>4, <1>5, <1>6 DEF Inductive
-----------------------------------------------------------------------------
(* Type correctness *)

LEMMA TypeNext == ASSUME TypeOK, [Next]_vars PROVE TypeOK'
<1> USE DataAssumption DEF Goto, storeVars, historyVars, timeVars, readerVars
<1> DEFINE PcType == pc \in [Op -> {"idle", "accepted", "stamped", "queued",
                                   "dump", "publish", "truncate", "load",
                                   "rmupload", "vacuum", "rejected", "done"}]
<1>0. StoreTypeOK
  BY DEF TypeOK
<1>1. ASSUME NEW op \in Op, Accept(op) PROVE TypeOK'
  <2>1. StoreTypeOK'
    BY <1>0, <1>1 DEF Accept, StoreTypeOK
  <2>2. PcType' /\ option' \in [Op -> Options] /\ uploads' \subseteq Op
    BY <1>1 DEF Accept, TypeOK
  <2> QED
    BY <1>1, <2>1, <2>2 DEF Accept, TypeOK
<1>2. ASSUME NEW op \in Op, Stamp(op) PROVE TypeOK'
  <2>1. earlier' \in [Op -> SUBSET Op]
    BY <1>2 DEF Stamp, TypeOK, StoreTypeOK
  <2> QED
    BY <1>2, <2>1 DEF Stamp, TypeOK, StoreTypeOK
<1>3. ASSUME NEW op \in Op, Insert(op) PROVE TypeOK'
  <2>1. StoreTypeOK'
    BY <1>0, <1>3, StartType DEF Insert
  <2>2. cut' \subseteq Op
    BY <1>0, <1>3 DEF Insert, TypeOK, StoreTypeOK
  <2> QED
    BY <1>3, <2>1, <2>2 DEF Insert, TypeOK
<1>4. ASSUME NEW op \in Op, CreateExport(op) \/ Dump(op) \/ Publish(op)
      PROVE  TypeOK'
  <2>1. files' \subseteq files \cup {op}
    BY <1>4 DEF CreateExport, Dump, Publish
  <2>2. StoreTypeOK'
    BY <1>0, <1>4, <2>1, UpdateType, FinishType
    DEF CreateExport, Dump, Publish, StoreTypeOK, Terminal
  <2>3. PcType'
    <3>1. \E s \in {"dump", "publish", "done"} : pc' = [pc EXCEPT ![op] = s]
      BY <1>4 DEF CreateExport, Dump, Publish
    <3> QED
      BY <3>1 DEF TypeOK
  <2>4. UNCHANGED <<clock, stamp, earlier, cut, option, uploads, data, dpc, djob>>
    BY <1>4 DEF CreateExport, Dump, Publish
  <2> QED
    BY <2>2, <2>3, <2>4 DEF TypeOK
<1>5. ASSUME NEW op \in Op, BeginImport(op) PROVE TypeOK'
  <2>1. StoreTypeOK'
    BY <1>0, <1>5, UpdateType DEF BeginImport, StoreTypeOK
  <2> QED
    BY <1>5, <2>1 DEF BeginImport, TypeOK
<1>6. ASSUME NEW op \in Op, Truncate(op) PROVE TypeOK'
  <2>1. StoreTypeOK'
    BY <1>0, <1>6, FinishType DEF Truncate, StoreTypeOK, Terminal
  <2>2. data' \in [Op -> {"untouched", "emptied", "partial", "loaded"}]
    BY <1>6 DEF Truncate, TypeOK
  <2>3. PcType'
    <3>1. \E s \in {"load", "rmupload"} : pc' = [pc EXCEPT ![op] = s]
      BY <1>6 DEF Truncate
    <3> QED
      BY <3>1 DEF TypeOK
  <2> QED
    BY <1>6, <2>1, <2>2, <2>3 DEF Truncate, TypeOK
<1>7. ASSUME NEW op \in Op, Load(op) PROVE TypeOK'
  <2>1. StoreTypeOK'
    BY <1>0, <1>7, FinishType DEF Load, StoreTypeOK, Terminal
  <2>2. data' \in [Op -> {"untouched", "emptied", "partial", "loaded"}]
    BY <1>7 DEF Load, TypeOK
  <2>3. /\ pc' = [pc EXCEPT ![op] = "rmupload"]
        /\ UNCHANGED <<clock, stamp, earlier, cut, option, uploads, dpc, djob>>
    BY <1>7 DEF Load
  <2> QED
    BY <2>1, <2>2, <2>3 DEF TypeOK
<1>8. ASSUME NEW op \in Op, RemoveUpload(op) PROVE TypeOK'
  BY <1>8 DEF RemoveUpload, TypeOK, StoreTypeOK
<1>9. ASSUME NEW op \in Op, BeginVacuum(op) PROVE TypeOK'
  <2>1. StoreTypeOK'
    BY <1>0, <1>9, UpdateType DEF BeginVacuum, StoreTypeOK
  <2> QED
    BY <1>9, <2>1 DEF BeginVacuum, TypeOK
<1>10. ASSUME NEW op \in Op, EndVacuum(op) PROVE TypeOK'
  <2>1. StoreTypeOK'
    BY <1>0, <1>10, FinishType DEF EndVacuum, StoreTypeOK, Terminal
  <2> QED
    BY <1>10, <2>1 DEF EndVacuum, TypeOK
<1>11. ASSUME NEW d \in Download, GetArtifact(d) \/ ServeFile(d) PROVE TypeOK'
  <2>1. StoreTypeOK'
    BY <1>0, <1>11 DEF GetArtifact, ServeFile, StoreTypeOK
  <2>2. dpc' \in [Download -> {"idle", "serve", "sent", "missing"}]
    BY <1>11 DEF GetArtifact, ServeFile, TypeOK
  <2>3. djob' \in [Download -> Op \cup {None}]
    BY <1>0, <1>11 DEF GetArtifact, ServeFile, TypeOK, StoreTypeOK
  <2> QED
    BY <1>11, <2>1, <2>2, <2>3 DEF GetArtifact, ServeFile, TypeOK
<1>12. CASE UNCHANGED vars
  BY <1>12 DEF vars, TypeOK, StoreTypeOK
<1> QED
  BY <1>1, <1>2, <1>3, <1>4, <1>5, <1>6, <1>7, <1>8, <1>9, <1>10, <1>11, <1>12
  DEF Next, GoOn, Work, Quiescent
-----------------------------------------------------------------------------
(* What a step of one request leaves alone *)

\* What a step of op leaves of the record of q.
RecordKept(q) ==
  q \in DOMAIN jobs' => /\ q \in DOMAIN jobs
                        /\ jobs'[q].artifact <=> jobs[q].artifact
                        /\ jobs'[q].status = jobs[q].status

LEMMA StoreMoves ==
  ASSUME StoreTypeOK, NEW op \in Op
  PROVE  /\ UNCHANGED jobs => \A q : RecordKept(q)
         /\ Update(op) => \A q : RecordKept(q)
         /\ Start(op) => \A q : q # op => RecordKept(q)
         /\ \A s \in Terminal, a \in BOOLEAN : Finish(op, s, a) =>
              /\ DOMAIN jobs' = DOMAIN jobs
              /\ \A q : q # op => RecordKept(q)
              /\ op \in DOMAIN jobs =>
                   /\ jobs'[op].artifact <=> jobs[op].artifact \/ a
                   /\ jobs'[op].status = s
<1>1. UNCHANGED jobs => \A q : RecordKept(q)
  BY DEF RecordKept
<1>2. ASSUME Update(op), NEW q PROVE RecordKept(q)
  BY <1>2, RecordMoves, ArtifactMoves DEF RecordKept
<1>3. ASSUME Start(op), NEW q, q # op PROVE RecordKept(q)
  BY <1>3, StartRecords DEF RecordKept
<1>4. ASSUME NEW s \in Terminal, NEW a \in BOOLEAN, Finish(op, s, a)
      PROVE  /\ DOMAIN jobs' = DOMAIN jobs
             /\ \A q : q # op => RecordKept(q)
             /\ op \in DOMAIN jobs =>
                  /\ jobs'[op].artifact <=> jobs[op].artifact \/ a
                  /\ jobs'[op].status = s
  <2>1. DOMAIN jobs' = DOMAIN jobs
    BY <1>4 DEF Finish
  <2>2. \A q \in DOMAIN jobs :
          jobs'[q].artifact <=> jobs[q].artifact \/ (q = op /\ a)
    BY <1>4, ArtifactMoves
  <2>3. \A q \in DOMAIN jobs :
          /\ q = op => jobs'[q].status = s
          /\ q # op => jobs'[q] = jobs[q]
    BY <1>4 DEF Finish
  <2>4. ASSUME NEW q, q # op PROVE RecordKept(q)
    BY <2>1, <2>3, <2>4 DEF RecordKept
  <2> QED
    BY <2>1, <2>2, <2>3, <2>4
<1> QED
  BY <1>1, <1>2, <1>3, <1>4, Zenon

\* Everything but the eviction of files: that is StartFiles.
Alone(op) ==
  /\ pc[op] # "done"
  /\ UNCHANGED readerVars
  /\ \A q \in Op \ {op} :
       /\ pc'[q] = pc[q] /\ option'[q] = option[q] /\ data'[q] = data[q]
       /\ RecordKept(q)
       /\ ~Insert(op) => (q \in files' <=> q \in files)

LEMMA StepsAlone ==
  ASSUME TypeOK, NEW op \in Op, Accept(op) \/ Work(op)
  PROVE  Alone(op)
<1> USE DEF Goto, storeVars, historyVars, timeVars, readerVars
<1>0. StoreTypeOK
  BY DEF TypeOK
<1>1. CASE Accept(op) \/ Stamp(op) \/ RemoveUpload(op)
  BY <1>0, <1>1, StoreMoves DEF Accept, Stamp, RemoveUpload, TypeOK, Alone
<1>2. CASE Insert(op)
  BY <1>0, <1>2, StoreMoves DEF Insert, TypeOK, Alone
<1>3. CASE CreateExport(op) \/ Dump(op) \/ Publish(op)
  <2>1. \A q : q # op => RecordKept(q)
    BY <1>0, <1>3, StoreMoves DEF CreateExport, Dump, Publish, Terminal
  <2> QED
    BY <1>3, <2>1 DEF CreateExport, Dump, Publish, TypeOK, Alone
<1>4. CASE BeginImport(op) \/ BeginVacuum(op)
  <2>1. \A q : q # op => RecordKept(q)
    BY <1>0, <1>4, StoreMoves DEF BeginImport, BeginVacuum
  <2> QED
    BY <1>4, <2>1 DEF BeginImport, BeginVacuum, TypeOK, Alone
<1>5. CASE Truncate(op) \/ EndVacuum(op)
  <2>1. \A q : q # op => RecordKept(q)
    BY <1>0, <1>5, StoreMoves DEF Truncate, EndVacuum, Terminal
  <2> QED
    BY <1>5, <2>1 DEF Truncate, EndVacuum, TypeOK, Alone
<1>6. CASE Load(op)
  <2>1. \A q : q # op => RecordKept(q)
    BY <1>0, <1>6, StoreMoves DEF Load, Terminal
  <2>2. \A q \in Op \ {op} : data'[q] = data[q]
    BY <1>6 DEF Load, TypeOK
  <2> QED
    BY <1>6, <2>1, <2>2 DEF Load, TypeOK, Alone
<1> QED
  BY <1>1, <1>2, <1>3, <1>4, <1>5, <1>6 DEF Work
\* A request that is in the store is not stamped or inserted again.
LEMMA PlacesKept ==
  ASSUME TypeOK, NEW op \in Op, Accept(op) \/ Work(op), ~Insert(op)
  PROVE  /\ DOMAIN jobs' = DOMAIN jobs /\ order' = order /\ cut' = cut
         /\ pc'[op] \in NotInserted => pc[op] \in NotInserted
         /\ ~Stamp(op) => UNCHANGED timeVars
<1> USE DEF Goto, storeVars, historyVars, timeVars, NotInserted
<1>1. CASE Accept(op) \/ Stamp(op) \/ RemoveUpload(op)
  BY <1>1 DEF Accept, Stamp, RemoveUpload, TypeOK
<1>2. CASE CreateExport(op) \/ Dump(op) \/ Publish(op)
  <2>1. DOMAIN jobs' = DOMAIN jobs /\ order' = order
    BY <1>2, RecordMoves DEF CreateExport, Dump, Publish, Terminal
  <2>2. \E s \in {"dump", "publish", "done"} : pc' = [pc EXCEPT ![op] = s]
    BY <1>2 DEF CreateExport, Dump, Publish
  <2> QED
    BY <1>2, <2>1, <2>2 DEF CreateExport, Dump, Publish, TypeOK
<1>3. CASE BeginImport(op) \/ BeginVacuum(op)
  BY <1>3, RecordMoves DEF BeginImport, BeginVacuum, TypeOK
<1>4. CASE Truncate(op) \/ EndVacuum(op)
  <2>1. DOMAIN jobs' = DOMAIN jobs /\ order' = order
    BY <1>4, RecordMoves DEF Truncate, EndVacuum, Terminal
  <2>2. \E s \in {"load", "rmupload", "done"} : pc' = [pc EXCEPT ![op] = s]
    BY <1>4 DEF Truncate, EndVacuum
  <2> QED
    BY <1>4, <2>1, <2>2 DEF Truncate, EndVacuum, TypeOK
<1>5. CASE Load(op)
  <2>1. DOMAIN jobs' = DOMAIN jobs /\ order' = order
    BY <1>5, RecordMoves DEF Load, Terminal
  <2> QED
    BY <1>5, <2>1 DEF Load, TypeOK
<1> QED
  BY <1>1, <1>2, <1>3, <1>4, <1>5 DEF Work

-----------------------------------------------------------------------------
(* Files, rows and downloads *)

OpInv(op) == FileInv(op) /\ ImportInv(op)

LEMMA OthersNext ==
  ASSUME TypeOK, \A q \in Op : OpInv(q), NEW op \in Op, Accept(op) \/ Work(op),
         Alone(op), NEW q \in Op, q # op
  PROVE  OpInv(q)'
<1>1. OpInv(q) /\ RecordKept(q) /\ pc'[q] = pc[q] /\ option'[q] = option[q]
      /\ data'[q] = data[q]
  BY DEF Alone
<1>2. CASE ~Insert(op)
  <2>1. q \in files' <=> q \in files
    BY <1>2 DEF Alone
  <2>2. DOMAIN jobs' = DOMAIN jobs /\ cut' = cut
    BY <1>2, PlacesKept
  <2> QED
    BY <1>1, <2>1, <2>2 DEF OpInv, FileInv, ImportInv, RecordKept, Truncates
<1>3. CASE Insert(op)
  <2>1. Start(op)
    BY <1>3 DEF Insert
  <2>2. files' \subseteq files
    BY <2>1, StartFiles
  <2>3. q \in files \ files' => q \notin DOMAIN jobs' /\ pc[q] = "done"
    BY <1>1, <2>1, StartFiles DEF OpInv, FileInv
  <2>4. cut \subseteq cut'
    BY <1>3 DEF Insert
  <2>5. q \in DOMAIN jobs \ DOMAIN jobs' =>
          IF pc[q] = "done" THEN q \notin files' ELSE q \in cut'
    <3>1. q \in DOMAIN jobs \ DOMAIN jobs' /\ pc[q] # "done" => q \in cut'
      BY <1>3 DEF Insert
    <3>2. q \in DOMAIN jobs \ DOMAIN jobs' /\ jobs[q].artifact => q \notin files'
      BY <2>1, StartEvicts, DataAssumption DEF TypeOK, StoreTypeOK
    <3>3. q \in DOMAIN jobs /\ pc[q] = "done" /\ q \in files => jobs[q].artifact
      BY <1>1 DEF OpInv, FileInv
    <3> QED
      BY <2>2, <3>1, <3>2, <3>3
  <2>6. q \in DOMAIN jobs' => q \in DOMAIN jobs
    BY <1>1 DEF RecordKept
  <2>7. FileInv(q)'
    <3>1. /\ q \in files' => pc'[q] \in {"dump", "publish", "done"}
          /\ pc'[q] \in {"dump", "publish"} => q \in files'
      BY <1>1, <2>2, <2>3 DEF OpInv, FileInv
    <3>2. pc'[q] \in {"queued", "dump", "publish"} => q \in DOMAIN jobs' \cup cut'
      BY <1>1, <2>4, <2>5 DEF OpInv, FileInv
    <3>3. q \in files' => pc'[q] # "done" \/ q \in DOMAIN jobs' \cup cut'
      BY <1>1, <2>2, <2>4, <2>5 DEF OpInv, FileInv
    <3>4. q \in DOMAIN jobs' =>
            /\ pc'[q] \notin NotInserted
            /\ jobs'[q].artifact => q \in files' /\ pc'[q] = "done"
            /\ q \in files' /\ pc'[q] = "done" => jobs'[q].artifact
      BY <1>1, <2>2, <2>3 DEF OpInv, FileInv, RecordKept
    <3> QED
      BY <3>1, <3>2, <3>3, <3>4 DEF FileInv
  <2>8. ImportInv(q)'
    BY <1>1 DEF OpInv, ImportInv, RecordKept, Truncates
  <2> QED
    BY <2>7, <2>8 DEF OpInv
<1> QED
  BY <1>2, <1>3

LEMMA OpNext ==
  ASSUME TypeOK, NEW op \in Op, OpInv(op), Accept(op) \/ Work(op)
  PROVE  OpInv(op)'
<1> USE DEF Goto, storeVars, historyVars, timeVars, readerVars, NotInserted
<1>0. StoreTypeOK
  BY DEF TypeOK
<1>1. ASSUME NEW s \in Terminal, NEW a \in BOOLEAN, Finish(op, s, a)
      PROVE  /\ DOMAIN jobs' = DOMAIN jobs
             /\ op \in DOMAIN jobs =>
                  /\ jobs'[op].artifact <=> jobs[op].artifact \/ a
                  /\ jobs'[op].status = s
  BY <1>0, <1>1, StoreMoves
<1>2. CASE Accept(op)
  BY <1>2 DEF Accept, OpInv, FileInv, ImportInv, TypeOK, Truncates
<1>3. CASE Stamp(op)
  BY <1>3 DEF Stamp, OpInv, FileInv, ImportInv, TypeOK, Truncates
<1>4. CASE Insert(op)
  <2>1. Start(op) /\ pc[op] = "stamped" /\ pc'[op] = "queued"
        /\ UNCHANGED <<option, data>>
    BY <1>4 DEF Insert, TypeOK
  <2>2. op \notin files'
    BY <2>1, StartFiles DEF OpInv, FileInv
  <2>3. op \in DOMAIN jobs' =>
          ~jobs'[op].artifact /\ jobs'[op].status = "running"
    BY <2>1, StartRecords DEF NewJob
  <2>4. op \in DOMAIN jobs'
    BY <1>0, <2>1, StartEvicts, DataAssumption DEF StoreTypeOK
  <2> QED
    BY <2>1, <2>2, <2>3, <2>4 DEF OpInv, FileInv, ImportInv, Truncates
<1>5. CASE CreateExport(op) \/ Dump(op) \/ Publish(op)
  <2>1. pc[op] \in {"queued", "dump", "publish"} /\ UNCHANGED <<option, data>>
    BY <1>5 DEF CreateExport, Dump, Publish
  <2>2. data[op] = "untouched" /\ (op \in DOMAIN jobs => ~jobs[op].artifact)
    BY <2>1 DEF OpInv, FileInv, ImportInv
  <2>3. pc'[op] \in {"dump", "publish", "done"}
    BY <1>5 DEF CreateExport, Dump, Publish, TypeOK
  <2>4. ImportInv(op)'
    BY <2>1, <2>2, <2>3 DEF ImportInv
  <2>9. op \in DOMAIN jobs' \cup cut'
    BY <1>5, <2>1, PlacesKept DEF OpInv, FileInv, Work, Insert, CreateExport, Dump, Publish
  <2>5. ASSUME op \in files', pc'[op] \in {"dump", "publish"}, RecordKept(op)
        PROVE  FileInv(op)'
    BY <2>1, <2>2, <2>5, <2>9, <1>5
    DEF FileInv, RecordKept, OpInv
  <2>6. ASSUME op \notin files', pc'[op] = "done", Finish(op, "failed", FALSE)
        PROVE  FileInv(op)'
    BY <1>1, <2>1, <2>2, <2>6, <2>9 DEF FileInv, OpInv, Terminal
  <2>7. ASSUME op \in files', pc'[op] = "done", Finish(op, "succeeded", TRUE)
        PROVE  FileInv(op)'
    BY <1>1, <2>1, <2>7, <2>9 DEF FileInv, OpInv, Terminal
  <2>8. FileInv(op)'
    <3>1. Update(op) \/ UNCHANGED jobs => RecordKept(op)
      BY <1>0, StoreMoves
    <3>2. pc[op] = "queued" => op \notin files
      BY DEF OpInv, FileInv
    <3>3. pc[op] \in {"dump", "publish"} => op \in files
      BY DEF OpInv, FileInv
    <3>4. CASE CreateExport(op)
      BY <2>5, <2>6, <3>1, <3>2, <3>4 DEF CreateExport, TypeOK
    <3>5. CASE Dump(op)
      BY <2>5, <2>6, <3>1, <3>3, <3>5 DEF Dump, TypeOK
    <3>6. CASE Publish(op)
      BY <2>6, <2>7, <3>3, <3>6 DEF Publish, TypeOK
    <3> QED
      BY <1>5, <3>4, <3>5, <3>6
  <2> QED
    BY <2>4, <2>8 DEF OpInv
<1>6. CASE BeginImport(op) \/ BeginVacuum(op)
  <2>1. RecordKept(op)
    BY <1>0, <1>6, StoreMoves DEF BeginImport, BeginVacuum
  <2>2. pc[op] = "queued" /\ UNCHANGED <<files, option, data>>
    BY <1>6 DEF BeginImport, BeginVacuum
  <2>3. pc'[op] \in {"truncate", "load", "vacuum"}
        /\ (pc'[op] = "truncate" => Truncates(op))
    BY <1>6 DEF BeginImport, BeginVacuum, TypeOK
  <2> QED
    BY <2>1, <2>2, <2>3 DEF OpInv, FileInv, ImportInv, RecordKept, Truncates
<1>7. CASE Truncate(op)
  <2>1. pc[op] = "truncate" /\ UNCHANGED <<files, option>>
    BY <1>7 DEF Truncate
  <2>2. Truncates(op) /\ op \notin files
    BY <2>1 DEF OpInv, FileInv, ImportInv
  <2>3. CASE UNCHANGED jobs /\ pc'[op] = "load"
    BY <2>1, <2>2, <2>3 DEF OpInv, FileInv, ImportInv, Truncates
  <2>4. CASE Finish(op, "failed", FALSE) /\ pc'[op] = "rmupload"
    BY <1>1, <2>1, <2>2, <2>4
    DEF OpInv, FileInv, ImportInv, Truncates, Terminal
  <2> QED
    BY <1>7, <2>3, <2>4 DEF Truncate, TypeOK
<1>8. CASE Load(op)
  <2>1. pc[op] = "load" /\ pc'[op] = "rmupload" /\ UNCHANGED <<files, option>>
    BY <1>8 DEF Load, TypeOK
  <2>2. op \notin files
    BY <2>1 DEF OpInv, FileInv
  <2>3. PICK s \in {"succeeded", "failed"} :
          /\ Finish(op, s, FALSE)
          /\ s = "failed" /\ option[op].singleTx => data' = data
    BY <1>8 DEF Load
  <2>4. ~Truncates(op) => data[op] = "untouched"
    BY <2>1 DEF OpInv, ImportInv
  <2>5. /\ DOMAIN jobs' = DOMAIN jobs
        /\ op \in DOMAIN jobs =>
             /\ jobs'[op].artifact <=> jobs[op].artifact
             /\ jobs'[op].status = s
    BY <1>1, <2>3 DEF Terminal
  <2>6. FileInv(op)'
    BY <2>1, <2>2, <2>5 DEF OpInv, FileInv
  <2>7. ImportInv(op)'
    BY <2>1, <2>3, <2>4, <2>5 DEF ImportInv, Truncates
  <2> QED
    BY <2>6, <2>7 DEF OpInv
<1>9. CASE RemoveUpload(op)
  <2>1. op \notin files
    BY <1>9 DEF RemoveUpload, OpInv, FileInv
  <2> QED
    BY <1>9, <2>1
    DEF RemoveUpload, OpInv, FileInv, ImportInv, Truncates, TypeOK
<1>10. CASE EndVacuum(op)
  <2>1. PICK s \in {"succeeded", "failed"} : Finish(op, s, FALSE)
    BY <1>10 DEF EndVacuum
  <2>2. pc[op] = "vacuum" /\ pc'[op] = "done" /\ UNCHANGED <<files, option, data>>
    BY <1>10 DEF EndVacuum, TypeOK
  <2>3. op \notin files /\ data[op] = "untouched"
    BY <2>2 DEF OpInv, FileInv, ImportInv
  <2>4. /\ DOMAIN jobs' = DOMAIN jobs
        /\ op \in DOMAIN jobs => (jobs'[op].artifact <=> jobs[op].artifact)
    BY <1>1, <2>1 DEF Terminal
  <2> QED
    BY <2>2, <2>3, <2>4 DEF OpInv, FileInv, ImportInv
<1> QED
  BY <1>2, <1>3, <1>4, <1>5, <1>6, <1>7, <1>8, <1>9, <1>10 DEF Work

\* Of a request that is over, a step of another one leaves the record as it is
\* or evicts it.
LEMMA DownloadsNext ==
  ASSUME TypeOK, \A d \in Download : DownloadInv(d), NEW op \in Op,
         Accept(op) \/ Work(op), Alone(op), NEW d \in Download
  PROVE  DownloadInv(d)'
<1>1. dpc' = dpc /\ djob' = djob
  BY DEF Alone, readerVars
<1>2. ASSUME dpc[d] # "idle"
      PROVE  /\ djob[d] \in Op \ {op} /\ pc'[djob[d]] = "done"
             /\ RecordKept(djob[d])
  BY <1>2 DEF DownloadInv, Alone
<1> QED
  BY <1>1, <1>2 DEF DownloadInv, RecordKept

LEMMA LeftNext ==
  ASSUME Inductive, [Next]_vars
  PROVE  /\ \A op \in Op : FileInv(op)' /\ ImportInv(op)'
         /\ \A d \in Download : DownloadInv(d)'
<1> USE DEF storeVars, historyVars, timeVars, readerVars
<1>0. TypeOK /\ (\A q \in Op : OpInv(q)) /\ (\A d \in Download : DownloadInv(d))
  BY DEF Inductive, OpInv
<1>1. ASSUME NEW op \in Op, Accept(op) \/ Work(op)
      PROVE  (\A q \in Op : OpInv(q)') /\ (\A d \in Download : DownloadInv(d)')
  <2>1. Alone(op)
    BY <1>0, <1>1, StepsAlone
  <2>2. OpInv(op)'
    BY <1>0, <1>1, OpNext
  <2>3. \A q \in Op : OpInv(q)'
    BY <1>0, <1>1, <2>1, <2>2, OthersNext
  <2> QED
    BY <1>0, <1>1, <2>1, <2>3, DownloadsNext
<1>2. ASSUME UNCHANGED <<jobs, files, pc, option, data, cut>>
      PROVE  \A q \in Op : OpInv(q)'
  BY <1>0, <1>2 DEF OpInv, FileInv, ImportInv, Truncates
<1>3. ASSUME NEW d \in Download, GetArtifact(d)
      PROVE  \A e \in Download : DownloadInv(e)'
  <2>1. PICK j \in DOMAIN jobs : jobs[j].artifact /\ djob' = [djob EXCEPT ![d] = j]
    BY <1>3 DEF GetArtifact
  <2>2. j \in Op
    BY <1>0, DataAssumption DEF TypeOK, StoreTypeOK
  <2>3. pc[j] = "done"
    BY <1>0, <2>1, <2>2 DEF OpInv, FileInv
  <2> QED
    BY <1>0, <1>3, <2>1, <2>2, <2>3 DEF GetArtifact, DownloadInv, TypeOK
<1>4. ASSUME NEW d \in Download, ServeFile(d)
      PROVE  \A e \in Download : DownloadInv(e)'
  <2>1. djob[d] \in Op /\ (djob[d] \in DOMAIN jobs => djob[d] \in files)
    BY <1>0, <1>4 DEF ServeFile, DownloadInv, OpInv, FileInv
  <2> QED
    BY <1>0, <1>4, <2>1 DEF ServeFile, DownloadInv, TypeOK
<1>5. ASSUME NEW d \in Download, GetArtifact(d) \/ ServeFile(d)
      PROVE  (\A q \in Op : OpInv(q)') /\ (\A e \in Download : DownloadInv(e)')
  <2>1. UNCHANGED <<jobs, files, pc, option, data, cut>>
    BY <1>5 DEF GetArtifact, ServeFile
  <2> QED
    BY <1>2, <1>3, <1>4, <1>5, <2>1
<1>6. ASSUME UNCHANGED vars
      PROVE  (\A q \in Op : OpInv(q)') /\ (\A d \in Download : DownloadInv(d)')
  BY <1>0, <1>2, <1>6 DEF vars, DownloadInv
<1> QED
  BY <1>1, <1>5, <1>6 DEF Next, GoOn, Quiescent, OpInv
-----------------------------------------------------------------------------
(* The list and the clock *)

LEMMA TimeNext ==
  ASSUME Inductive, [Next]_vars
  PROVE  IndexInv' /\ TimeInv'
<1> USE DEF NotInserted
<1>0. TypeOK /\ StoreTypeOK /\ IndexInv /\ TimeInv /\ DOMAIN jobs \subseteq Op
  BY DataAssumption DEF Inductive, TypeOK, StoreTypeOK
<1>1. \A j \in DOMAIN jobs : pc[j] \notin NotInserted
  BY <1>0 DEF Inductive, FileInv
<1>2. ASSUME NEW op \in Op, Insert(op) PROVE IndexInv' /\ TimeInv'
  <2>1. /\ Start(op) /\ op \in JobId /\ pc[op] = "stamped"
        /\ UNCHANGED timeVars
        /\ \A j \in Op \ {op} : pc'[j] = pc[j]
    BY <1>0, <1>2, DataAssumption DEF Insert, Goto, TypeOK
  <2>2. op \notin DOMAIN jobs
    BY <1>1, <2>1
  <2>3. IndexInv'
    BY <1>0, <2>1, <2>2, StartIndex
  <2>4. ASSUME NEW k \in Op, NEW j \in earlier[k] PROVE j \in Op \ {op}
    BY <1>0, <2>1, <2>4 DEF TimeInv, TypeOK
  <2>5. \A k \in Op : \A j \in earlier'[k] :
          stamp'[j] <= stamp'[k] /\ pc'[j] \notin NotInserted
    BY <1>0, <2>1, <2>4 DEF TimeInv, timeVars
  <2>6. ASSUME NEW m \in DOMAIN order', NEW n \in DOMAIN order',
               order'[m] \in earlier'[order'[n]]
        PROVE  n < m
    <3>1. /\ DOMAIN order = 1 .. Len(order) /\ Len(order) \in Nat
          /\ DOMAIN order' = 1 .. Len(order') /\ Len(order') \in Nat
          /\ \A i \in DOMAIN order' :
               IF i = 1 THEN order'[i] = op
                        ELSE i - 1 \in DOMAIN order /\ order'[i] = order[i - 1]
      BY <1>0, <2>1, StartOrder
    <3>2. order'[n] \in Op
      BY <1>0, <2>1, <3>1, DataAssumption DEF StoreTypeOK
    <3>3. m # 1
      BY <2>1, <2>4, <2>6, <3>1, <3>2 DEF timeVars
    <3>4. CASE n = 1
      BY <3>1, <3>3, <3>4
    <3>5. CASE n # 1
      <4>1. n - 1 < m - 1
        BY <1>0, <2>1, <2>6, <3>1, <3>3, <3>5 DEF TimeInv, timeVars
      <4> QED
        BY <3>1, <4>1
    <3> QED
      BY <3>4, <3>5
  <2> QED
    BY <1>0, <2>1, <2>3, <2>5, <2>6 DEF TimeInv, timeVars
<1>3. ASSUME NEW op \in Op, Stamp(op) PROVE IndexInv' /\ TimeInv'
  <2>1. /\ pc[op] = "accepted" /\ UNCHANGED <<jobs, order>>
        /\ clock' \in {clock, clock + 1}
        /\ stamp' = [stamp EXCEPT ![op] = clock']
        /\ earlier' = [earlier EXCEPT ![op] = DOMAIN jobs]
        /\ pc' = [pc EXCEPT ![op] = "stamped"]
    BY <1>3 DEF Stamp, Goto, storeVars
  <2>2. clock \in Nat /\ clock' \in Nat /\ clock <= clock'
    BY <1>0, <2>1 DEF TypeOK
  <2>3. \A q \in Op : stamp[q] \in Nat /\ stamp[q] <= clock
    BY <1>0 DEF TypeOK, TimeInv
  <2>4. op \notin DOMAIN jobs
    BY <1>1, <2>1
  <2>5. \A q \in Op : stamp'[q] <= clock'
    BY <1>0, <2>1, <2>2, <2>3 DEF TypeOK
  <2>6. ASSUME NEW k \in Op, NEW j \in earlier'[k]
        PROVE  stamp'[j] <= stamp'[k] /\ pc'[j] \notin NotInserted
    <3>1. CASE k = op
      <4>1. j \in DOMAIN jobs /\ j \in Op /\ j # op
        BY <1>0, <2>1, <2>4, <2>6, <3>1 DEF TypeOK
      <4>2. stamp'[j] = stamp[j] /\ stamp'[k] = clock' /\ pc'[j] = pc[j]
        BY <1>0, <2>1, <3>1, <4>1 DEF TypeOK
      <4> QED
        BY <1>1, <2>2, <2>3, <4>1, <4>2
    <3>2. CASE k # op
      <4>1. j \in earlier[k] /\ j \in Op
        BY <1>0, <2>1, <2>6, <3>2 DEF TypeOK
      <4>2. pc[j] \notin NotInserted /\ stamp[j] <= stamp[k]
        BY <1>0, <4>1 DEF TimeInv
      <4>3. j # op
        BY <2>1, <4>2
      <4>4. stamp'[j] = stamp[j] /\ stamp'[k] = stamp[k] /\ pc'[j] = pc[j]
        BY <1>0, <2>1, <3>2, <4>1, <4>3 DEF TypeOK
      <4> QED
        BY <4>2, <4>4
    <3> QED
      BY <3>1, <3>2
  <2>7. ASSUME NEW m \in DOMAIN order', NEW n \in DOMAIN order',
               order'[m] \in earlier'[order'[n]]
        PROVE  n < m
    <3>1. order[n] \in DOMAIN jobs
      BY <1>0, <2>1 DEF IndexInv, Range
    <3>2. earlier'[order[n]] = earlier[order[n]]
      BY <1>0, <2>1, <2>4, <3>1 DEF TypeOK
    <3> QED
      BY <1>0, <2>1, <2>7, <3>2 DEF TimeInv
  <2>8. IndexInv'
    BY <1>0, <2>1 DEF IndexInv, Range
  <2> QED
    BY <2>5, <2>6, <2>7, <2>8 DEF TimeInv
<1>4. ASSUME DOMAIN jobs' = DOMAIN jobs, order' = order, UNCHANGED timeVars,
             \A q \in Op : pc'[q] \in NotInserted => pc[q] \in NotInserted
      PROVE  IndexInv' /\ TimeInv'
  <2>1. \A k \in Op : earlier[k] \subseteq Op
    BY <1>0 DEF TypeOK
  <2> QED
    BY <1>0, <1>4, <2>1 DEF IndexInv, TimeInv, Range, timeVars
<1>5. ASSUME NEW op \in Op, Accept(op) \/ Work(op), ~Insert(op), ~Stamp(op)
      PROVE  IndexInv' /\ TimeInv'
  <2>1. \A q \in Op : pc'[q] \in NotInserted => pc[q] \in NotInserted
    BY <1>0, <1>5, PlacesKept, StepsAlone DEF Alone
  <2> QED
    BY <1>0, <1>4, <1>5, <2>1, PlacesKept
<1>6. ASSUME NEW d \in Download, GetArtifact(d) \/ ServeFile(d)
      PROVE  IndexInv' /\ TimeInv'
  BY <1>4, <1>6 DEF GetArtifact, ServeFile, storeVars, historyVars
<1>7. ASSUME UNCHANGED vars PROVE IndexInv' /\ TimeInv'
  BY <1>4, <1>7 DEF vars, storeVars, timeVars
<1> QED
  BY <1>2, <1>3, <1>5, <1>6, <1>7 DEF Next, GoOn, Quiescent, Work

\* The inductive invariant: what the records, the goroutines, the files, the
\* rows that an import has put in and the clock of the list know of each other.
THEOREM InductiveHolds == Spec => []Inductive
<1>1. Inductive /\ [Next]_vars => Inductive'
  <2> SUFFICES ASSUME Inductive, [Next]_vars PROVE Inductive'
    OBVIOUS
  <2>1. TypeOK'
    BY TypeNext DEF Inductive
  <2> QED
    BY <2>1, LeftNext, TimeNext DEF Inductive
<1> QED
  BY <1>1, InductiveInit, PTL DEF Spec

\* database.go and jobs.go: a job that offers a file has it, a download misses
\* its file only when the job was evicted since, a file belongs to a job or to
\* the export at work, and an import in one transaction that fails has changed
\* nothing it was not told to truncate.
THEOREM LeavesWhatJobsSay == Spec => []WhatIsLeft
<1>1. ASSUME Inductive PROVE WhatIsLeft
  <2>1. DOMAIN jobs \subseteq Op /\ files \subseteq Op
    BY <1>1, DataAssumption DEF Inductive, TypeOK, StoreTypeOK
  <2>2. ArtifactBacked /\ FilesAccounted
    BY <1>1, <2>1 DEF Inductive, FileInv, ArtifactBacked, FilesAccounted
  <2>3. MissingExplained
    BY <1>1 DEF Inductive, DownloadInv, MissingExplained
  <2>4. FailedImportUndone
    BY <1>1, <2>1 DEF Inductive, ImportInv, FailedImportUndone
  <2> QED
    BY <1>1, <2>2, <2>3, <2>4 DEF Inductive, WhatIsLeft
<1> QED
  BY <1>1, InductiveHolds, PTL

\* The place of a listed job is where it stands, and a list has finitely many
\* jobs.
LEMMA Places ==
  ASSUME StoreTypeOK
  PROVE  /\ \A j \in Range(order) : Place(j) \in DOMAIN order /\ order[Place(j)] = j
         /\ DOMAIN order \subseteq Nat
         /\ IsFiniteSet(Range(order))
<1>1. DOMAIN order = 1 .. Len(order) /\ Len(order) \in Nat
  BY DEF StoreTypeOK
<1>2. ASSUME NEW j \in Range(order)
      PROVE  Place(j) \in DOMAIN order /\ order[Place(j)] = j
  <2>1. \E i \in DOMAIN order : order[i] = j
    BY DEF Range
  <2> QED
    BY <2>1 DEF Place
<1>3. order \in Surjection(DOMAIN order, Range(order))
  <2>1. order \in [DOMAIN order -> Range(order)]
    BY <1>1 DEF StoreTypeOK, Range
  <2> QED
    BY <2>1 DEF Surjection, Range
<1>4. IsFiniteSet(DOMAIN order)
  <2>1. 1 \in Int /\ Len(order) \in Int
    BY <1>1
  <2> QED
    BY <1>1, <2>1, FS_Interval
<1>5. IsFiniteSet(Range(order))
  BY <1>3, <1>4, FS_Surjection
<1> QED
  BY <1>1, <1>2, <1>5

\* jobs.go, List: the API's list of jobs respects real time, whatever kind and
\* limit it is asked for and however Starts overlap: of two jobs one of which
\* was in the store before the other was stamped, the newer is listed if the
\* older is, and in front of it.
THEOREM ListsByTime == Spec => []ListFollowsTime
<1>1. ASSUME Inductive, NEW k \in DOMAIN jobs, NEW j \in earlier[k],
             NEW kinds \in {Kind, {KindOf[k]}}, NEW limit \in 0 .. MaxJobs + 1,
             j \in Listed(kinds, limit)
      PROVE  k \in Listed(kinds, limit) /\ ListedBefore(k, j)
  <2> DEFINE Before(x) == {y \in Range(order) :
                             KindOf[y] \in kinds /\ Place(y) < Place(x)}
  <2>1. /\ TypeOK /\ StoreTypeOK /\ IndexInv /\ TimeInv
        /\ k \in Op /\ KindOf[k] \in kinds
    BY <1>1, DataAssumption DEF Inductive, TypeOK, StoreTypeOK
  <2>2. j \in Range(order) /\ k \in Range(order)
    BY <1>1, <2>1 DEF Listed, IndexInv
  <2>3. /\ Place(j) \in Nat /\ Place(k) \in Nat
        /\ Place(j) \in DOMAIN order /\ order[Place(j)] = j
        /\ Place(k) \in DOMAIN order /\ order[Place(k)] = k
        /\ \A x \in Range(order) : Place(x) \in Nat
    BY <2>1, <2>2, Places
  <2>4. Place(k) < Place(j)
    BY <1>1, <2>1, <2>3 DEF TimeInv
  <2>5. stamp[j] \in Nat /\ stamp[k] \in Nat /\ stamp[j] <= stamp[k]
    BY <1>1, <2>1 DEF TimeInv, TypeOK
  <2>6. Before(k) \subseteq Before(j) /\ Before(j) \subseteq Range(order)
    BY <2>3, <2>4
  <2>7. IsFiniteSet(Before(j))
    BY <2>1, <2>6, Places, FS_Subset
  <2>8. /\ Cardinality(Before(k)) <= Cardinality(Before(j))
        /\ Cardinality(Before(k)) \in Nat /\ Cardinality(Before(j)) \in Nat
    BY <2>6, <2>7, FS_Subset, FS_CardinalityType
  <2>9. Cardinality(Before(j)) < Limit(limit)
    BY <1>1 DEF Listed
  <2>10. Limit(limit) \in Nat
    BY StoreAssumption, DataAssumption DEF Limit
  <2>11. Cardinality(Before(k)) < Limit(limit)
    BY <2>8, <2>9, <2>10
  <2> QED
    BY <2>1, <2>2, <2>4, <2>5, <2>11 DEF Listed, ListedBefore
<1>2. Inductive => ListFollowsTime
  BY <1>1 DEF ListFollowsTime
<1> QED
  BY <1>2, InductiveHolds, PTL
=============================================================================
