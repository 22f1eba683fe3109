--------------------------- MODULE CollectRun_proofs ---------------------------
(***************************************************************************)
(* Proofs about CollectRun, and Compaction in it, for models of any number *)
(* of tables and whatever fails.                                           *)
(***************************************************************************)
EXTENDS CollectRun, DbSession_proofs

-----------------------------------------------------------------------------
(* The compaction.  Flushes are asked for in the order of the tables, and  *)
(* the tables before the one at hand have had all of their attempts, those *)
(* after it none.                                                          *)
CompactionInv ==
  /\ C!TypeOK
  /\ at = "begin" => table = 1
  /\ at \notin {"begin", "raised"} => ~colocated \/ tables > 0
  /\ at \in {"begin", "flush"} => retries = 1 /\ \A t \in 1..MaxTables : attempts[t] = 0
  /\ at = "flush" => \A t \in C!TablesToOptimize : t < table => t \in asked
  /\ at \in {"compact", "complete"} => C!TablesToOptimize \subseteq asked
  /\ at = "compact" => \A t \in C!TablesToOptimize :
       /\ t < table => t \in compacted \/ attempts[t] = C!MaxAttempts
       /\ t = table => attempts[t] = retries - 1
       /\ t > table => attempts[t] = 0
  /\ at = "complete" => C!EveryTableTried

LEMMA TablesListed ==
  ASSUME CompactionInv, at \notin {"begin", "raised"}
  PROVE  \E n \in Nat : n <= MaxTables /\ C!TablesToOptimize = 1..n
<1>1. tables \in Nat /\ tables <= MaxTables /\ MaxTables \in Nat
  BY CollectAssumption DEF CompactionInv, C!TypeOK
<1>2. CASE colocated
  <2>1. tables > 0 /\ C!TablesToOptimize = 1..1
    BY <1>2 DEF CompactionInv, C!TablesToOptimize
  <2> QED
    BY <1>1, <2>1
<1>3. CASE ~colocated
  <2>1. C!TablesToOptimize = 1..tables
    BY <1>3 DEF C!TablesToOptimize
  <2> QED
    BY <1>1, <2>1
<1> QED
  BY <1>2, <1>3

LEMMA TablesKept ==
  ASSUME UNCHANGED <<tables, colocated>>
  PROVE  C!TablesToOptimize' = C!TablesToOptimize
  BY DEF C!TablesToOptimize

LEMMA CompactionInit == C!Init => CompactionInv
<1> SUFFICES ASSUME C!Init PROVE CompactionInv
  OBVIOUS
<1>1. MaxTables \in Nat /\ C!MaxAttempts = 4
  BY CollectAssumption DEF C!MaxAttempts
<1>2. C!TypeOK
  BY <1>1 DEF C!Init, C!TypeOK
<1> QED
  BY <1>1, <1>2 DEF C!Init, CompactionInv

LEMMA CompactionFlushes ==
  ASSUME CompactionInv, C!Begin \/ C!Flush \/ C!Catalog
  PROVE  CompactionInv'
<1>0. /\ MaxTables \in Nat /\ C!MaxAttempts = 4 /\ C!TypeOK
      /\ tables \in 0..MaxTables /\ table \in 1..(MaxTables + 1)
  BY CollectAssumption DEF C!MaxAttempts, CompactionInv, C!TypeOK
<1>1. CASE C!Begin
  <2>1. /\ at = "begin" /\ table = 1 /\ at' \in {"raised", "flush"}
        /\ at' = "flush" => ~colocated \/ tables # 0
        /\ UNCHANGED <<tables, colocated, table, retries, asked, attempts, compacted>>
    BY <1>1 DEF C!Begin, CompactionInv
  <2>2. C!TypeOK'
    BY <1>0, <2>1 DEF C!TypeOK
  <2>3. \A t \in C!TablesToOptimize : ~(t < 1)
    BY <1>0 DEF C!TablesToOptimize
  <2>4. C!TablesToOptimize' = C!TablesToOptimize
    BY <2>1, TablesKept
  <2> QED
    BY <1>0, <2>1, <2>2, <2>3, <2>4 DEF CompactionInv
<1>2. CASE C!Flush /\ at' = "raised"
  <2>1. /\ at = "flush"
        /\ UNCHANGED <<tables, colocated, retries, attempts, compacted>>
        /\ asked' = asked /\ table' = table
    BY <1>2 DEF C!Flush
  <2>2. C!TypeOK'
    BY <1>0, <1>2, <2>1 DEF C!TypeOK
  <2> QED
    BY <1>2, <2>2 DEF CompactionInv
<1>3. CASE C!Flush /\ at' # "raised"
  <2>1. /\ at = "flush" /\ at' = "flush" /\ table \in C!TablesToOptimize
        /\ asked' = asked \cup {table} /\ table' = table + 1
        /\ UNCHANGED <<tables, colocated, retries, attempts, compacted>>
    BY <1>3 DEF C!Flush
  <2>2. PICK n \in Nat : n <= MaxTables /\ C!TablesToOptimize = 1..n
    BY <2>1, TablesListed
  <2>3. table \in 1..MaxTables
    BY <1>0, <2>1, <2>2
  <2>4. C!TypeOK'
    BY <1>0, <2>1, <2>3 DEF C!TypeOK
  <2>5. C!TablesToOptimize' = 1..n
    BY <2>1, <2>2, TablesKept
  <2>6. \A t \in 1..n : t < table + 1 => t \in asked'
    <3>1. ASSUME NEW t \in 1..n, t < table + 1 PROVE t < table \/ t = table
      BY <2>3, <3>1
    <3>2. \A t \in 1..n : t < table => t \in asked
      BY <2>1, <2>2 DEF CompactionInv
    <3> QED
      BY <2>1, <3>1, <3>2
  <2> QED
    BY <2>1, <2>4, <2>5, <2>6 DEF CompactionInv
<1>4. CASE C!Catalog
  <2>1. /\ at = "flush" /\ at' \in {"compact", "raised"} /\ table \notin C!TablesToOptimize
        /\ table' = 1
        /\ UNCHANGED <<tables, colocated, retries, asked, attempts, compacted>>
    BY <1>4 DEF C!Catalog
  <2>2. PICK n \in Nat : n <= MaxTables /\ C!TablesToOptimize = 1..n
    BY <2>1, TablesListed
  <2>3. C!TypeOK'
    BY <1>0, <2>1 DEF C!TypeOK
  <2>4. C!TablesToOptimize' = 1..n
    BY <2>1, <2>2, TablesKept
  <2>5. \A t \in 1..n : t \in asked
    <3>1. ASSUME NEW t \in 1..n PROVE t < table
      BY <1>0, <2>1, <2>2
    <3> QED
      BY <2>1, <2>2, <3>1 DEF CompactionInv
  <2>6. retries = 1 /\ \A t \in 1..n : attempts[t] = 0 /\ t \in Nat /\ t >= 1
    BY <1>0, <2>1, <2>2 DEF CompactionInv
  <2> QED
    BY <2>1, <2>3, <2>4, <2>5, <2>6 DEF CompactionInv
<1> QED
  BY <1>1, <1>2, <1>3, <1>4

LEMMA CompactionAttempts ==
  ASSUME CompactionInv, C!Compact
  PROVE  CompactionInv'
<1>0. /\ MaxTables \in Nat /\ C!MaxAttempts = 4 /\ C!TypeOK
      /\ table \in 1..(MaxTables + 1) /\ retries \in 1..4
      /\ attempts \in [1..MaxTables -> 0..5]
  BY CollectAssumption DEF C!MaxAttempts, CompactionInv, C!TypeOK
<1>1. /\ at = "compact" /\ at' = "compact" /\ table \in C!TablesToOptimize
      /\ attempts' = [attempts EXCEPT ![table] = IF @ < 5 THEN @ + 1 ELSE @]
      /\ UNCHANGED <<tables, colocated, asked>>
  BY <1>0 DEF C!Compact
<1>2. PICK n \in Nat : n <= MaxTables /\ C!TablesToOptimize = 1..n
  BY <1>1, TablesListed
<1>3. C!TablesToOptimize' = 1..n
  BY <1>1, <1>2, TablesKept
<1>4. table \in 1..n /\ table \in 1..MaxTables
  BY <1>0, <1>1, <1>2
<1>5. /\ attempts' \in [1..MaxTables -> 0..5]
      /\ attempts'[table] = retries
      /\ \A t \in 1..n : t # table => attempts'[t] = attempts[t]
  <2>1. attempts[table] = retries - 1
    BY <1>1, <1>2, <1>4 DEF CompactionInv
  <2>2. \A t \in 1..n : t \in 1..MaxTables
    BY <1>0, <1>2
  <2> QED
    BY <1>0, <1>1, <1>4, <2>1, <2>2
<1>6. \A t \in 1..n : /\ t \in asked
                      /\ t < table => t \in compacted \/ attempts'[t] = 4
                      /\ t > table => attempts'[t] = 0
  <2>1. \A t \in 1..n : t < table \/ t > table => t # table
    BY <1>0
  <2> QED
    BY <1>0, <1>1, <1>2, <1>5, <2>1 DEF CompactionInv
<1> DEFINE Tried == compacted' = compacted \cup {table} \/ (compacted' = compacted /\ retries = 4)
<1>7. CASE table' = table + 1 /\ retries' = 1 /\ Tried
  <2>1. C!TypeOK'
    <3>1. compacted' \in SUBSET (1..MaxTables)
      BY <1>0, <1>4, <1>7 DEF C!TypeOK
    <3>2. table' \in 1..(MaxTables + 1) /\ retries' \in 1..4
      BY <1>0, <1>4, <1>7
    <3> QED
      BY <1>0, <1>1, <1>5, <3>1, <3>2 DEF C!TypeOK
  <2>2. ASSUME NEW t \in 1..n
        PROVE  /\ t < table + 1 => t \in compacted' \/ attempts'[t] = 4
               /\ t = table + 1 => attempts'[t] = 0
               /\ t > table + 1 => attempts'[t] = 0
    <3>1. t < table + 1 => t < table \/ t = table
      BY <1>4
    <3>2. t < table => t \in compacted' \/ attempts'[t] = 4
      BY <1>6, <1>7
    <3>3. t = table => t \in compacted' \/ attempts'[t] = 4
      BY <1>5, <1>7
    <3>4. t >= table + 1 => t > table
      BY <1>4
    <3> QED
      BY <1>4, <1>6, <3>1, <3>2, <3>3, <3>4
  <2> QED
    BY <1>0, <1>1, <1>3, <1>6, <1>7, <2>1, <2>2 DEF CompactionInv, C!MaxAttempts
<1>8. CASE table' = table /\ retries < 4 /\ retries' = retries + 1 /\ compacted' = compacted
  <2>1. C!TypeOK'
    BY <1>0, <1>1, <1>5, <1>8 DEF C!TypeOK
  <2>2. attempts'[table] = retries' - 1
    BY <1>0, <1>5, <1>8
  <2> QED
    BY <1>0, <1>1, <1>3, <1>6, <1>8, <2>1, <2>2 DEF CompactionInv, C!MaxAttempts
<1>9. \/ table' = table + 1 /\ retries' = 1 /\ Tried
      \/ table' = table /\ retries < 4 /\ retries' = retries + 1 /\ compacted' = compacted
  BY <1>0 DEF C!Compact, C!NextTable, C!AfterFailure
<1> QED
  BY <1>7, <1>8, <1>9

LEMMA CompactionNext ==
  ASSUME CompactionInv, C!Next
  PROVE  CompactionInv'
<1>1. CASE C!End
  <2>1. /\ at = "compact" /\ at' = "complete" /\ table \notin C!TablesToOptimize
        /\ UNCHANGED <<tables, colocated, table, retries, asked, attempts, compacted>>
    BY <1>1 DEF C!End
  <2>2. PICK n \in Nat : n <= MaxTables /\ C!TablesToOptimize = 1..n
    BY <2>1, TablesListed
  <2>3. C!TablesToOptimize' = 1..n
    BY <2>1, <2>2, TablesKept
  <2>4. ASSUME NEW t \in 1..n PROVE t < table
    <3>1. table \in Nat /\ table >= 1 /\ table \notin 1..n
      BY <2>1, <2>2, CollectAssumption DEF CompactionInv, C!TypeOK
    <3> QED
      BY <3>1
  <2>5. \A t \in 1..n : t \in asked /\ (t \in compacted \/ attempts[t] = C!MaxAttempts)
    BY <2>1, <2>2, <2>4 DEF CompactionInv
  <2>6. C!EveryTableTried'
    BY <2>1, <2>3, <2>5 DEF C!EveryTableTried, C!MaxAttempts
  <2>7. C!TypeOK'
    BY <2>1 DEF CompactionInv, C!TypeOK
  <2>8. ~colocated \/ tables > 0
    BY <2>1 DEF CompactionInv
  <2> QED
    BY <2>1, <2>3, <2>5, <2>6, <2>7, <2>8 DEF CompactionInv
<1> QED
  BY <1>1, CompactionFlushes, CompactionAttempts DEF C!Next

-----------------------------------------------------------------------------
(* Types. *)

(* A statement in autocommit mode leaves no transaction, and what was not  *)
(* executed was cancelled or is flagged.                                   *)
LEMMA AutocommittedReplies ==
  ASSUME NEW s \in {Fresh, Lost}, NEW e \in BOOLEAN, NEW r \in Autocommitted(s, FALSE, e)
  PROVE  /\ r.session \in {Fresh, Lost} /\ r.flags \in SUBSET Flags
         /\ r.raised \in Exceptions \cup {"none"} /\ r.rows \in BOOLEAN
         /\ r.rows => r.raised = "none"
         /\ ~r.rows => r.raised = "QueryCanceled" \/ "failure" \in r.flags
<1>1. RolledBack(s) \in {Fresh, Lost} /\ Flagged(FALSE) = {"failure"}
  BY DEF RolledBack, Fresh, Lost, Flagged
<1>2. r \in Replies
  <2>1. s \in Session /\ r \in EvaluateSql(s, s, FALSE, e) /\ FALSE \in BOOLEAN
    BY SessionTypes DEF Autocommitted
  <2> QED
    BY <2>1, EvaluateSqlReplies
<1>3. \/ r = Reply(s, {}, "none", TRUE)
      \/ r = Reply(RolledBack(s), {}, "QueryCanceled", FALSE)
      \/ \E t \in {Fresh, Lost} : \E x : r = Reply(t, {"failure"}, x, FALSE)
  BY <1>1 DEF Autocommitted, EvaluateSql, Unflagged, Swallowed, Reraised
<1> QED
  BY <1>1, <1>2, <1>3 DEF Reply, Replies

(* A step goes on with some other, or raises. *)
Proceeds ==
  \/ \E next \in Steps : GoOn(next)
  \/ \E x \in {"exception", "SystemExit"} : Raise(x)

LEMMA ProceedsTypes ==
  ASSUME TypeOK, Proceeds
  PROVE  /\ pc' \in Steps /\ raised' \in {"none", "exception", "SystemExit"}
         /\ failedAt' \in Steps \cup {"none"}
  BY DEF Proceeds, GoOn, Raise, AfterRaise, TypeOK, Steps

LEMMA CompactionKeepsTypes ==
  ASSUME TypeOK, UNCHANGED compaction
  PROVE  C!TypeOK'
  BY DEF TypeOK, compaction, C!TypeOK

(* What the steps but for the compaction do to the types. *)
LEMMA TypesKept ==
  ASSUME TypeOK, Proceeds, UNCHANGED <<config, queries, compaction>>,
         server' \in BOOLEAN, database' \in BOOLEAN,
         connection' \in {"none", "postgres", "test"}, session' \in {Fresh, Lost},
         flags' \in SUBSET Flags, stored' \in BOOLEAN,
         dropFailed' \in {"none", "failed", "cancelled"}, code' = code
  PROVE  TypeOK'
<1>1. C!TypeOK'
  BY CompactionKeepsTypes
<1> QED
  BY <1>1, ProceedsTypes DEF TypeOK

LEMMA TypesInit == Init => TypeOK
<1> SUFFICES ASSUME Init PROVE TypeOK
  OBVIOUS
<1>1. C!TypeOK
  BY CompactionInit DEF Init, CompactionInv
<1> QED
  BY <1>1 DEF Init, TypeOK, Steps, Flags

(* Up to the results. *)
LEMMA TypesUnderway ==
  ASSUME TypeOK, CompactionInv',
         StartDb \/ ConnectToCreate \/ SkipCreate \/ CreateDatabase \/ ConnectToTest \/
         Describe \/ LoadModel \/ Compact \/ EvaluateQueries \/ Store
  PROVE  TypeOK'
<1> USE DEF fixed, Steps
<1>0. /\ config.exits \in BOOLEAN /\ server \in BOOLEAN /\ database \in BOOLEAN
      /\ connection \in {"none", "postgres", "test"} /\ session \in {Fresh, Lost}
      /\ flags \in SUBSET Flags /\ stored \in BOOLEAN /\ queries \in BOOLEAN
      /\ dropFailed \in {"none", "failed", "cancelled"}
  BY DEF TypeOK, Config
<1>1. CASE StartDb
  <2>1. Proceeds /\ server' \in BOOLEAN /\ database' \in BOOLEAN
    BY <1>0, <1>1 DEF StartDb, Proceeds
  <2>2. UNCHANGED <<connection, session, flags, config, queries, stored, dropFailed, code,
                    compaction>>
    BY <1>1 DEF StartDb
  <2> QED
    BY <1>0, <2>1, <2>2, TypesKept
<1>2. ASSUME NEW step, NEW to \in {"postgres", "test"}, NEW next \in Steps,
             Connect(step, to, next)
      PROVE  TypeOK'
  <2>1. Proceeds /\ session' \in {Fresh, Lost} /\ connection' \in {"none", "postgres", "test"}
    BY <1>2 DEF Connect, Proceeds
  <2>2. UNCHANGED <<server, database, flags, config, queries, stored, dropFailed, code,
                    compaction>>
    BY <1>2 DEF Connect
  <2> QED
    BY <1>0, <2>1, <2>2, TypesKept
<1>3. CASE ConnectToCreate \/ ConnectToTest
  BY <1>2, <1>3 DEF ConnectToCreate, ConnectToTest
<1>4. CASE SkipCreate
  <2>1. Proceeds
    BY <1>4 DEF SkipCreate, Proceeds
  <2>2. UNCHANGED <<server, database, connection, session, flags, config, queries, stored,
                    dropFailed, code, compaction>>
    BY <1>4 DEF SkipCreate
  <2> QED
    BY <1>0, <2>1, <2>2, TypesKept
<1>5. CASE CreateDatabase
  <2>1. UNCHANGED <<server, connection, config, queries, stored, dropFailed, code, compaction>>
    BY <1>5 DEF CreateDatabase
  <2>2. CASE session' = Fresh /\ GoOn("connect") /\ UNCHANGED <<database, flags>>
    <3>1. Proceeds
      BY <2>2 DEF Proceeds
    <3> QED
      BY <1>0, <2>1, <2>2, <3>1, TypesKept
  <2>3. CASE ~(session' = Fresh /\ GoOn("connect") /\ UNCHANGED <<database, flags>>)
    <3>1. PICK r \in Autocommitted(session, FALSE, config.exits) :
            /\ Took(r)
            /\ database' \in IF r.rows THEN {TRUE} ELSE Unanswered(r, TRUE)
            /\ IF r.raised = "SystemExit" THEN Raise("SystemExit") ELSE GoOn("connect")
      BY <1>5, <2>3 DEF CreateDatabase
    <3>2. session' \in {Fresh, Lost} /\ flags' \in SUBSET Flags /\ database' \in BOOLEAN
      BY <1>0, <3>1, AutocommittedReplies DEF Took, Unanswered
    <3>3. Proceeds
      BY <3>1 DEF Proceeds
    <3> QED
      BY <1>0, <2>1, <3>2, <3>3, TypesKept
  <2> QED
    BY <2>2, <2>3
<1>6. CASE Describe
  <2>1. PICK r \in Autocommitted(session, FALSE, config.exits) :
          /\ Took(r)
          /\ IF Fetched(r) = "none" THEN GoOn("load")
             ELSE IF r.raised = "SystemExit" THEN Raise("SystemExit") ELSE Raise("exception")
    BY <1>6 DEF Describe
  <2>2. session' \in {Fresh, Lost} /\ flags' \in SUBSET Flags
    BY <1>0, <2>1, AutocommittedReplies DEF Took
  <2>3. Proceeds
    BY <2>1 DEF Proceeds
  <2>4. UNCHANGED <<server, database, connection, config, queries, stored, dropFailed, code,
                    compaction>>
    BY <1>6 DEF Describe
  <2> QED
    BY <1>0, <2>2, <2>3, <2>4, TypesKept
<1>7. CASE LoadModel \/ EvaluateQueries
  <2>1. session' \in {Fresh, Lost} /\ flags' \in SUBSET Flags
    BY <1>0, <1>7 DEF LoadModel, EvaluateQueries
  <2>2. Proceeds
    BY <1>7 DEF LoadModel, EvaluateQueries, Proceeds
  <2>3. UNCHANGED <<server, database, connection, config, queries, stored, dropFailed, code,
                    compaction>>
    BY <1>7 DEF LoadModel, EvaluateQueries
  <2> QED
    BY <1>0, <2>1, <2>2, <2>3, TypesKept
<1>8. CASE Compact
  <2>1. Proceeds
    BY <1>8 DEF Compact, Proceeds
  <2>2. UNCHANGED <<config, server, database, connection, session, flags, queries, stored,
                    dropFailed, code>>
    BY <1>8 DEF Compact
  <2>3. C!TypeOK'
    BY DEF CompactionInv
  <2> QED
    BY <2>1, <2>2, <2>3, ProceedsTypes DEF TypeOK
<1>9. CASE Store
  <2>1. Proceeds /\ stored' \in BOOLEAN
    BY <1>0, <1>9 DEF Store, Proceeds
  <2>2. UNCHANGED <<config, server, database, connection, session, flags, queries,
                    dropFailed, code, compaction>>
    BY <1>9 DEF Store
  <2> QED
    BY <1>0, <2>1, <2>2, TypesKept
<1> QED
  BY <1>1, <1>3, <1>4, <1>5, <1>6, <1>7, <1>8, <1>9

(* The finally clause and the end. *)
LEMMA TypesFinally ==
  ASSUME TypeOK,
         Finally \/ Close \/ ConnectToDrop \/ DropDatabase \/ StopDatabase \/ Exit \/
         UNCHANGED vars
  PROVE  TypeOK'
<1> USE DEF fixed, Steps, Cleanup
<1>0. /\ config.exits \in BOOLEAN /\ server \in BOOLEAN /\ database \in BOOLEAN
      /\ connection \in {"none", "postgres", "test"} /\ session \in {Fresh, Lost}
      /\ flags \in SUBSET Flags /\ stored \in BOOLEAN /\ queries \in BOOLEAN
      /\ dropFailed \in {"none", "failed", "cancelled"}
  BY DEF TypeOK, Config
<1>1. CASE Finally
  <2>1. UNCHANGED <<server, database, connection, session, flags, raised, failedAt, config,
                    queries, stored, dropFailed, code, compaction>> /\ pc' \in {"close", "exit"}
    BY <1>1 DEF Finally
  <2>2. Proceeds
    BY <2>1 DEF Proceeds, GoOn
  <2> QED
    BY <1>0, <2>1, <2>2, TypesKept
<1>2. CASE Close
  <2>1. UNCHANGED <<server, database, connection, flags, config, queries, stored, dropFailed,
                    code, compaction>> /\ session' = Lost
    BY <1>2 DEF Close
  <2>2. Proceeds
    BY <1>2 DEF Proceeds, Close
  <2> QED
    BY <1>0, <2>1, <2>2, TypesKept
<1>3. CASE ConnectToDrop
  <2>1. Proceeds /\ session' \in {Fresh, Lost} /\ connection' \in {"none", "postgres"}
    BY <1>3 DEF ConnectToDrop, Connect, Proceeds
  <2>2. UNCHANGED <<server, database, flags, config, queries, stored, dropFailed, code,
                    compaction>>
    BY <1>3 DEF ConnectToDrop, Connect
  <2> QED
    BY <1>0, <2>1, <2>2, TypesKept
<1>4. CASE DropDatabase
  <2>1. PICK r \in Autocommitted(session, FALSE, config.exits) :
          /\ Took(r)
          /\ database' \in IF r.rows THEN {FALSE} ELSE Unanswered(r, FALSE)
          /\ dropFailed' = IF r.rows THEN "none"
                           ELSE IF r.raised = "QueryCanceled" THEN "cancelled" ELSE "failed"
          /\ IF r.raised = "SystemExit" THEN Raise("SystemExit") ELSE GoOn("stop")
    BY <1>4 DEF DropDatabase, DropReplies
  <2>2. session' \in {Fresh, Lost} /\ flags' \in SUBSET Flags /\ database' \in BOOLEAN
    BY <1>0, <2>1, AutocommittedReplies DEF Took, Unanswered
  <2>3. Proceeds
    BY <2>1 DEF Proceeds
  <2>4. UNCHANGED <<config, server, connection, queries, stored, code, compaction>>
    BY <1>4 DEF DropDatabase
  <2> QED
    BY <1>0, <2>1, <2>2, <2>3, <2>4, TypesKept
<1>5. CASE StopDatabase
  <2>1. Proceeds /\ server' \in BOOLEAN
    BY <1>0, <1>5 DEF StopDatabase, Proceeds
  <2>2. UNCHANGED <<database, connection, session, flags, config, queries, stored, dropFailed,
                    code, compaction>>
    BY <1>5 DEF StopDatabase
  <2> QED
    BY <1>0, <2>1, <2>2, TypesKept
<1>6. CASE Exit
  <2>1. C!TypeOK'
    BY <1>6, CompactionKeepsTypes DEF Exit
  <2> QED
    BY <1>6, <2>1 DEF Exit, ExitCode, TypeOK
<1>7. CASE UNCHANGED vars
  <2>1. UNCHANGED compaction
    BY <1>7 DEF vars
  <2>2. C!TypeOK'
    BY <2>1, CompactionKeepsTypes
  <2> QED
    BY <1>7, <2>2 DEF vars, TypeOK
<1> QED
  BY <1>1, <1>2, <1>3, <1>4, <1>5, <1>6, <1>7

(* Only Compact changes what belongs to the compaction. *)
LEMMA CompactionStep ==
  ASSUME [Next]_vars
  PROVE  Compact \/ UNCHANGED compaction
  BY DEF Next, vars, fixed, StartDb, ConnectToCreate, SkipCreate, CreateDatabase,
         ConnectToTest, Connect, Describe, LoadModel, EvaluateQueries, Store, Finally, Close,
         ConnectToDrop, DropDatabase, StopDatabase, Exit, Ended

LEMMA CompactionInvNext == CompactionInv /\ [Next]_vars => CompactionInv'
<1> SUFFICES ASSUME CompactionInv, [Next]_vars PROVE CompactionInv'
  OBVIOUS
<1>1. CASE Compact
  BY <1>1, CompactionNext DEF Compact
<1>2. CASE UNCHANGED compaction
  <2>1. UNCHANGED <<tables, colocated, at, table, retries, asked, attempts, compacted>>
    BY <1>2 DEF compaction
  <2>2. C!TablesToOptimize' = C!TablesToOptimize
    BY <2>1, TablesKept
  <2> QED
    BY <2>1, <2>2 DEF CompactionInv, C!TypeOK, C!EveryTableTried
<1> QED
  BY <1>1, <1>2, CompactionStep

LEMMA AlwaysTyped == Spec => [](TypeOK /\ CompactionInv)
<1>1. Init => TypeOK /\ CompactionInv
  BY TypesInit, CompactionInit DEF Init
<1>2. TypeOK /\ CompactionInv /\ [Next]_vars => TypeOK' /\ CompactionInv'
  BY CompactionInvNext, TypesUnderway, TypesFinally DEF Next, Ended
<1> QED
  BY <1>1, <1>2, PTL DEF Spec

(* Every variable of a collect run keeps its type: the compaction takes    *)
(* its place among tables and attempts from loops that stay in bounds.     *)
THEOREM CollectTypes == Spec => []TypeOK
  BY AlwaysTyped, PTL

-----------------------------------------------------------------------------
(* The run.  What the exit code, the results and the test database tell at *)
(* the end is known at every step before it.                               *)

Underway == Steps \ (Cleanup \cup {"finally", "exit", "ended"})

(* A run with no failure that has dropped the test database.               *)
Dropped ==
  config.clean /\ raised = "none" /\ "failure" \notin flags =>
    ~database \/ dropFailed = "cancelled"

RunInv ==
  /\ (raised = "none") <=> (failedAt = "none")
  /\ pc \in Underway => raised = "none" /\ ~stored
  /\ pc \notin Underway => (stored <=> (queries /\ failedAt \in Cleanup \cup {"none"}))
  /\ pc = "ended" => code = ExitCode
  /\ pc # "ended" => code = -1
  /\ pc \in {"stop", "exit", "ended"} => Dropped
  /\ config.compact /\ (pc \in {"evaluate", "store"} \/ stored) => at = "complete"

LEMMA RunInit == Init => RunInv
  BY DEF Init, RunInv, Underway, Steps, Cleanup

LEMMA UnderwayGoesOn ==
  ASSUME RunInv, pc \in Underway, NEW next \in Underway, GoOn(next),
         UNCHANGED <<config, queries, stored, code>>,
         config.compact /\ next \in {"evaluate", "store"} => at' = "complete"
  PROVE  RunInv'
<1>1. /\ pc' = next /\ raised = "none" /\ raised' = raised /\ failedAt' = failedAt
      /\ ~stored /\ code = -1 /\ next \notin {"stop", "exit", "ended"}
  BY DEF GoOn, RunInv, Underway, Cleanup
<1> QED
  BY <1>1 DEF RunInv, Underway

LEMMA UnderwayFails ==
  ASSUME TypeOK, RunInv, pc \in Underway, NEW x \in {"exception", "SystemExit"}, Raise(x),
         UNCHANGED <<config, queries, code>>, stored' = FALSE
  PROVE  RunInv'
<1>1. /\ pc' \in {"finally", "exit"} /\ raised' = x /\ failedAt' = pc
      /\ pc \notin Cleanup /\ pc # "none" /\ code = -1
  BY DEF Raise, AfterRaise, RunInv, Underway, Cleanup, Steps
<1>2. pc' \notin Underway
  BY <1>1 DEF Underway
<1> QED
  BY <1>1, <1>2 DEF RunInv, Dropped, Cleanup

LEMMA CleanupGoesOn ==
  ASSUME RunInv, pc \in Cleanup \cup {"finally"},
         NEW next \in Cleanup \cup {"exit"}, GoOn(next),
         UNCHANGED <<config, queries, stored, code, at>>,
         next \in {"stop", "exit"} => Dropped'
  PROVE  RunInv'
<1>1. /\ pc' = next /\ raised' = raised /\ failedAt' = failedAt /\ code = -1
      /\ next # "ended" /\ pc \notin Underway /\ pc' \notin Underway
  BY DEF GoOn, RunInv, Underway, Cleanup
<1>2. pc' \notin {"evaluate", "store"}
  BY <1>1 DEF Cleanup
<1> QED
  BY <1>1, <1>2 DEF RunInv

LEMMA CleanupFails ==
  ASSUME RunInv, pc \in Cleanup, NEW x \in {"exception", "SystemExit"}, Raise(x),
         UNCHANGED <<config, queries, stored, code, at>>
  PROVE  RunInv'
<1>1. /\ pc' = "exit" /\ raised' = x /\ code = -1 /\ pc # "none"
      /\ failedAt' \in Cleanup \cup {"none"} <=> failedAt \in Cleanup \cup {"none"}
      /\ failedAt' # "none"
  BY DEF Raise, AfterRaise, RunInv, Cleanup
<1>2. pc \notin Underway /\ pc' \notin Underway
  BY <1>1 DEF Underway
<1> QED
  BY <1>1, <1>2 DEF RunInv, Dropped

LEMMA UnderwayStep ==
  ASSUME TypeOK, RunInv,
         StartDb \/ ConnectToCreate \/ SkipCreate \/ CreateDatabase \/ ConnectToTest \/
         Describe \/ LoadModel \/ Compact \/ EvaluateQueries
  PROVE  RunInv'
<1> DEFINE Loading == {"connectCreate", "create", "connect", "describe", "load"}
<1>0. Loading \cup {"start", "compact", "evaluate", "store"} = Underway
  BY DEF Underway, Steps, Cleanup
<1>1. ASSUME pc \in Underway, UNCHANGED <<config, queries, stored, code>>,
             \/ \E next \in Loading : GoOn(next)
             \/ \E x \in {"exception", "SystemExit"} : Raise(x)
      PROVE  RunInv'
  <2>1. stored' = FALSE
    BY <1>1 DEF RunInv, TypeOK
  <2>2. ASSUME NEW next \in Loading, GoOn(next) PROVE RunInv'
    BY <1>0, <1>1, <2>2, UnderwayGoesOn
  <2>3. ASSUME NEW x \in {"exception", "SystemExit"}, Raise(x) PROVE RunInv'
    BY <1>1, <2>1, <2>3, UnderwayFails
  <2> QED
    BY <1>1, <2>2, <2>3
<1>2. CASE StartDb
  BY <1>0, <1>1, <1>2 DEF StartDb, fixed
<1>3. CASE ConnectToCreate \/ ConnectToTest
  <2>1. pc \in {"connectCreate", "connect"}
    BY <1>3 DEF ConnectToCreate, ConnectToTest, Connect
  <2>2. GoOn("create") \/ GoOn("describe") \/ Raise("exception")
    BY <1>3 DEF ConnectToCreate, ConnectToTest, Connect
  <2>3. UNCHANGED <<config, queries, stored, code>>
    BY <1>3 DEF ConnectToCreate, ConnectToTest, Connect, fixed
  <2> QED
    BY <1>0, <1>1, <2>1, <2>2, <2>3
<1>4. CASE SkipCreate
  BY <1>0, <1>1, <1>4 DEF SkipCreate, fixed
<1>5. CASE CreateDatabase
  <2>1. pc = "create" /\ (GoOn("connect") \/ Raise("SystemExit"))
    BY <1>5 DEF CreateDatabase
  <2> QED
    BY <1>0, <1>1, <1>5, <2>1 DEF CreateDatabase, fixed
<1>6. CASE Describe
  <2>1. pc = "describe" /\ (GoOn("load") \/ Raise("SystemExit") \/ Raise("exception"))
    BY <1>6 DEF Describe
  <2> QED
    BY <1>0, <1>1, <1>6, <2>1 DEF Describe, fixed
<1>7. CASE LoadModel
  <2>1. /\ pc = "load"
        /\ GoOn(IF config.compact THEN "compact" ELSE "evaluate") \/ Raise("SystemExit")
    BY <1>7 DEF LoadModel
  <2>2. UNCHANGED <<config, queries, stored, code>>
    BY <1>7 DEF LoadModel, fixed
  <2>3. CASE Raise("SystemExit")
    BY <1>0, <1>1, <2>1, <2>2, <2>3
  <2>4. CASE GoOn("compact")
    BY <1>0, <2>1, <2>2, <2>4, UnderwayGoesOn
  <2>5. CASE ~config.compact /\ GoOn("evaluate")
    BY <1>0, <2>1, <2>2, <2>5, UnderwayGoesOn
  <2> QED
    BY <2>1, <2>3, <2>4, <2>5
<1>8. CASE Compact
  <2>1. /\ pc = "compact" /\ UNCHANGED <<config, queries, stored, code>>
        /\ GoOn("compact") \/ (at' = "complete" /\ GoOn("evaluate")) \/ Raise("SystemExit")
    BY <1>8 DEF Compact
  <2>2. CASE Raise("SystemExit")
    BY <1>0, <1>1, <2>1, <2>2
  <2>3. CASE GoOn("compact")
    BY <1>0, <2>1, <2>3, UnderwayGoesOn
  <2>4. CASE at' = "complete" /\ GoOn("evaluate")
    BY <1>0, <2>1, <2>4, UnderwayGoesOn
  <2> QED
    BY <2>1, <2>2, <2>3, <2>4
<1>9. CASE EvaluateQueries
  <2>1. /\ pc = "evaluate"
        /\ GoOn("store") \/ Raise("SystemExit") \/ Raise("exception")
    BY <1>9 DEF EvaluateQueries
  <2>2. UNCHANGED <<config, queries, stored, code, at>>
    BY <1>9 DEF EvaluateQueries, fixed, compaction
  <2>3. CASE GoOn("store")
    <3>1. config.compact => at' = "complete"
      BY <2>1, <2>2 DEF RunInv
    <3> QED
      BY <1>0, <2>1, <2>2, <2>3, <3>1, UnderwayGoesOn
  <2> QED
    BY <1>0, <1>1, <2>1, <2>2, <2>3
<1> QED
  BY <1>2, <1>3, <1>4, <1>5, <1>6, <1>7, <1>8, <1>9

LEMMA StoreStep == ASSUME TypeOK, RunInv, Store PROVE RunInv'
<1>1. /\ pc = "store" /\ pc \in Underway /\ raised = "none" /\ failedAt = "none" /\ code = -1
      /\ config.compact => at = "complete"
      /\ UNCHANGED <<config, queries, code, at>>
  BY DEF Store, RunInv, Underway, Steps, Cleanup, compaction
<1>2. CASE stored' = queries /\ GoOn("finally")
  <2>1. pc' = "finally" /\ pc' \notin Underway /\ raised' = "none" /\ failedAt' = "none"
    BY <1>1, <1>2 DEF GoOn, Underway
  <2> QED
    BY <1>1, <1>2, <2>1 DEF RunInv
<1>3. CASE stored' = FALSE /\ Raise("exception")
  BY <1>1, <1>3, UnderwayFails
<1> QED
  BY <1>2, <1>3 DEF Store

LEMMA CleanupStep ==
  ASSUME TypeOK, RunInv, Finally \/ Close \/ ConnectToDrop \/ DropDatabase \/ StopDatabase
  PROVE  RunInv'
<1>1. CASE Finally
  <2>1. /\ pc = "finally" /\ UNCHANGED <<config, queries, stored, code, at, database, flags>>
        /\ GoOn(IF config.clean THEN "close" ELSE "exit")
    BY <1>1 DEF Finally, GoOn, fixed, compaction
  <2>2. CASE GoOn("close")
    BY <2>1, <2>2, CleanupGoesOn DEF Cleanup
  <2>3. CASE ~config.clean /\ GoOn("exit")
    <3>1. Dropped'
      BY <2>1, <2>3 DEF Dropped
    <3> QED
      BY <2>1, <2>3, <3>1, CleanupGoesOn DEF Cleanup
  <2> QED
    BY <2>1, <2>2, <2>3
<1>2. CASE Close
  <2>1. pc = "close" /\ GoOn("connectDrop") /\ UNCHANGED <<config, queries, stored, code, at>>
    BY <1>2 DEF Close, fixed, compaction
  <2> QED
    BY <2>1, CleanupGoesOn DEF Cleanup
<1>3. CASE ConnectToDrop
  <2>1. /\ pc = "connectDrop" /\ (GoOn("drop") \/ Raise("exception"))
        /\ UNCHANGED <<config, queries, stored, code, at>>
    BY <1>3 DEF ConnectToDrop, Connect, fixed, compaction
  <2> QED
    BY <2>1, CleanupGoesOn, CleanupFails DEF Cleanup
<1>4. CASE DropDatabase
  <2>1. PICK r \in Autocommitted(session, FALSE, config.exits) :
          /\ Took(r)
          /\ database' \in IF r.rows THEN {FALSE} ELSE Unanswered(r, FALSE)
          /\ dropFailed' = IF r.rows THEN "none"
                           ELSE IF r.raised = "QueryCanceled" THEN "cancelled" ELSE "failed"
          /\ IF r.raised = "SystemExit" THEN Raise("SystemExit") ELSE GoOn("stop")
    BY <1>4 DEF DropDatabase, DropReplies
  <2>2. pc = "drop" /\ UNCHANGED <<config, queries, stored, code, at>>
    BY <1>4 DEF DropDatabase, compaction
  <2>3. CASE Raise("SystemExit")
    BY <2>2, <2>3, CleanupFails DEF Cleanup
  <2>4. CASE GoOn("stop")
    <3>1. /\ session \in {Fresh, Lost} /\ config.exits \in BOOLEAN
      BY DEF TypeOK, Config
    <3>2. ~r.rows => r.raised = "QueryCanceled" \/ "failure" \in r.flags
      BY <2>1, <3>1, AutocommittedReplies
    <3>3. Dropped'
      BY <2>1, <3>2 DEF Dropped, Took
    <3> QED
      BY <2>2, <2>4, <3>3, CleanupGoesOn DEF Cleanup
  <2> QED
    BY <2>1, <2>3, <2>4
<1>5. CASE StopDatabase
  <2>1. /\ pc = "stop" /\ (GoOn("exit") \/ Raise("exception"))
        /\ UNCHANGED <<config, queries, stored, code, at, database, flags, dropFailed>>
    BY <1>5 DEF StopDatabase, fixed, compaction
  <2>2. CASE Raise("exception")
    BY <2>1, <2>2, CleanupFails DEF Cleanup
  <2>3. CASE GoOn("exit")
    <3>1. Dropped'
      BY <2>1, <2>3 DEF RunInv, Dropped, GoOn
    <3> QED
      BY <2>1, <2>3, <3>1, CleanupGoesOn DEF Cleanup
  <2> QED
    BY <2>1, <2>2, <2>3
<1> QED
  BY <1>1, <1>2, <1>3, <1>4, <1>5

LEMMA RunInvNext == TypeOK /\ RunInv /\ [Next]_vars => RunInv'
<1> SUFFICES ASSUME TypeOK, RunInv, [Next]_vars PROVE RunInv'
  OBVIOUS
<1>1. CASE Exit
  <2>1. /\ pc = "exit" /\ pc' = "ended" /\ code' = ExitCode
        /\ UNCHANGED <<config, queries, stored, raised, failedAt, flags, database, dropFailed, at>>
    BY <1>1 DEF Exit, compaction
  <2>2. pc \notin Underway /\ pc' \notin Underway /\ ExitCode' = ExitCode
    BY <2>1 DEF Underway, ExitCode
  <2> QED
    BY <2>1, <2>2 DEF RunInv, Dropped
<1>2. CASE UNCHANGED vars
  BY <1>2 DEF vars, compaction, RunInv, Dropped, ExitCode
<1> QED
  BY <1>1, <1>2, UnderwayStep, StoreStep, CleanupStep DEF Next, Ended

LEMMA AlwaysRuns == Spec => [](TypeOK /\ CompactionInv /\ RunInv)
<1>1. Init => RunInv
  BY RunInit
<1>2. TypeOK /\ RunInv /\ [Next]_vars => RunInv'
  BY RunInvNext
<1> QED
  BY <1>1, <1>2, AlwaysTyped, PTL DEF Spec

(* Exit codes 0 and 2 mean that the run came to its end with no failure,   *)
(* and that its results, if there are queries, are stored; and 0 that not  *)
(* even a warning was raised (taqo's exit in runner.py).                   *)
THEOREM ExitCodesTell == Spec => []ExitCodeTells
<1>1. TypeOK /\ RunInv => ExitCodeTells
  <2> SUFFICES ASSUME TypeOK, RunInv, code \in {0, 2} PROVE ExitCodeTells
    BY DEF ExitCodeTells
  <2>1. pc = "ended" /\ code = ExitCode
    BY DEF RunInv
  <2>2. raised = "none" /\ "failure" \notin flags
    BY <2>1 DEF ExitCode
  <2>3. queries => stored
    BY <2>1, <2>2 DEF RunInv, Underway
  <2>4. code = 0 <=> flags = {}
    BY <2>1, <2>2 DEF ExitCode, TypeOK, Flags
  <2> QED
    BY <2>2, <2>3, <2>4 DEF ExitCodeTells
<1> QED
  BY <1>1, AlwaysRuns, PTL

(* Once all queries are evaluated and stored, no failure of the clean-up   *)
(* costs the results; results are never stored of an evaluation that did   *)
(* not come to its end (CollectAction.evaluate's try and finally).         *)
THEOREM ResultsOutlive == Spec => []ResultsOutliveCleanup
<1>1. RunInv => ResultsOutliveCleanup
  BY DEF RunInv, ResultsOutliveCleanup, Underway
<1> QED
  BY <1>1, AlwaysRuns, PTL

(* A run that was to clean up and reports no failure has dropped the test  *)
(* database, but for a DROP that was cancelled (drop_test_database).       *)
THEOREM DatabaseDropped == Spec => []CleanedUp
<1>1. RunInv => CleanedUp
  BY DEF RunInv, CleanedUp, Dropped, ExitCode
<1> QED
  BY <1>1, AlwaysRuns, PTL

(* With compaction asked for, queries are measured, and results stored,    *)
(* only after it was tried for every table as often as it may be           *)
(* (run_compaction, between the model and the queries).                    *)
THEOREM CompactedFirst == Spec => []CompactedBeforeMeasured
<1>1. CompactionInv /\ RunInv => CompactedBeforeMeasured
  BY DEF RunInv, CompactionInv, CompactedBeforeMeasured
<1> QED
  BY <1>1, AlwaysRuns, PTL
=============================================================================
