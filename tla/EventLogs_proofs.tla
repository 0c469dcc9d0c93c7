-------------------------- MODULE EventLogs_proofs ---------------------------
(***************************************************************************)
(* Proofs about the event log a session is opened with, whichever it is,   *)
(* for any number of processes and of subscribers and any bounds.          *)
(***************************************************************************)
EXTENDS EventLogs, SequenceTheorems, FiniteSetTheorems, TLAPS

(* A session keeps the log it was opened with, and only that one moves.    *)
LEMMA OwnSteps ==
  ASSUME [Next]_vars
  PROVE  /\ store' = store
         /\ store = "sqlite" => [Sqlite!Next]_Sqlite!vars
         /\ store = "mysql" => [MySql!Next]_MySql!vars
         /\ store = "redis" => [Redis!Next]_Redis!vars
         /\ store = "memory" => [Memory!Next]_Memory!vars
<1>1. CASE UNCHANGED vars
  BY <1>1 DEF vars, sqlOnly, mysqlOnly, redisOnly, durable, memoryOnly, Sqlite!vars, MySql!vars,
     Redis!vars, Memory!vars
<1>2. CASE Next
  BY <1>2 DEF Next
<1> QED
  BY <1>1, <1>2

LEMMA OneOfFour ==
  /\ Init => store \in {"sqlite", "mysql", "redis", "memory"}
  /\ [Next]_vars => store' = store
BY OwnSteps DEF Init

LEMMA OneStore == Spec => [](store \in {"sqlite", "mysql", "redis", "memory"})
<1>1. Init => store \in {"sqlite", "mysql", "redis", "memory"}
  BY OneOfFour
<1>2. store \in {"sqlite", "mysql", "redis", "memory"} /\ [Next]_vars
      => (store \in {"sqlite", "mysql", "redis", "memory"})'
  BY OneOfFour
<1> QED
  BY <1>1, <1>2, PTL DEF Spec

-----------------------------------------------------------------------------
(* SQLite: what SqliteEventLog_proofs proves of it.                        *)
SqliteP == INSTANCE SqliteEventLog_proofs

LEMMA SqliteSupport == SqliteP!Entries = Entries /\ SqliteP!Calls = Calls /\ SqliteP!Reads = Reads
BY DEF Entries, SqliteP!Entries, SqliteP!Calls, Calls, SqliteP!Reads, Reads, SqliteP!Expected, Expected,
   SqliteP!Answers, Answers

LEMMA SameSqlite ==
  /\ Sqlite!Init <=> SqliteP!Init
  /\ [Sqlite!Next]_Sqlite!vars <=> [SqliteP!Next]_SqliteP!vars
  /\ Sqlite!HeadIsLast <=> SqliteP!HeadIsLast
  /\ \A c \in Clients : Sqlite!Returned(c) = SqliteP!Returned(c)
<1>1. Sqlite!Init <=> SqliteP!Init
  BY DEF Sqlite!Init, SqliteP!Init, Sqlite!NoTransaction, SqliteP!NoTransaction
<1>2. UNCHANGED Sqlite!vars <=> UNCHANGED SqliteP!vars
  BY DEF Sqlite!vars, SqliteP!vars
<1>3. Sqlite!Next <=> SqliteP!Next
  BY DEF Sqlite!Next, SqliteP!Next,
     Sqlite!Expected, SqliteP!Expected, Sqlite!Requests, SqliteP!Requests, Sqlite!Calling,
     SqliteP!Calling, Sqlite!Between, SqliteP!Between, Sqlite!ValidInput, SqliteP!ValidInput,
     Sqlite!Conflicts, SqliteP!Conflicts, Sqlite!Follows, SqliteP!Follows, Sqlite!disk,
     SqliteP!disk, Sqlite!conn, SqliteP!conn, Sqlite!NoTransaction, SqliteP!NoTransaction,
     Sqlite!Event, SqliteP!Event, Sqlite!At, SqliteP!At, Sqlite!Refuse, SqliteP!Refuse,
     Sqlite!Append, SqliteP!Append, Sqlite!RefuseInput, SqliteP!RefuseInput,
     Sqlite!BeginImmediate, SqliteP!BeginImmediate, Sqlite!SelectHead, SqliteP!SelectHead,
     Sqlite!InsertEvent, SqliteP!InsertEvent, Sqlite!UpsertHead, SqliteP!UpsertHead,
     Sqlite!Commit, SqliteP!Commit, Sqlite!StatementFails, SqliteP!StatementFails,
     Sqlite!Rollback, SqliteP!Rollback, Sqlite!Notify, SqliteP!Notify, Sqlite!Return,
     SqliteP!Return, Sqlite!ReadHead, SqliteP!ReadHead, Sqlite!ReadRows, SqliteP!ReadRows,
     Sqlite!Consumed, SqliteP!Consumed, Sqlite!Close, SqliteP!Close, Sqlite!Crash, SqliteP!Crash
<1>4. Sqlite!HeadIsLast <=> SqliteP!HeadIsLast
  BY DEF Sqlite!HeadIsLast, SqliteP!HeadIsLast
<1>5. \A c \in Clients : Sqlite!Returned(c) = SqliteP!Returned(c)
  BY DEF Sqlite!Returned, SqliteP!Returned, Sqlite!Between, SqliteP!Between
<1> QED
  BY <1>1, <1>2, <1>3, <1>4, <1>5

LEMMA SqliteHolds ==
  ASSUME Contiguous
  PROVE  Spec => [](store = "sqlite" => SqliteP!Inv)
<1>1. Init => (store = "sqlite" => SqliteP!Inv)
  BY SameSqlite, SqliteSupport, SqliteP!InitInv, StoreAssumption, NoneAssumption DEF Init
<1>2. (store = "sqlite" => SqliteP!Inv) /\ [Next]_vars => (store = "sqlite" => SqliteP!Inv)'
  BY OwnSteps, SameSqlite, SqliteSupport, SqliteP!Inductive, StoreAssumption, NoneAssumption
<1> QED
  BY <1>1, <1>2, PTL DEF Spec

-----------------------------------------------------------------------------
(* MySQL: what MySqlEventLog_proofs proves of it.                          *)
MySqlP == INSTANCE MySqlEventLog_proofs

LEMMA MySqlSupport == MySqlP!Entries = Entries /\ MySqlP!Calls = Calls /\ MySqlP!Reads = Reads
BY DEF Entries, MySqlP!Entries, MySqlP!Calls, Calls, MySqlP!Reads, Reads, MySqlP!Expected, Expected,
   MySqlP!Answers, Answers

LEMMA SameMySql ==
  /\ MySql!Init <=> MySqlP!Init
  /\ [MySql!Next]_MySql!vars <=> [MySqlP!Next]_MySqlP!vars
  /\ MySql!HeadIsLast <=> MySqlP!HeadIsLast
  /\ \A c \in Clients : MySql!Returned(c) = MySqlP!Returned(c)
<1>1. MySql!Init <=> MySqlP!Init
  BY DEF MySql!Init, MySqlP!Init, MySql!NoTransaction, MySqlP!NoTransaction
<1>2. UNCHANGED MySql!vars <=> UNCHANGED MySqlP!vars
  BY DEF MySql!vars, MySqlP!vars
<1>3. MySql!Next <=> MySqlP!Next
  BY DEF MySql!Next, MySqlP!Next,
     MySql!Expected, MySqlP!Expected, MySql!Requests, MySqlP!Requests, MySql!Calling,
     MySqlP!Calling, MySql!Between, MySqlP!Between, MySql!ValidInput, MySqlP!ValidInput,
     MySql!Conflicts, MySqlP!Conflicts, MySql!Follows, MySqlP!Follows, MySql!disk, MySqlP!disk,
     MySql!locks, MySqlP!locks, MySql!conn, MySqlP!conn, MySql!NoTransaction,
     MySqlP!NoTransaction, MySql!Event, MySqlP!Event, MySql!At, MySqlP!At, MySql!Answering,
     MySqlP!Answering, MySql!Unlock, MySqlP!Unlock, MySql!LockRow, MySqlP!LockRow, MySql!Append,
     MySqlP!Append, MySql!Refused, MySqlP!Refused, MySql!BeginTransaction,
     MySqlP!BeginTransaction, MySql!InsertIgnoreStream, MySqlP!InsertIgnoreStream,
     MySql!SelectForUpdate, MySqlP!SelectForUpdate, MySql!InsertEvent, MySqlP!InsertEvent,
     MySql!UpdateHead, MySqlP!UpdateHead, MySql!Commit, MySqlP!Commit, MySql!Committed,
     MySqlP!Committed, MySql!StatementFails, MySqlP!StatementFails, MySql!CommitOrphaned,
     MySqlP!CommitOrphaned, MySql!OrphanEnds, MySqlP!OrphanEnds, MySql!Rollback,
     MySqlP!Rollback, MySql!Notify, MySqlP!Notify, MySql!Return, MySqlP!Return, MySql!Read,
     MySqlP!Read, MySql!ReadHead, MySqlP!ReadHead, MySql!ReadRows, MySqlP!ReadRows,
     MySql!ReadEnds, MySqlP!ReadEnds, MySql!Close, MySqlP!Close, MySql!Crash, MySqlP!Crash
<1>4. MySql!HeadIsLast <=> MySqlP!HeadIsLast
  BY DEF MySql!HeadIsLast, MySqlP!HeadIsLast
<1>5. \A c \in Clients : MySql!Returned(c) = MySqlP!Returned(c)
  BY DEF MySql!Returned, MySqlP!Returned, MySql!Between, MySqlP!Between
<1> QED
  BY <1>1, <1>2, <1>3, <1>4, <1>5

LEMMA MySqlHolds ==
  ASSUME Contiguous
  PROVE  Spec => [](store = "mysql" => MySqlP!Inv)
<1>1. Init => (store = "mysql" => MySqlP!Inv)
  BY SameMySql, MySqlSupport, MySqlP!InitInv, StoreAssumption, NoneAssumption, OrphanAssumption
     DEF Init, MySqlP!OrphanIsNobody
<1>2. (store = "mysql" => MySqlP!Inv) /\ [Next]_vars => (store = "mysql" => MySqlP!Inv)'
  BY OwnSteps, SameMySql, MySqlSupport, MySqlP!Inductive, StoreAssumption, NoneAssumption
<1> QED
  BY <1>1, <1>2, PTL DEF Spec

-----------------------------------------------------------------------------
(* Redis: what RedisEventLog_proofs proves of it.                          *)
RedisP == INSTANCE RedisEventLog_proofs

LEMMA RedisSupport == RedisP!Entries = Entries /\ RedisP!Calls = Calls /\ RedisP!Reads = Reads
BY DEF Entries, RedisP!Entries, RedisP!Calls, Calls, RedisP!Reads, Reads, RedisP!Expected, Expected,
   RedisP!Answers, Answers

LEMMA SameRedis ==
  /\ Redis!Init <=> RedisP!Init
  /\ [Redis!Next]_Redis!vars <=> [RedisP!Next]_RedisP!vars
  /\ Redis!HeadIsLast <=> RedisP!HeadIsLast
  /\ \A c \in Clients : Redis!Returned(c) = RedisP!Returned(c)
<1>1. Redis!Init <=> RedisP!Init
  BY DEF Redis!Init, RedisP!Init
<1>2. UNCHANGED Redis!vars <=> UNCHANGED RedisP!vars
  BY DEF Redis!vars, RedisP!vars
<1>3. Redis!Next <=> RedisP!Next
  BY DEF Redis!Next, RedisP!Next,
     Redis!Expected, RedisP!Expected, Redis!Requests, RedisP!Requests, Redis!Calling,
     RedisP!Calling, Redis!Between, RedisP!Between, Redis!ValidInput, RedisP!ValidInput,
     Redis!Conflicts, RedisP!Conflicts, Redis!Follows, RedisP!Follows, Redis!server,
     RedisP!server, Redis!conn, RedisP!conn, Redis!Event, RedisP!Event, Redis!At, RedisP!At,
     Redis!Answering, RedisP!Answering, Redis!Status, RedisP!Status, Redis!AppendScript,
     RedisP!AppendScript, Redis!Append, RedisP!Append, Redis!Refuse, RedisP!Refuse, Redis!Eval,
     RedisP!Eval, Redis!Reply, RedisP!Reply, Redis!ConnectionLost, RedisP!ConnectionLost,
     Redis!EvalLate, RedisP!EvalLate, Redis!Notify, RedisP!Notify, Redis!Return, RedisP!Return,
     Redis!Read, RedisP!Read, Redis!GetHead, RedisP!GetHead, Redis!RangeByScore,
     RedisP!RangeByScore, Redis!ReadEnds, RedisP!ReadEnds, Redis!Close, RedisP!Close,
     Redis!Crash, RedisP!Crash
<1>4. Redis!HeadIsLast <=> RedisP!HeadIsLast
  BY DEF Redis!HeadIsLast, RedisP!HeadIsLast
<1>5. \A c \in Clients : Redis!Returned(c) = RedisP!Returned(c)
  BY DEF Redis!Returned, RedisP!Returned, Redis!Between, RedisP!Between
<1> QED
  BY <1>1, <1>2, <1>3, <1>4, <1>5

LEMMA RedisHolds ==
  ASSUME Contiguous
  PROVE  Spec => [](store = "redis" => RedisP!Inv)
<1>1. Init => (store = "redis" => RedisP!Inv)
  BY SameRedis, RedisSupport, RedisP!InitInv, StoreAssumption, NoneAssumption
     DEF Init
<1>2. (store = "redis" => RedisP!Inv) /\ [Next]_vars => (store = "redis" => RedisP!Inv)'
  BY OwnSteps, SameRedis, RedisSupport, RedisP!Inductive, StoreAssumption, NoneAssumption
<1> QED
  BY <1>1, <1>2, PTL DEF Spec

-----------------------------------------------------------------------------
(* The head a store keeps beside the events is the last event, and every   *)
(* number up to it was used once: for any number of processes, after any   *)
(* interleaving of their statements, lost connection, crash, retry or late *)
(* command.                                                                *)
THEOREM HeadsMatch ==
  ASSUME Contiguous
  PROVE  Spec => []HeadIsLast
<1>1. /\ store \in {"sqlite", "mysql", "redis", "memory"}
      /\ store = "sqlite" => SqliteP!Inv
      /\ store = "mysql" => MySqlP!Inv
      /\ store = "redis" => RedisP!Inv
      => HeadIsLast
  BY SameSqlite, SameMySql, SameRedis DEF HeadIsLast, SqliteP!Inv, MySqlP!Inv, RedisP!Inv
<1> QED
  BY <1>1, OneStore, SqliteHolds, MySqlHolds, RedisHolds, PTL

-----------------------------------------------------------------------------
(* The databases: the contract each keeps is that of the one in use.       *)
LEMMA SeenOfSqlite ==
  /\ store = "sqlite" =>
       /\ databaseLog = rows /\ databaseCall = call /\ databaseTold = told /\ databaseOrphans = {}
       /\ databaseReading = [c \in Clients |-> SqliteP!Returned(c)]
  /\ store' = "sqlite" =>
       /\ databaseLog' = rows' /\ databaseCall' = call' /\ databaseTold' = told' /\ databaseOrphans' = {}
       /\ databaseReading' = [c \in Clients |-> SqliteP!Returned(c)']
<1>1. store = "sqlite" => databaseLog = rows /\ databaseCall = call /\ databaseTold = told /\ databaseOrphans = {}
  BY DEF databaseLog, databaseCall, databaseTold, databaseOrphans
<1>2. store = "sqlite" => databaseReading = [c \in Clients |-> Sqlite!Returned(c)]
  BY DEF databaseReading
<1>3. store' = "sqlite" => databaseLog' = rows' /\ databaseCall' = call' /\ databaseTold' = told' /\ databaseOrphans' = {}
  BY DEF databaseLog, databaseCall, databaseTold, databaseOrphans
<1>4. store' = "sqlite" => databaseReading' = [c \in Clients |-> Sqlite!Returned(c)']
  BY DEF databaseReading
<1>5. \A c \in Clients : Sqlite!Returned(c)' = SqliteP!Returned(c)'
  BY DEF Sqlite!Returned, SqliteP!Returned, Sqlite!Between, SqliteP!Between
<1> QED
  BY <1>1, <1>2, <1>3, <1>4, <1>5, SameSqlite

LEMMA SqliteIsDatabase ==
  ASSUME store = "sqlite", store' = "sqlite", [SqliteP!Promise!ContractNext]_SqliteP!Promise!contractVars
  PROVE  [Database!ContractNext]_Database!contractVars
<1>1. CASE UNCHANGED SqliteP!Promise!contractVars
  BY <1>1, SeenOfSqlite DEF SqliteP!Promise!contractVars, Database!contractVars
<1>2. /\ \A a : SqliteP!Promise!Answer(a) = Database!Answer(a)
      /\ \A r : SqliteP!Promise!Calling(r) = Database!Calling(r)
      /\ SqliteP!Promise!Requests = Database!Requests
      /\ \A es, from, to : SqliteP!Promise!Between(es, from, to) = Database!Between(es, from, to)
      /\ \A es : SqliteP!Promise!HeadOf(es) = Database!HeadOf(es)
  <2>1. \A a : SqliteP!Promise!Answer(a) = Database!Answer(a)
    BY SeenOfSqlite DEF SqliteP!Promise!Answer, Database!Answer, SqliteP!Promise!ValidInput, Database!ValidInput, SqliteP!Promise!Conflicts,
       Database!Conflicts, SqliteP!Promise!Follows, Database!Follows, SqliteP!Promise!HeadOf, Database!HeadOf, SqliteP!Promise!Max, Database!Max
  <2> QED
    BY <2>1 DEF SqliteP!Promise!Calling, Database!Calling, SqliteP!Promise!Requests, Database!Requests, SqliteP!Promise!Between, Database!Between,
       SqliteP!Promise!HeadOf, Database!HeadOf, SqliteP!Promise!Max, Database!Max
<1>3. ASSUME NEW c \in Clients, NEW r \in SqliteP!Promise!Requests, SqliteP!Promise!Append(c, r) PROVE Database!ContractNext
  BY <1>2, <1>3, SeenOfSqlite DEF SqliteP!Promise!Append, Database!Append, Database!ContractNext
<1>4. ASSUME NEW c \in Clients, SqliteP!Promise!Decide(c) PROVE Database!Decide(c)
  BY <1>2, <1>4, SeenOfSqlite DEF SqliteP!Promise!Decide, Database!Decide
<1>5. ASSUME NEW c \in Clients, SqliteP!Promise!Notify(c) PROVE Database!Notify(c)
  BY <1>2, <1>5, SeenOfSqlite DEF SqliteP!Promise!Notify, Database!Notify
<1>6. ASSUME NEW c \in Clients, SqliteP!Promise!Fail(c) PROVE Database!Fail(c)
  BY <1>2, <1>6, SeenOfSqlite DEF SqliteP!Promise!Fail, Database!Fail
<1>7. ASSUME NEW c \in Clients, SqliteP!Promise!Return(c) PROVE Database!Return(c)
  BY <1>2, <1>7, SeenOfSqlite DEF SqliteP!Promise!Return, Database!Return
<1>8. ASSUME NEW c \in Clients, NEW seq \in 0..MaxSeq, SqliteP!Promise!Read(c, seq) PROVE Database!Read(c, seq)
  BY <1>2, <1>8, SeenOfSqlite DEF SqliteP!Promise!Read, Database!Read
<1>9. ASSUME NEW c \in Clients, SqliteP!Promise!ReadReturn(c) PROVE Database!ReadReturn(c)
  BY <1>2, <1>9, SeenOfSqlite DEF SqliteP!Promise!ReadReturn, Database!ReadReturn
<1>10. ASSUME SqliteP!Promise!LateDecide PROVE Database!LateDecide
  BY <1>2, <1>10, SeenOfSqlite DEF SqliteP!Promise!LateDecide, Database!LateDecide
<1>11. ASSUME SqliteP!Promise!LateLost PROVE Database!LateLost
  BY <1>2, <1>11, SeenOfSqlite DEF SqliteP!Promise!LateLost, Database!LateLost
<1> QED
  BY <1>1, <1>3, <1>4, <1>5, <1>6, <1>7, <1>8, <1>9, <1>10, <1>11 DEF SqliteP!Promise!ContractNext, Database!ContractNext

LEMMA SeenOfMySql ==
  /\ store = "mysql" =>
       /\ databaseLog = rows /\ databaseCall = call /\ databaseTold = told /\ databaseOrphans = (IF owner = Orphan THEN {orphan} ELSE {})
       /\ databaseReading = [c \in Clients |-> MySqlP!Returned(c)]
  /\ store' = "mysql" =>
       /\ databaseLog' = rows' /\ databaseCall' = call' /\ databaseTold' = told' /\ databaseOrphans' = (IF owner = Orphan THEN {orphan} ELSE {})'
       /\ databaseReading' = [c \in Clients |-> MySqlP!Returned(c)']
<1>1. store = "mysql" => databaseLog = rows /\ databaseCall = call /\ databaseTold = told /\ databaseOrphans = (IF owner = Orphan THEN {orphan} ELSE {})
  BY DEF databaseLog, databaseCall, databaseTold, databaseOrphans
<1>2. store = "mysql" => databaseReading = [c \in Clients |-> MySql!Returned(c)]
  BY DEF databaseReading
<1>3. store' = "mysql" => databaseLog' = rows' /\ databaseCall' = call' /\ databaseTold' = told' /\ databaseOrphans' = (IF owner = Orphan THEN {orphan} ELSE {})'
  BY DEF databaseLog, databaseCall, databaseTold, databaseOrphans
<1>4. store' = "mysql" => databaseReading' = [c \in Clients |-> MySql!Returned(c)']
  BY DEF databaseReading
<1>5. \A c \in Clients : MySql!Returned(c)' = MySqlP!Returned(c)'
  BY DEF MySql!Returned, MySqlP!Returned, MySql!Between, MySqlP!Between
<1> QED
  BY <1>1, <1>2, <1>3, <1>4, <1>5, SameMySql

LEMMA MySqlIsDatabase ==
  ASSUME store = "mysql", store' = "mysql", [MySqlP!Promise!ContractNext]_MySqlP!Promise!contractVars
  PROVE  [Database!ContractNext]_Database!contractVars
<1>1. CASE UNCHANGED MySqlP!Promise!contractVars
  BY <1>1, SeenOfMySql DEF MySqlP!Promise!contractVars, Database!contractVars
<1>2. /\ \A a : MySqlP!Promise!Answer(a) = Database!Answer(a)
      /\ \A r : MySqlP!Promise!Calling(r) = Database!Calling(r)
      /\ MySqlP!Promise!Requests = Database!Requests
      /\ \A es, from, to : MySqlP!Promise!Between(es, from, to) = Database!Between(es, from, to)
      /\ \A es : MySqlP!Promise!HeadOf(es) = Database!HeadOf(es)
  <2>1. \A a : MySqlP!Promise!Answer(a) = Database!Answer(a)
    BY SeenOfMySql DEF MySqlP!Promise!Answer, Database!Answer, MySqlP!Promise!ValidInput, Database!ValidInput, MySqlP!Promise!Conflicts,
       Database!Conflicts, MySqlP!Promise!Follows, Database!Follows, MySqlP!Promise!HeadOf, Database!HeadOf, MySqlP!Promise!Max, Database!Max
  <2> QED
    BY <2>1 DEF MySqlP!Promise!Calling, Database!Calling, MySqlP!Promise!Requests, Database!Requests, MySqlP!Promise!Between, Database!Between,
       MySqlP!Promise!HeadOf, Database!HeadOf, MySqlP!Promise!Max, Database!Max
<1>3. ASSUME NEW c \in Clients, NEW r \in MySqlP!Promise!Requests, MySqlP!Promise!Append(c, r) PROVE Database!ContractNext
  BY <1>2, <1>3, SeenOfMySql DEF MySqlP!Promise!Append, Database!Append, Database!ContractNext
<1>4. ASSUME NEW c \in Clients, MySqlP!Promise!Decide(c) PROVE Database!Decide(c)
  BY <1>2, <1>4, SeenOfMySql DEF MySqlP!Promise!Decide, Database!Decide
<1>5. ASSUME NEW c \in Clients, MySqlP!Promise!Notify(c) PROVE Database!Notify(c)
  BY <1>2, <1>5, SeenOfMySql DEF MySqlP!Promise!Notify, Database!Notify
<1>6. ASSUME NEW c \in Clients, MySqlP!Promise!Fail(c) PROVE Database!Fail(c)
  BY <1>2, <1>6, SeenOfMySql DEF MySqlP!Promise!Fail, Database!Fail
<1>7. ASSUME NEW c \in Clients, MySqlP!Promise!Return(c) PROVE Database!Return(c)
  BY <1>2, <1>7, SeenOfMySql DEF MySqlP!Promise!Return, Database!Return
<1>8. ASSUME NEW c \in Clients, NEW seq \in 0..MaxSeq, MySqlP!Promise!Read(c, seq) PROVE Database!Read(c, seq)
  BY <1>2, <1>8, SeenOfMySql DEF MySqlP!Promise!Read, Database!Read
<1>9. ASSUME NEW c \in Clients, MySqlP!Promise!ReadReturn(c) PROVE Database!ReadReturn(c)
  BY <1>2, <1>9, SeenOfMySql DEF MySqlP!Promise!ReadReturn, Database!ReadReturn
<1>10. ASSUME MySqlP!Promise!LateDecide PROVE Database!LateDecide
  BY <1>2, <1>10, SeenOfMySql DEF MySqlP!Promise!LateDecide, Database!LateDecide
<1>11. ASSUME MySqlP!Promise!LateLost PROVE Database!LateLost
  BY <1>2, <1>11, SeenOfMySql DEF MySqlP!Promise!LateLost, Database!LateLost
<1> QED
  BY <1>1, <1>3, <1>4, <1>5, <1>6, <1>7, <1>8, <1>9, <1>10, <1>11 DEF MySqlP!Promise!ContractNext, Database!ContractNext

LEMMA SeenOfRedis ==
  /\ store = "redis" =>
       /\ databaseLog = events /\ databaseCall = call /\ databaseTold = told /\ databaseOrphans = late
       /\ databaseReading = [c \in Clients |-> RedisP!Returned(c)]
  /\ store' = "redis" =>
       /\ databaseLog' = events' /\ databaseCall' = call' /\ databaseTold' = told' /\ databaseOrphans' = late'
       /\ databaseReading' = [c \in Clients |-> RedisP!Returned(c)']
<1>1. store = "redis" => databaseLog = events /\ databaseCall = call /\ databaseTold = told /\ databaseOrphans = late
  BY DEF databaseLog, databaseCall, databaseTold, databaseOrphans
<1>2. store = "redis" => databaseReading = [c \in Clients |-> Redis!Returned(c)]
  BY DEF databaseReading
<1>3. store' = "redis" => databaseLog' = events' /\ databaseCall' = call' /\ databaseTold' = told' /\ databaseOrphans' = late'
  BY DEF databaseLog, databaseCall, databaseTold, databaseOrphans
<1>4. store' = "redis" => databaseReading' = [c \in Clients |-> Redis!Returned(c)']
  BY DEF databaseReading
<1>5. \A c \in Clients : Redis!Returned(c)' = RedisP!Returned(c)'
  BY DEF Redis!Returned, RedisP!Returned, Redis!Between, RedisP!Between
<1> QED
  BY <1>1, <1>2, <1>3, <1>4, <1>5, SameRedis

LEMMA RedisIsDatabase ==
  ASSUME store = "redis", store' = "redis", [RedisP!Promise!ContractNext]_RedisP!Promise!contractVars
  PROVE  [Database!ContractNext]_Database!contractVars
<1>1. CASE UNCHANGED RedisP!Promise!contractVars
  BY <1>1, SeenOfRedis DEF RedisP!Promise!contractVars, Database!contractVars
<1>2. /\ \A a : RedisP!Promise!Answer(a) = Database!Answer(a)
      /\ \A r : RedisP!Promise!Calling(r) = Database!Calling(r)
      /\ RedisP!Promise!Requests = Database!Requests
      /\ \A es, from, to : RedisP!Promise!Between(es, from, to) = Database!Between(es, from, to)
      /\ \A es : RedisP!Promise!HeadOf(es) = Database!HeadOf(es)
  <2>1. \A a : RedisP!Promise!Answer(a) = Database!Answer(a)
    BY SeenOfRedis DEF RedisP!Promise!Answer, Database!Answer, RedisP!Promise!ValidInput, Database!ValidInput, RedisP!Promise!Conflicts,
       Database!Conflicts, RedisP!Promise!Follows, Database!Follows, RedisP!Promise!HeadOf, Database!HeadOf, RedisP!Promise!Max, Database!Max
  <2> QED
    BY <2>1 DEF RedisP!Promise!Calling, Database!Calling, RedisP!Promise!Requests, Database!Requests, RedisP!Promise!Between, Database!Between,
       RedisP!Promise!HeadOf, Database!HeadOf, RedisP!Promise!Max, Database!Max
<1>3. ASSUME NEW c \in Clients, NEW r \in RedisP!Promise!Requests, RedisP!Promise!Append(c, r) PROVE Database!ContractNext
  BY <1>2, <1>3, SeenOfRedis DEF RedisP!Promise!Append, Database!Append, Database!ContractNext
<1>4. ASSUME NEW c \in Clients, RedisP!Promise!Decide(c) PROVE Database!Decide(c)
  BY <1>2, <1>4, SeenOfRedis DEF RedisP!Promise!Decide, Database!Decide
<1>5. ASSUME NEW c \in Clients, RedisP!Promise!Notify(c) PROVE Database!Notify(c)
  BY <1>2, <1>5, SeenOfRedis DEF RedisP!Promise!Notify, Database!Notify
<1>6. ASSUME NEW c \in Clients, RedisP!Promise!Fail(c) PROVE Database!Fail(c)
  BY <1>2, <1>6, SeenOfRedis DEF RedisP!Promise!Fail, Database!Fail
<1>7. ASSUME NEW c \in Clients, RedisP!Promise!Return(c) PROVE Database!Return(c)
  BY <1>2, <1>7, SeenOfRedis DEF RedisP!Promise!Return, Database!Return
<1>8. ASSUME NEW c \in Clients, NEW seq \in 0..MaxSeq, RedisP!Promise!Read(c, seq) PROVE Database!Read(c, seq)
  BY <1>2, <1>8, SeenOfRedis DEF RedisP!Promise!Read, Database!Read
<1>9. ASSUME NEW c \in Clients, RedisP!Promise!ReadReturn(c) PROVE Database!ReadReturn(c)
  BY <1>2, <1>9, SeenOfRedis DEF RedisP!Promise!ReadReturn, Database!ReadReturn
<1>10. ASSUME RedisP!Promise!LateDecide PROVE Database!LateDecide
  BY <1>2, <1>10, SeenOfRedis DEF RedisP!Promise!LateDecide, Database!LateDecide
<1>11. ASSUME RedisP!Promise!LateLost PROVE Database!LateLost
  BY <1>2, <1>11, SeenOfRedis DEF RedisP!Promise!LateLost, Database!LateLost
<1> QED
  BY <1>1, <1>3, <1>4, <1>5, <1>6, <1>7, <1>8, <1>9, <1>10, <1>11 DEF RedisP!Promise!ContractNext, Database!ContractNext

LEMMA MemoryIsNoDatabase ==
  ASSUME store = "memory", store' = "memory"
  PROVE  UNCHANGED Database!contractVars
BY DEF databaseLog, databaseCall, databaseTold, databaseOrphans, databaseReading, Database!contractVars, Nobody

(* Whichever database it is, and whatever its processes, connections and   *)
(* statements do: append compares and writes in one step, read is one      *)
(* snapshot, nobody hears of an event that was not written, and a command  *)
(* given up takes effect once or never.                                    *)
THEOREM DatabasesKeepContract ==
  ASSUME Contiguous
  PROVE  Spec => StoresKeepContract
<1> DEFINE
      Holds ==
        /\ store \in {"sqlite", "mysql", "redis", "memory"}
        /\ store = "sqlite" => SqliteP!Inv
        /\ store = "mysql" => MySqlP!Inv
        /\ store = "redis" => RedisP!Inv
<1>1. Init => Database!ContractInit
  <2> SUFFICES ASSUME Init PROVE Database!ContractInit
    OBVIOUS
  <2>1. CASE store = "sqlite"
    BY <2>1, SameSqlite, SeenOfSqlite, SqliteP!InitKeeps, SqliteSupport, StoreAssumption, NoneAssumption
       DEF Init, Database!ContractInit, SqliteP!Promise!ContractInit
  <2>2. CASE store = "mysql"
    <3>1. MySqlP!OrphanIsNobody
      BY OrphanAssumption DEF MySqlP!OrphanIsNobody
    <3> QED
      BY <2>2, <3>1, SameMySql, SeenOfMySql, MySqlP!InitKeeps, MySqlSupport, StoreAssumption, NoneAssumption
         DEF Init, Database!ContractInit, MySqlP!Promise!ContractInit
  <2>3. CASE store = "redis"
    BY <2>3, SameRedis, SeenOfRedis, RedisP!InitKeeps, RedisSupport, StoreAssumption, NoneAssumption
       DEF Init, Database!ContractInit, RedisP!Promise!ContractInit
  <2>4. CASE store = "memory"
    BY <2>4 DEF Database!ContractInit, databaseLog, databaseCall, databaseTold, databaseOrphans,
       databaseReading, Nobody
  <2> QED
    BY <2>1, <2>2, <2>3, <2>4, OneOfFour
<1>2. Holds /\ Holds' /\ [Next]_vars => [Database!ContractNext]_Database!contractVars
  <2> SUFFICES ASSUME Holds, Holds', [Next]_vars PROVE [Database!ContractNext]_Database!contractVars
    OBVIOUS
  <2>1. store' = store
    BY OneOfFour
  <2>2. CASE store = "sqlite"
    <3>1. SqliteP!Inv /\ SqliteP!TypeOK' /\ [SqliteP!Next]_SqliteP!vars
      BY <2>1, <2>2, OwnSteps, SameSqlite DEF SqliteP!Inv
    <3>2. [SqliteP!Promise!ContractNext]_SqliteP!Promise!contractVars
      BY <3>1, SqliteP!StepKeeps, SqliteSupport, StoreAssumption, NoneAssumption
    <3> QED
      BY <2>1, <2>2, <3>2, SqliteIsDatabase
  <2>3. CASE store = "mysql"
    <3>1. MySqlP!Inv /\ [MySqlP!Next]_MySqlP!vars
      BY <2>3, OwnSteps, SameMySql
    <3>2. [MySqlP!Promise!ContractNext]_MySqlP!Promise!contractVars
      BY <3>1, MySqlP!StepKeeps, MySqlSupport, StoreAssumption, NoneAssumption
    <3> QED
      BY <2>1, <2>3, <3>2, MySqlIsDatabase
  <2>4. CASE store = "redis"
    <3>1. RedisP!Inv /\ [RedisP!Next]_RedisP!vars
      BY <2>4, OwnSteps, SameRedis
    <3>2. [RedisP!Promise!ContractNext]_RedisP!Promise!contractVars
      BY <3>1, RedisP!StepKeeps, RedisSupport, StoreAssumption, NoneAssumption
    <3> QED
      BY <2>1, <2>4, <3>2, RedisIsDatabase
  <2>5. CASE store = "memory"
    BY <2>1, <2>5, MemoryIsNoDatabase
  <2> QED
    BY <2>2, <2>3, <2>4, <2>5
<1>3. Spec => []Holds
  BY OneStore, SqliteHolds, MySqlHolds, RedisHolds, PTL
<1> QED
  BY <1>1, <1>2, <1>3, PTL DEF Spec, StoresKeepContract, Database!Contract

-----------------------------------------------------------------------------
(* The log in memory: its subscribers.                                     *)
Subs == Memory!Subscribers
Places == [sub : Subs, live : BOOLEAN]
Frames == [by : Local, seq : 0..MaxSeq, next : Nat \ {0}, at : Subs \cup {None}]

MemoryTypes ==
  /\ events \in Seq(Memory!Entries) /\ map \in Seq(Places) /\ frames \in Seq(Frames)
  /\ call \in [Local -> {None} \cup Calls] /\ deciding \in Local \cup {None}
  /\ joined \in [Subs -> Nat] /\ heard \in [Subs -> Seq(0..MaxSeq)]

Count(h, x) == Cardinality({k \in DOMAIN h : h[k] = x})

(* The event x has not come to place p of the map yet.                     *)
Waits(stack, x, p) == \E k \in DOMAIN stack : stack[k].seq = x /\ stack[k].next <= p

(* What the append that is being decided asks has no answer yet.           *)
Undecided == deciding # None => call[deciding] # None /\ call[deciding].answer = None

Known(es, x) == es # <<>> /\ x <= es[Len(es)].seq

(* The numbers of the events increase; a loop delivers, and a subscriber   *)
(* hears, what is in the log.                                              *)
Ordered ==
  /\ \A i, j \in DOMAIN events : i < j => events[i].seq < events[j].seq
  /\ \A k \in DOMAIN frames : Known(events, frames[k].seq)
  /\ \A j, k \in DOMAIN frames : frames[j].seq = frames[k].seq => j = k
  /\ \A s \in Subs : joined[s] <= Len(events) /\ \A k \in DOMAIN heard[s] : Known(events, heard[s][k])

(* A subscriber is in the map once.                                        *)
OnePlace == \A p, q \in DOMAIN map : map[p].live /\ map[q].live /\ map[p].sub = map[q].sub => p = q

(* Who is in the map has heard every event after it joined once, but those *)
(* whose loop has not come to its place.                                   *)
Delivered ==
  \A p \in DOMAIN map : map[p].live =>
    \A i \in joined[map[p].sub] + 1 .. Len(events) :
      Count(heard[map[p].sub], events[i].seq) = IF Waits(frames, events[i].seq, p) THEN 0 ELSE 1

MemoryInv == MemoryTypes /\ Undecided /\ Ordered /\ OnePlace /\ Delivered

(* One more thing heard.                                                   *)
LEMMA HeardMore ==
  ASSUME NEW h \in Seq(Nat), NEW x, NEW y \in Nat
  PROVE  /\ Count(h, x) \in Nat
         /\ (\A k \in DOMAIN h : h[k] # x) => Count(h, x) = 0
         /\ Count(Append(h, y), x) = IF x = y THEN Count(h, x) + 1 ELSE Count(h, x)
<1> DEFINE its == {k \in DOMAIN h : h[k] = x}
<1>1. IsFiniteSet(its) /\ Len(h) \in Nat /\ DOMAIN h = 1..Len(h) /\ Len(h) + 1 \notin its
  <2>1. IsFiniteSet(1..Len(h)) /\ DOMAIN h = 1..Len(h) /\ Len(h) \in Nat
    BY FS_Interval
  <2> QED
    BY <2>1, FS_Subset
<1>2. Cardinality(its) \in Nat /\ (its = {} => Cardinality(its) = 0)
  BY <1>1, FS_CardinalityType, FS_EmptySet
<1>3. {k \in DOMAIN Append(h, y) : Append(h, y)[k] = x} = IF x = y THEN its \cup {Len(h) + 1} ELSE its
  BY <1>1, AppendProperties
<1>4. Cardinality(its \cup {Len(h) + 1}) = Cardinality(its) + 1
  BY <1>1, FS_AddElement
<1> QED
  BY <1>2, <1>3, <1>4 DEF Count

(* The log after one more event, or none.                                  *)
LEMMA LastIsGreatest ==
  ASSUME MemoryTypes, Ordered, events # <<>>
  PROVE  /\ Len(events) \in DOMAIN events /\ Len(events) \in Nat \ {0} /\ DOMAIN events = 1..Len(events)
         /\ \A i \in DOMAIN events : events[i].seq \in 0..MaxSeq /\ events[i].seq <= events[Len(events)].seq
<1>1. events \in Seq(Memory!Entries) /\ Len(events) \in Nat /\ DOMAIN events = 1..Len(events)
  BY DEF MemoryTypes
<1>2. Len(events) # 0
  BY <1>1, EmptySeq
<1>3. \A i \in DOMAIN events : events[i] \in Memory!Entries
  BY <1>1
<1>4. \A i \in DOMAIN events : events[i].seq \in 0..MaxSeq
  BY <1>3 DEF Memory!Entries
<1>5. \A i \in DOMAIN events : i = Len(events) \/ events[i].seq < events[Len(events)].seq
  BY <1>1, <1>2 DEF Ordered
<1> QED
  BY <1>1, <1>2, <1>4, <1>5, StoreAssumption

(* Whose code runs: nobody's while an append is decided, and a             *)
(* subscriber's in the loop on top.                                        *)
LEMMA RunningMeans ==
  ASSUME NEW c, c # None, Memory!Running = c
  PROVE  /\ deciding = None
         /\ c # Host => frames # <<>> /\ Memory!Top.at = c
BY DEF Memory!Running

LEMMA CallingType ==
  ASSUME NEW r \in Memory!Requests
  PROVE  Memory!Calling(r) \in Calls /\ Memory!Calling(r) # None /\ Memory!Calling(r).answer = None
<1>1. r.seq \in -1..MaxSeq /\ r.expected \in Expected
  BY StoreAssumption DEF Memory!Requests, Expected
<1> QED
  BY <1>1, NoneAssumption DEF Memory!Calling, Calls

(* A step of the callers: the log, its loops and its subscribers stay.     *)
LEMMA CallersMove ==
  ASSUME MemoryInv, UNCHANGED <<events, map, frames, joined, heard>>,
         call' \in [Local -> {None} \cup Calls], deciding' \in Local \cup {None}, Undecided'
  PROVE  MemoryInv'
<1>1. MemoryTypes'
  BY DEF MemoryInv, MemoryTypes
<1>2. Ordered' /\ OnePlace' /\ Delivered'
  BY DEF MemoryInv, Ordered, Known, OnePlace, Delivered
<1> QED
  BY <1>1, <1>2 DEF MemoryInv

LEMMA AppendCallStep ==
  ASSUME MemoryInv, NEW c \in Local, NEW r \in Memory!Requests, Memory!AppendCall(c, r)
  PROVE  MemoryInv'
<1>1. /\ Memory!Calling(r) \in Calls /\ Memory!Calling(r) # None /\ Memory!Calling(r).answer = None
      /\ call' = [call EXCEPT ![c] = Memory!Calling(r)] /\ deciding' = c
      /\ UNCHANGED <<events, map, frames, joined, heard>>
  BY CallingType DEF Memory!AppendCall, Memory!subs
<1>2. call' \in [Local -> {None} \cup Calls] /\ Undecided'
  BY <1>1 DEF MemoryInv, MemoryTypes, Undecided
<1> QED
  BY <1>1, <1>2, CallersMove

LEMMA ReturnStep ==
  ASSUME MemoryInv, NEW c \in Local, Memory!Return(c)
  PROVE  MemoryInv'
<1>1. deciding = None
  BY RunningMeans, LocalAssumption DEF Memory!Return
<1>2. /\ call' = [call EXCEPT ![c] = None] /\ UNCHANGED deciding
      /\ UNCHANGED <<events, map, frames, joined, heard>>
  BY DEF Memory!Return, Memory!subs
<1>3. call' \in [Local -> {None} \cup Calls] /\ deciding' \in Local \cup {None} /\ Undecided'
  BY <1>1, <1>2 DEF MemoryInv, MemoryTypes, Undecided
<1> QED
  BY <1>2, <1>3, CallersMove

LEMMA ReaderStep ==
  ASSUME MemoryInv, UNCHANGED <<events, map, frames, joined, heard, call, deciding>>
  PROVE  MemoryInv'
BY CallersMove DEF MemoryInv, MemoryTypes, Undecided

(* A place in the map, in a loop, in a log.                                *)
LEMMA Members ==
  ASSUME MemoryTypes
  PROVE  /\ \A p \in DOMAIN map : map[p] \in Places /\ p \in Nat \ {0} /\ p <= Len(map)
         /\ \A k \in DOMAIN frames : frames[k] \in Frames /\ frames[k].seq \in Nat /\ frames[k].next \in Nat \ {0}
         /\ Len(map) \in Nat /\ DOMAIN map = 1..Len(map)
         /\ Len(frames) \in Nat /\ DOMAIN frames = 1..Len(frames)
         /\ Len(events) \in Nat /\ DOMAIN events = 1..Len(events)
         /\ \A i \in DOMAIN events : events[i].seq \in 0..MaxSeq /\ events[i].seq \in Nat
         /\ \A s \in Subs : joined[s] \in Nat /\ heard[s] \in Seq(Nat) /\ heard[s] \in Seq(0..MaxSeq)
<1>1. map \in Seq(Places) /\ frames \in Seq(Frames) /\ events \in Seq(Memory!Entries)
      /\ joined \in [Subs -> Nat] /\ heard \in [Subs -> Seq(0..MaxSeq)]
  BY DEF MemoryTypes
<1>2. /\ Len(map) \in Nat /\ DOMAIN map = 1..Len(map) /\ Len(frames) \in Nat /\ DOMAIN frames = 1..Len(frames)
      /\ Len(events) \in Nat /\ DOMAIN events = 1..Len(events)
  BY <1>1
<1>3. \A p \in DOMAIN map : map[p] \in Places
  BY <1>1
<1>4. \A k \in DOMAIN frames : frames[k] \in Frames
  BY <1>1
<1>5. \A k \in DOMAIN frames : frames[k].seq \in Nat /\ frames[k].next \in Nat \ {0}
  BY <1>4, StoreAssumption DEF Frames
<1>6. \A i \in DOMAIN events : events[i] \in Memory!Entries
  BY <1>1
<1>7. \A i \in DOMAIN events : events[i].seq \in 0..MaxSeq /\ events[i].seq \in Nat
  BY <1>6, StoreAssumption DEF Memory!Entries
<1>8. \A s \in Subs : heard[s] \in Seq(0..MaxSeq) /\ 0..MaxSeq \subseteq Nat
  BY <1>1, StoreAssumption
<1>9. \A s \in Subs : heard[s] \in Seq(Nat)
  BY <1>8, SeqMonotonic
<1> QED
  BY <1>1, <1>2, <1>3, <1>4, <1>5, <1>7, <1>8, <1>9

LEMMA DecideStep ==
  ASSUME MemoryInv, Memory!Decide
  PROVE  MemoryInv'
<1> DEFINE c == deciding
           a == call[deciding]
           entry == [seq |-> a.seq, by |-> c]
           frame == [by |-> c, seq |-> a.seq, next |-> 1, at |-> None]
<1>1. /\ c \in Local /\ a \in Calls /\ a # None /\ deciding' = None /\ UNCHANGED <<map, joined, heard>>
      /\ MemoryTypes /\ Undecided /\ Ordered /\ OnePlace /\ Delivered
  BY DEF Memory!Decide, MemoryInv, MemoryTypes, Undecided, Memory!subs
<1>2. Undecided'
  BY <1>1 DEF Undecided
<1>3. CASE Memory!Refusal(a) # None
  <2>1. call' = [call EXCEPT ![c] = [a EXCEPT !.answer = Memory!Refusal(a)]] /\ UNCHANGED <<events, frames>>
    BY <1>1, <1>3 DEF Memory!Decide
  <2>2. Memory!Refusal(a) \in Answers
    BY <1>3 DEF Memory!Refusal, Answers
  <2>3. [a EXCEPT !.answer = Memory!Refusal(a)] \in Calls
    BY <1>1, <2>2 DEF Calls
  <2>4. call' \in [Local -> {None} \cup Calls]
    BY <1>1, <2>1, <2>3 DEF MemoryTypes
  <2> QED
    BY <1>1, <1>2, <2>1, <2>4, CallersMove
<1>4. CASE Memory!Refusal(a) = None
  <2>1. /\ call' = [call EXCEPT ![c] = [a EXCEPT !.answer = "ok"]]
        /\ events' = Append(events, entry) /\ frames' = Append(frames, frame)
    BY <1>1, <1>4 DEF Memory!Decide
  <2>2. a.seq \in 0..MaxSeq /\ a.seq \in Nat /\ (events # <<>> => ~(a.seq <= events[Len(events)].seq))
    <3>1. Memory!ValidInput(a)
      BY <1>4, StoreAssumption DEF Memory!Refusal
    <3>2. ~(events # <<>> /\ a.seq <= events[Len(events)].seq)
      BY <1>4, StoreAssumption DEF Memory!Refusal
    <3> QED
      BY <1>1, <3>1, <3>2, StoreAssumption DEF Memory!ValidInput, Calls
  <2>3. [a EXCEPT !.answer = "ok"] \in Calls
    BY <1>1 DEF Calls, Answers
  <2>4. call' \in [Local -> {None} \cup Calls]
    BY <1>1, <2>1, <2>3 DEF MemoryTypes
  <2>5. entry \in Memory!Entries /\ frame \in Frames
    BY <1>1, <2>2 DEF Memory!Entries, Frames
  <2>6. frame.seq = a.seq /\ frame.next = 1 /\ entry.seq = a.seq
    OBVIOUS
  <2> HIDE DEF entry, frame, a, c
  <2>7. /\ events' \in Seq(Memory!Entries) /\ events' # <<>> /\ Len(events') = Len(events) + 1
        /\ \A i \in 1..Len(events) : events'[i] = events[i]
        /\ events'[Len(events) + 1] = entry
    <3>1. events \in Seq(Memory!Entries) /\ events' = Append(events, entry)
      BY <1>1, <2>1 DEF MemoryTypes
    <3> QED
      BY <3>1, <2>5, AppendProperties
  <2>8. /\ frames' \in Seq(Frames) /\ Len(frames') = Len(frames) + 1
        /\ \A k \in 1..Len(frames) : frames'[k] = frames[k]
        /\ frames'[Len(frames) + 1] = frame
    BY <1>1, <2>1, <2>5, AppendProperties DEF MemoryTypes
  <2>9. /\ Len(events) \in Nat /\ DOMAIN events = 1..Len(events) /\ DOMAIN events' = 1..(Len(events) + 1)
        /\ Len(frames) \in Nat /\ DOMAIN frames = 1..Len(frames) /\ DOMAIN frames' = 1..(Len(frames) + 1)
        /\ \A k \in DOMAIN frames : frames[k].seq \in Nat
    BY <1>1, <2>7, <2>8, Members
  <2>10. MemoryTypes'
    BY <1>1, <2>4, <2>7, <2>8 DEF MemoryTypes
  <2>11. /\ \A i \in DOMAIN events : events[i].seq \in Nat /\ events[i].seq < a.seq
         /\ \A x \in Nat : Known(events, x) => x < a.seq /\ Known(events', x)
    <3>1. CASE events = <<>>
      BY <3>1, <2>9, <1>1, EmptySeq DEF Known
    <3>2. CASE events # <<>>
      <4>1. /\ Len(events) \in DOMAIN events
            /\ \A i \in DOMAIN events : events[i].seq \in 0..MaxSeq /\ events[i].seq <= events[Len(events)].seq
        BY <3>2, <1>1, LastIsGreatest
      <4>2. \A i \in DOMAIN events : events[i].seq \in Nat
        BY <1>1, Members
      <4> QED
        BY <4>1, <4>2, <3>2, <2>2, <2>6, <2>7, <2>9 DEF Known
    <3> QED
      BY <3>1, <3>2
  <2>12. Known(events', a.seq) /\ \A i \in DOMAIN events' : events'[i].seq \in Nat
    BY <2>2, <2>6, <2>7, <2>9, <2>11 DEF Known
  <2>13. Ordered'
    <3>1. \A i, j \in DOMAIN events' : i < j => events'[i].seq < events'[j].seq
      BY <1>1, <2>6, <2>7, <2>9, <2>11 DEF Ordered
    <3>2. \A k \in DOMAIN frames' : Known(events', frames'[k].seq)
      BY <1>1, <2>6, <2>8, <2>9, <2>11, <2>12 DEF Ordered
    <3>3. \A j, k \in DOMAIN frames' : frames'[j].seq = frames'[k].seq => j = k
      <4>1. \A k \in DOMAIN frames : frames[k].seq < a.seq
        BY <1>1, <2>9, <2>11 DEF Ordered
      <4> QED
        BY <4>1, <1>1, <2>2, <2>6, <2>8, <2>9 DEF Ordered
    <3>4. \A s \in Subs : joined'[s] <= Len(events') /\ \A k \in DOMAIN heard'[s] : Known(events', heard'[s][k])
      <4> SUFFICES ASSUME NEW s \in Subs
                   PROVE  joined[s] <= Len(events) + 1 /\ \A k \in DOMAIN heard[s] : Known(events', heard[s][k])
        BY <1>1, <2>7
      <4>1. joined[s] \in Nat /\ heard[s] \in Seq(Nat)
        BY <1>1, Members
      <4>2. \A k \in DOMAIN heard[s] : heard[s][k] \in Nat
        BY <4>1
      <4> QED
        BY <4>1, <4>2, <1>1, <2>9, <2>11 DEF Ordered
    <3> QED
      BY <3>1, <3>2, <3>3, <3>4 DEF Ordered
  <2>14. Delivered'
    <3> SUFFICES ASSUME NEW p \in DOMAIN map, map[p].live, NEW i \in joined[map[p].sub] + 1 .. Len(events')
                 PROVE  Count(heard[map[p].sub], events'[i].seq)
                        = IF Waits(frames', events'[i].seq, p) THEN 0 ELSE 1
      BY <1>1 DEF Delivered
    <3>1. /\ p \in Nat \ {0} /\ map[p].sub \in Subs /\ joined[map[p].sub] \in Nat
          /\ heard[map[p].sub] \in Seq(Nat)
      <4>1. map[p] \in Places /\ p \in Nat \ {0}
        BY <1>1, Members
      <4>2. map[p].sub \in Subs
        BY <4>1 DEF Places
      <4> QED
        BY <4>1, <4>2, <1>1, Members
    <3>2. CASE i <= Len(events)
      <4>1. i \in DOMAIN events /\ events'[i].seq = events[i].seq /\ events[i].seq # a.seq
        <5>1. i \in 1..Len(events)
          BY <3>1, <3>2, <2>7, <2>9
        <5>2. events'[i] = events[i] /\ events[i].seq \in Nat /\ events[i].seq < a.seq
          BY <5>1, <2>7, <2>9, <2>11
        <5> QED
          BY <5>1, <5>2, <2>2, <2>9
      <4>2. Waits(frames', events[i].seq, p) <=> Waits(frames, events[i].seq, p)
        <5>1. \A k \in DOMAIN frames' : frames'[k].seq = events[i].seq => k \in DOMAIN frames
          BY <4>1, <2>6, <2>8, <2>9
        <5> QED
          BY <5>1, <2>8, <2>9 DEF Waits
      <4> QED
        BY <4>1, <4>2, <3>2, <1>1 DEF Delivered
    <3>3. CASE i = Len(events) + 1
      <4>1. events'[i].seq = a.seq /\ Waits(frames', a.seq, p)
        BY <3>1, <3>3, <2>6, <2>7, <2>8, <2>9 DEF Waits
      <4>2. \A k \in DOMAIN heard[map[p].sub] : heard[map[p].sub][k] # a.seq
        <5>1. \A k \in DOMAIN heard[map[p].sub] : heard[map[p].sub][k] \in Nat
          BY <3>1
        <5> QED
          BY <5>1, <3>1, <1>1, <2>2, <2>11 DEF Ordered
      <4>3. Count(heard[map[p].sub], a.seq) = 0
        BY <4>2, <3>1, <2>2, HeardMore
      <4> QED
        BY <4>1, <4>3
    <3> QED
      BY <3>2, <3>3, <2>7, <2>9, <3>1
  <2> QED
    BY <1>1, <1>2, <2>10, <2>13, <2>14 DEF MemoryInv, OnePlace
<1> QED
  BY <1>3, <1>4

LEMMA DeliverStep ==
  ASSUME MemoryInv, Memory!Deliver
  PROVE  MemoryInv'
<1> DEFINE n == Len(frames)
           place == map[frames[n].next]
           frame == [frames[n] EXCEPT !.next = @ + 1, !.at = IF place.live THEN place.sub ELSE None]
           x == frames[n].seq
<1>1. /\ MemoryTypes /\ Undecided /\ Ordered /\ OnePlace /\ Delivered
      /\ frames # <<>> /\ frames[n].next \in DOMAIN map /\ frames' = [frames EXCEPT ![n] = frame]
      /\ heard' = (IF place.live THEN [heard EXCEPT ![place.sub] = Append(@, x)] ELSE heard)
      /\ UNCHANGED <<events, map, joined, call, deciding>>
  BY DEF Memory!Deliver, Memory!Top, MemoryInv, Memory!subs
<1>2. n \in DOMAIN frames /\ n \in Nat \ {0} /\ DOMAIN frames = 1..n
  BY <1>1, Members, EmptySeq DEF MemoryTypes
<1>3. frames[n] \in Frames /\ place \in Places /\ x \in Nat /\ x \in 0..MaxSeq /\ place.sub \in Subs
  BY <1>1, <1>2, Members DEF Frames, Places
<1>4. frame \in Frames /\ frame.seq = x /\ frame.next = frames[n].next + 1
  <2> DEFINE at == IF place.live THEN place.sub ELSE None
  <2>1. at \in Subs \cup {None} /\ frames[n].next + 1 \in Nat \ {0}
    BY <1>3 DEF Frames
  <2>2. frame = [frames[n] EXCEPT !.next = frames[n].next + 1, !.at = at]
    OBVIOUS
  <2> HIDE DEF at, frame
  <2> QED
    BY <1>3, <2>1, <2>2 DEF Frames
<1> HIDE DEF frame
<1>0. UNCHANGED <<events, map, joined>>
  BY <1>1
<1>5. /\ frames' \in Seq(Frames) /\ Len(frames') = n /\ DOMAIN frames' = 1..n
      /\ frames'[n] = frame /\ \A k \in 1..n : k # n => frames'[k] = frames[k]
  <2>1. frames \in Seq(Frames) /\ n \in 1..Len(frames)
    BY <1>1, <1>2 DEF MemoryTypes
  <2> QED
    BY <2>1, <1>1, <1>2, <1>4, ExceptSeq
<1>6. \A k \in DOMAIN frames : frames'[k].seq = frames[k].seq
  BY <1>2, <1>4, <1>5
<1>7. /\ heard' \in [Subs -> Seq(0..MaxSeq)]
      /\ \A s \in Subs : IF place.live /\ s = place.sub
                         THEN heard'[s] = Append(heard[s], x) ELSE heard'[s] = heard[s]
  <2>1. heard \in [Subs -> Seq(0..MaxSeq)] /\ heard[place.sub] \in Seq(0..MaxSeq)
    BY <1>1, <1>3 DEF MemoryTypes
  <2>2. Append(heard[place.sub], x) \in Seq(0..MaxSeq)
    BY <2>1, <1>3, AppendProperties
  <2>3. CASE place.live
    BY <2>1, <2>2, <2>3, <1>1, <1>3
  <2>4. CASE ~place.live
    BY <2>1, <2>4, <1>1
  <2> QED
    BY <2>3, <2>4
<1>8. MemoryTypes' /\ Undecided'
  BY <1>1, <1>5, <1>7 DEF MemoryTypes, Undecided
<1>9. Ordered'
  <2>1. Known(events, x)
    BY <1>1, <1>2 DEF Ordered
  <2>2. \A s \in Subs : \A k \in DOMAIN heard'[s] : Known(events, heard'[s][k])
    <3> SUFFICES ASSUME NEW s \in Subs, NEW k \in DOMAIN heard'[s] PROVE Known(events, heard'[s][k])
      OBVIOUS
    <3>1. CASE heard'[s] = heard[s]
      BY <3>1, <1>1 DEF Ordered
    <3>2. CASE heard'[s] = Append(heard[s], x)
      <4>1. heard[s] \in Seq(Nat)
        BY <1>1, Members
      <4>2. /\ Len(Append(heard[s], x)) = Len(heard[s]) + 1 /\ Len(heard[s]) \in Nat /\ DOMAIN heard[s] = 1..Len(heard[s])
            /\ DOMAIN Append(heard[s], x) = 1..(Len(heard[s]) + 1)
            /\ \A j \in 1..Len(heard[s]) : Append(heard[s], x)[j] = heard[s][j]
            /\ Append(heard[s], x)[Len(heard[s]) + 1] = x
        BY <4>1, <1>3, AppendProperties
      <4> QED
        BY <4>2, <3>2, <2>1, <1>1 DEF Ordered
    <3> QED
      BY <3>1, <3>2, <1>7
  <2>3. \A k \in DOMAIN frames' : Known(events, frames'[k].seq)
    BY <1>1, <1>2, <1>5, <1>6 DEF Ordered
  <2>4. \A j, k \in DOMAIN frames' : frames'[j].seq = frames'[k].seq => j = k
    <3>1. \A j, k \in DOMAIN frames : frames[j].seq = frames[k].seq => j = k
      BY <1>1 DEF Ordered
    <3> QED
      BY <3>1, <1>2, <1>5, <1>6
  <2>5. \A i, j \in DOMAIN events : i < j => events[i].seq < events[j].seq
    BY <1>1 DEF Ordered
  <2>6. \A s \in Subs : joined[s] <= Len(events)
    BY <1>1 DEF Ordered
  <2> QED
    BY <1>0, <2>2, <2>3, <2>4, <2>5, <2>6 DEF Ordered
<1>10. Delivered'
  <2> SUFFICES ASSUME NEW p \in DOMAIN map, map[p].live, NEW i \in joined[map[p].sub] + 1 .. Len(events)
               PROVE  Count(heard'[map[p].sub], events[i].seq) = IF Waits(frames', events[i].seq, p) THEN 0 ELSE 1
    BY <1>0 DEF Delivered
  <2> DEFINE e == events[i].seq
             s == map[p].sub
  <2>1. p \in Nat /\ s \in Subs /\ heard[s] \in Seq(Nat)
        /\ Count(heard[s], e) = IF Waits(frames, e, p) THEN 0 ELSE 1
    <3>1. map[p] \in Places /\ p \in Nat
      BY <1>1, Members
    <3>2. s \in Subs
      BY <3>1 DEF Places
    <3> QED
      BY <3>1, <3>2, <1>1, Members DEF Delivered
  <2>2. CASE e # x
    <3>1. Waits(frames', e, p) <=> Waits(frames, e, p)
      BY <2>2, <1>2, <1>4, <1>5 DEF Waits
    <3>2. Count(heard'[s], e) = Count(heard[s], e)
      <4>1. heard'[s] = heard[s] \/ heard'[s] = Append(heard[s], x)
        BY <2>1, <1>7
      <4>2. Count(Append(heard[s], x), e) = Count(heard[s], e)
        BY <2>1, <2>2, <1>3, HeardMore
      <4> QED
        BY <4>1, <4>2
    <3> QED
      BY <3>1, <3>2, <2>1
  <2>3. CASE e = x /\ p # frames[n].next
    <3>1. \A k \in DOMAIN frames : frames[k].seq = x => k = n
      BY <1>1, <1>2 DEF Ordered
    <3>2. frames[n].next \in Nat
      BY <1>1, <1>2, Members
    <3>3. Waits(frames, x, p) <=> frames[n].next <= p
      BY <3>1, <1>2 DEF Waits
    <3>4. Waits(frames', x, p) <=> frames[n].next + 1 <= p
      BY <3>1, <1>2, <1>4, <1>5, <1>6 DEF Waits
    <3>5. heard'[s] = heard[s]
      BY <2>1, <2>3, <1>1, <1>7 DEF OnePlace
    <3> QED
      BY <3>2, <3>3, <3>4, <3>5, <2>1, <2>3
  <2>4. CASE e = x /\ p = frames[n].next
    <3>1. \A k \in DOMAIN frames : frames[k].seq = x => k = n
      BY <1>1, <1>2 DEF Ordered
    <3>2. Waits(frames, x, p) /\ ~Waits(frames', x, p)
      <4>1. frames[n].next \in Nat
        BY <1>1, <1>2, Members
      <4>2. \A k \in DOMAIN frames' : frames'[k].seq = x => k = n
        BY <3>1, <1>2, <1>5, <1>6
      <4>3. ~Waits(frames', x, p)
        BY <4>1, <4>2, <2>4, <1>4, <1>5 DEF Waits
      <4>4. Waits(frames, x, p)
        BY <4>1, <2>4, <1>2 DEF Waits
      <4> QED
        BY <4>3, <4>4
    <3>3. Count(heard'[s], x) = Count(heard[s], x) + 1
      <4>1. heard'[s] = Append(heard[s], x)
        BY <2>1, <2>4, <1>7
      <4>2. Count(Append(heard[s], x), x) = Count(heard[s], x) + 1
        BY <2>1, <1>3, HeardMore
      <4> QED
        BY <4>1, <4>2
    <3> QED
      BY <3>2, <3>3, <2>1, <2>4
  <2> QED
    BY <2>2, <2>3, <2>4
<1> QED
  BY <1>1, <1>8, <1>9, <1>10 DEF MemoryInv, OnePlace

(* The loop on top goes, or its subscriber does.                           *)
LEMMA SubscriberEndsStep ==
  ASSUME MemoryInv, NEW s \in Subs, Memory!SubscriberEnds(s)
  PROVE  MemoryInv'
<1> DEFINE n == Len(frames)
           frame == [frames[n] EXCEPT !.at = None]
<1>1. /\ MemoryTypes /\ Undecided /\ Ordered /\ OnePlace /\ Delivered
      /\ frames' = [frames EXCEPT ![n] = frame] /\ UNCHANGED <<events, map, joined, heard, call, deciding>>
  BY DEF Memory!SubscriberEnds, MemoryInv, Memory!subs
<1>2. frames # <<>>
  <2>1. s # None /\ s # Host
    BY LocalAssumption DEF Subs, Memory!Subscribers
  <2> QED
    BY <2>1, RunningMeans DEF Memory!SubscriberEnds
<1>3. n \in DOMAIN frames /\ n \in Nat \ {0} /\ DOMAIN frames = 1..n /\ frames[n] \in Frames
  BY <1>1, <1>2, Members, EmptySeq DEF MemoryTypes
<1>4. frame \in Frames /\ frame.seq = frames[n].seq /\ frame.next = frames[n].next
  BY <1>3 DEF Frames
<1> HIDE DEF frame
<1>5. /\ frames' \in Seq(Frames) /\ DOMAIN frames' = DOMAIN frames
      /\ frames'[n] = frame /\ \A k \in 1..n : k # n => frames'[k] = frames[k]
  <2>1. frames \in Seq(Frames) /\ n \in 1..Len(frames)
    BY <1>1, <1>3 DEF MemoryTypes
  <2> QED
    BY <2>1, <1>1, <1>3, <1>4, ExceptSeq
<1>6. \A k \in DOMAIN frames : frames'[k].seq = frames[k].seq /\ frames'[k].next = frames[k].next
  BY <1>3, <1>4, <1>5
<1>7. MemoryTypes' /\ Undecided'
  BY <1>1, <1>5 DEF MemoryTypes, Undecided
<1>8. Ordered'
  BY <1>1, <1>5, <1>6 DEF Ordered
<1>9. \A x, p : Waits(frames', x, p) <=> Waits(frames, x, p)
  BY <1>5, <1>6 DEF Waits
<1>10. Delivered'
  <2>1. UNCHANGED <<events, map, joined, heard>>
    BY <1>1
  <2> QED
    BY <2>1, <1>1, <1>9 DEF Delivered
<1> QED
  BY <1>1, <1>7, <1>8, <1>10 DEF MemoryInv, OnePlace

LEMMA LoopEndsStep ==
  ASSUME MemoryInv, Memory!LoopEnds
  PROVE  MemoryInv'
<1> DEFINE n == Len(frames)
<1>1. /\ MemoryTypes /\ Undecided /\ Ordered /\ OnePlace /\ Delivered
      /\ frames # <<>> /\ frames[n].next > Len(map) /\ frames' = SubSeq(frames, 1, n - 1)
      /\ UNCHANGED <<events, map, joined, heard, call, deciding>>
  BY DEF Memory!LoopEnds, Memory!Top, Memory!Pop, MemoryInv, Memory!subs
<1>2. n \in Nat \ {0} /\ DOMAIN frames = 1..n /\ frames \in Seq(Frames)
  BY <1>1, Members, EmptySeq DEF MemoryTypes
<1>3. /\ frames' \in Seq(Frames) /\ DOMAIN frames' = 1..(n - 1)
      /\ \A k \in 1..(n - 1) : frames'[k] = frames[k]
  BY <1>1, <1>2, SubSeqProperties
<1>4. MemoryTypes' /\ Undecided'
  BY <1>1, <1>3 DEF MemoryTypes, Undecided
<1>5. Ordered'
  BY <1>1, <1>2, <1>3 DEF Ordered
<1>6. \A x : \A p \in DOMAIN map : Waits(frames', x, p) <=> Waits(frames, x, p)
  <2>1. \A p \in DOMAIN map : ~(frames[n].next <= p)
    BY <1>1, <1>2, Members
  <2> QED
    BY <2>1, <1>2, <1>3 DEF Waits
<1>7. Delivered'
  BY <1>1, <1>6 DEF Delivered
<1> QED
  BY <1>1, <1>4, <1>5, <1>7 DEF MemoryInv, OnePlace

LEMMA SubscribeStep ==
  ASSUME MemoryInv, NEW s \in Subs, Memory!Subscribe(s)
  PROVE  MemoryInv'
<1> DEFINE n == Len(map)
           place == [sub |-> s, live |-> TRUE]
<1>1. /\ MemoryTypes /\ Undecided /\ Ordered /\ OnePlace /\ Delivered
      /\ UNCHANGED <<events, frames, heard, call, deciding>>
  BY DEF Memory!Subscribe, MemoryInv
<1>2. CASE Memory!Subscribed(s)
  <2>1. UNCHANGED <<map, joined>>
    BY <1>2 DEF Memory!Subscribe
  <2> QED
    BY <1>1, <2>1, ReaderStep
<1>3. CASE ~Memory!Subscribed(s)
  <2>1. map' = Append(map, place) /\ joined' = [joined EXCEPT ![s] = Len(events)]
    BY <1>3 DEF Memory!Subscribe
  <2>2. map \in Seq(Places) /\ place \in Places /\ place.sub = s /\ n \in Nat /\ DOMAIN map = 1..n
        /\ Len(events) \in Nat
    BY <1>1, Members DEF Places, MemoryTypes
  <2> HIDE DEF place
  <2>3. /\ map' \in Seq(Places) /\ DOMAIN map' = 1..(n + 1)
        /\ (\A p \in 1..n : map'[p] = map[p]) /\ map'[n + 1] = place
    BY <2>1, <2>2, AppendProperties
  <2>4. /\ joined' \in [Subs -> Nat] /\ joined'[s] = Len(events)
        /\ \A r \in Subs : r # s => joined'[r] = joined[r]
    BY <1>1, <2>1, <2>2 DEF MemoryTypes
  <2>5. MemoryTypes' /\ Undecided'
    BY <1>1, <2>3, <2>4 DEF MemoryTypes, Undecided
  <2>6. Ordered'
    BY <1>1, <2>2, <2>4 DEF Ordered
  <2>7. \A p \in DOMAIN map : map[p].live => map[p].sub # s
    BY <1>3 DEF Memory!Subscribed
  <2>8. OnePlace'
    BY <1>1, <2>2, <2>3, <2>7 DEF OnePlace
  <2>9. Delivered'
    <3> SUFFICES ASSUME NEW p \in DOMAIN map', map'[p].live, NEW i \in joined'[map'[p].sub] + 1 .. Len(events)
                 PROVE  Count(heard[map'[p].sub], events[i].seq) = IF Waits(frames, events[i].seq, p) THEN 0 ELSE 1
      BY <1>1 DEF Delivered
    <3>1. CASE p \in DOMAIN map
      <4>1. map'[p] = map[p] /\ map[p].sub \in Subs /\ map[p].sub # s
        BY <3>1, <1>1, <2>2, <2>3, <2>7, Members DEF Places
      <4> QED
        BY <4>1, <3>1, <1>1, <2>4 DEF Delivered
    <3>2. CASE p = n + 1
      BY <3>2, <2>2, <2>3, <2>4
    <3> QED
      BY <3>1, <3>2, <2>2, <2>3
  <2> QED
    BY <2>5, <2>6, <2>8, <2>9 DEF MemoryInv
<1> QED
  BY <1>2, <1>3

LEMMA UnsubscribeStep ==
  ASSUME MemoryInv, NEW s \in Subs, Memory!Unsubscribe(s)
  PROVE  MemoryInv'
<1>1. /\ MemoryTypes /\ Undecided /\ Ordered /\ OnePlace /\ Delivered
      /\ map' = [i \in DOMAIN map |-> IF map[i].sub = s THEN [map[i] EXCEPT !.live = FALSE] ELSE map[i]]
      /\ UNCHANGED <<events, frames, joined, heard, call, deciding>>
  BY DEF Memory!Unsubscribe, MemoryInv
<1>2. \A p \in DOMAIN map : map[p] \in Places
  BY <1>1, Members
<1>3. \A p \in DOMAIN map : [map[p] EXCEPT !.live = FALSE] \in Places /\ [map[p] EXCEPT !.live = FALSE].live = FALSE
  BY <1>2 DEF Places
<1>4. /\ DOMAIN map' = DOMAIN map /\ \A p \in DOMAIN map : map'[p] \in Places
      /\ \A p \in DOMAIN map : map'[p].live => map'[p] = map[p]
  BY <1>1, <1>2, <1>3
<1>5. map' \in Seq(Places)
  <2>1. Len(map) \in Nat /\ DOMAIN map = 1..Len(map)
    BY <1>1, Members
  <2>2. map' \in [1..Len(map) -> Places]
    BY <2>1, <1>1, <1>4
  <2> QED
    BY <2>1, <2>2, SeqDef
<1>6. MemoryTypes' /\ Undecided' /\ Ordered'
  BY <1>1, <1>5 DEF MemoryTypes, Undecided, Ordered
<1>7. OnePlace'
  BY <1>1, <1>4 DEF OnePlace
<1>8. Delivered'
  BY <1>1, <1>4 DEF Delivered
<1> QED
  BY <1>6, <1>7, <1>8 DEF MemoryInv

-----------------------------------------------------------------------------
(* The log in memory: what holds of it always.                             *)
LEMMA MemoryStarts == Memory!Init => MemoryInv
<1> SUFFICES ASSUME Memory!Init PROVE MemoryInv
  OBVIOUS
<1>1. MemoryTypes
  <2>1. \A S : <<>> \in Seq(S)
    BY EmptySeq
  <2> QED
    BY <2>1 DEF Memory!Init, MemoryTypes, Subs
<1>2. Undecided /\ Ordered /\ OnePlace /\ Delivered
  BY DEF Memory!Init, Undecided, Ordered, OnePlace, Delivered, Subs
<1> QED
  BY <1>1, <1>2 DEF MemoryInv

LEMMA MemoryStep ==
  ASSUME MemoryInv, [Memory!Next]_Memory!vars
  PROVE  MemoryInv'
<1>1. CASE UNCHANGED Memory!vars
  BY <1>1, ReaderStep DEF Memory!vars
<1>2. CASE Memory!Next
  <2>1. CASE \E c \in Local : Memory!Return(c) \/ \E r \in Memory!Requests : Memory!AppendCall(c, r)
    BY <2>1, ReturnStep, AppendCallStep
  <2>2. CASE \E s \in Subs : Memory!Subscribe(s) \/ Memory!Unsubscribe(s) \/ Memory!SubscriberEnds(s)
    BY <2>2, SubscribeStep, UnsubscribeStep, SubscriberEndsStep
  <2>3. CASE Memory!Consumed \/ \E from \in 0..MaxSeq : Memory!Read(from)
    BY <2>3, ReaderStep DEF Memory!Consumed, Memory!Read, Memory!subs
  <2>4. CASE Memory!Decide \/ Memory!Deliver \/ Memory!LoopEnds
    BY <2>4, DecideStep, DeliverStep, LoopEndsStep
  <2> QED
    BY <1>2, <2>1, <2>2, <2>3, <2>4 DEF Memory!Next, Subs
<1> QED
  BY <1>1, <1>2

LEMMA MemoryHolds == Spec => [](store = "memory" => MemoryInv)
<1>1. Init => (store = "memory" => MemoryInv)
  BY MemoryStarts DEF Init
<1>2. (store = "memory" => MemoryInv) /\ [Next]_vars => (store = "memory" => MemoryInv)'
  BY OwnSteps, MemoryStep
<1> QED
  BY <1>1, <1>2, PTL DEF Spec

(* A subscriber that stays in the map hears every later event exactly      *)
(* once, however many subscribers there are, whatever they append, add and *)
(* remove while an event is delivered, and however deep their appends nest. *)
THEOREM SubscribersHearOnce == Spec => []HeardOnce
<1>1. MemoryInv => Memory!HeardOnce
  <2> SUFFICES ASSUME MemoryInv, frames = <<>>, NEW s \in Subs, Memory!Subscribed(s),
                      NEW i \in joined[s] + 1 .. Len(events)
               PROVE  Cardinality({k \in DOMAIN heard[s] : heard[s][k] = events[i].seq}) = 1
    BY DEF Memory!HeardOnce, Subs, Memory!Cardinality, Cardinality
  <2>1. PICK p \in DOMAIN map : map[p].sub = s /\ map[p].live
    BY DEF Memory!Subscribed
  <2>2. ~Waits(frames, events[i].seq, p)
    BY DEF Waits
  <2> QED
    BY <2>1, <2>2 DEF MemoryInv, Delivered, Count
<1>2. (store = "memory" => MemoryInv) => HeardOnce
  BY <1>1 DEF HeardOnce
<1> QED
  BY <1>2, MemoryHolds, PTL

-----------------------------------------------------------------------------
(* The log in memory: the contract.                                        *)
LEMMA SeenOfMemory ==
  /\ store = "memory" =>
       /\ processLog = Memory!Stored /\ processCall = call
       /\ processReading = [c \in Local |-> IF c = Host THEN reading ELSE None]
  /\ store' = "memory" =>
       /\ processLog' = Memory!Stored' /\ processCall' = call'
       /\ processReading' = [c \in Local |-> IF c = Host THEN reading' ELSE None]
BY DEF processLog, processCall, processReading

(* The head of what is stored is the last event.                           *)
LEMMA HeadOfStored ==
  ASSUME MemoryTypes, Ordered
  PROVE  /\ events = <<>> => Memory!Stored = {} /\ Process!HeadOf(Memory!Stored) = -1
         /\ events # <<>> => Process!HeadOf(Memory!Stored) = events[Len(events)].seq
         /\ \A e \in Memory!Stored : e.seq \in Nat /\ e.seq <= Process!HeadOf(Memory!Stored)
         /\ Process!HeadOf(Memory!Stored) = Memory!HeadOf(Memory!Stored)
<1>1. CASE events = <<>>
  BY <1>1 DEF Memory!Stored, Process!HeadOf, Memory!HeadOf
<1>2. CASE events # <<>>
  <2> DEFINE last == events[Len(events)].seq
             seqs == {e.seq : e \in Memory!Stored}
  <2>1. /\ Len(events) \in DOMAIN events /\ last \in Nat
        /\ \A i \in DOMAIN events : events[i].seq \in Nat /\ events[i].seq <= last
    BY <1>2, LastIsGreatest, Members
  <2>2. Memory!Stored # {} /\ last \in seqs /\ \A x \in seqs : x \in Nat /\ x <= last
    BY <2>1 DEF Memory!Stored
  <2>3. (CHOOSE x \in seqs : \A y \in seqs : x >= y) = last
    <3> HIDE DEF seqs, last
    <3>1. \E x \in seqs : \A y \in seqs : x >= y
      BY <2>1, <2>2
    <3>2. \A x \in seqs : (\A y \in seqs : x >= y) => x = last
      BY <2>1, <2>2
    <3> QED
      BY <3>1, <3>2
  <2>4. Process!HeadOf(Memory!Stored) = last /\ Memory!HeadOf(Memory!Stored) = last
    BY <2>2, <2>3 DEF Process!HeadOf, Memory!HeadOf, Process!Max, Memory!Max
  <2> QED
    BY <2>2, <2>4, <1>2
<1> QED
  BY <1>1, <1>2

(* An append is decided as the contract says.                              *)
LEMMA RefusalIsAnswer ==
  ASSUME MemoryTypes, Ordered, NEW a \in Calls, store = "memory"
  PROVE  /\ Memory!Refusal(a) = None <=> Process!Answer(a) = "ok"
         /\ Memory!Refusal(a) # None => Process!Answer(a) = Memory!Refusal(a)
<1>1. processLog = Memory!Stored
  BY SeenOfMemory
<1>2. /\ Process!ValidInput(a) <=> Memory!ValidInput(a)
      /\ \A h : Process!Conflicts(a, h) <=> Memory!Conflicts(a, h)
  BY DEF Process!ValidInput, Memory!ValidInput, Process!Conflicts, Memory!Conflicts
<1>3. a.seq \in Int /\ (Memory!ValidInput(a) => a.seq >= 0) /\ None \notin Answers
  BY StoreAssumption DEF Calls, Memory!ValidInput, Answers
<1>4. Process!Follows(a, Process!HeadOf(Memory!Stored)) <=> a.seq > Process!HeadOf(Memory!Stored)
  BY DEF Process!Follows
<1>5. Memory!ValidInput(a) =>
        (a.seq > Process!HeadOf(Memory!Stored) <=> ~(events # <<>> /\ a.seq <= events[Len(events)].seq))
  <2>1. CASE events = <<>>
    BY <2>1, <1>3, HeadOfStored
  <2>2. CASE events # <<>>
    <3>1. events[Len(events)].seq \in Int
      BY <2>2, LastIsGreatest, Members
    <3> QED
      BY <2>2, <3>1, <1>3, HeadOfStored
  <2> QED
    BY <2>1, <2>2
<1>6. Process!HeadOf(Memory!Stored) = Memory!HeadOf(Memory!Stored)
  BY HeadOfStored
<1>7. CASE ~Memory!ValidInput(a)
  BY <1>7, <1>2, <1>3 DEF Memory!Refusal, Process!Answer, Answers
<1>8. CASE Memory!ValidInput(a) /\ Memory!Conflicts(a, Memory!HeadOf(Memory!Stored))
  BY <1>8, <1>1, <1>2, <1>3, <1>6 DEF Memory!Refusal, Process!Answer, Answers
<1>9. CASE Memory!ValidInput(a) /\ ~Memory!Conflicts(a, Memory!HeadOf(Memory!Stored))
  BY <1>9, <1>1, <1>2, <1>3, <1>4, <1>5, <1>6 DEF Memory!Refusal, Process!Answer, Answers
<1> QED
  BY <1>7, <1>8, <1>9

LEMMA MemoryKeeps ==
  ASSUME MemoryInv, Memory!Next, store = "memory", store' = "memory"
  PROVE  [Process!ContractNext]_Process!contractVars
<1>1. processLog = Memory!Stored /\ processLog' = Memory!Stored' /\ processCall = call /\ processCall' = call'
  BY SeenOfMemory
<1>2. UNCHANGED events => UNCHANGED processLog
  BY <1>1 DEF Memory!Stored
<1>3. UNCHANGED reading => UNCHANGED processReading
  BY SeenOfMemory
<1>4. UNCHANGED InProcess
  BY DEF InProcess
<1>5. ASSUME NEW c \in Local, NEW r \in Memory!Requests, Memory!AppendCall(c, r) PROVE Process!ContractNext
  <2>1. Memory!Requests = Process!Requests /\ Memory!Calling(r) = Process!Calling(r)
    BY DEF Memory!Requests, Process!Requests, Memory!Calling, Process!Calling
  <2>2. Process!Append(c, r)
    BY <1>1, <1>2, <1>3, <1>4, <1>5, <2>1 DEF Memory!AppendCall, Process!Append
  <2> QED
    BY <2>1, <2>2 DEF Process!ContractNext
<1>6. ASSUME NEW c \in Local, Memory!Return(c) PROVE Process!ContractNext
  <2>1. [InProcess EXCEPT ![c] = None] = InProcess
    BY DEF InProcess
  <2>2. Process!Return(c)
    BY <1>1, <1>2, <1>3, <1>4, <1>6, <2>1 DEF Memory!Return, Process!Return
  <2> QED
    BY <2>2 DEF Process!ContractNext
<1>7. ASSUME Memory!Decide PROVE Process!ContractNext
  <2> DEFINE c == deciding
             a == call[deciding]
             entry == [seq |-> a.seq, by |-> c]
  <2>1. /\ c \in Local /\ a \in Calls /\ a # None /\ a.answer = None /\ UNCHANGED reading
        /\ MemoryTypes /\ Ordered
    BY <1>7 DEF Memory!Decide, MemoryInv, MemoryTypes, Undecided
  <2>2. /\ Memory!Refusal(a) = None <=> Process!Answer(a) = "ok"
        /\ Memory!Refusal(a) # None => Process!Answer(a) = Memory!Refusal(a)
    BY <2>1, RefusalIsAnswer
  <2>3. CASE Memory!Refusal(a) # None
    <3>1. call' = [call EXCEPT ![c].answer = Process!Answer(a)] /\ UNCHANGED events /\ Process!Answer(a) # "ok"
      BY <1>7, <2>2, <2>3 DEF Memory!Decide
    <3>2. Process!Decide(c)
      BY <3>1, <2>1, <1>1, <1>2, <1>3, <1>4 DEF Process!Decide
    <3> QED
      BY <3>2, <2>1 DEF Process!ContractNext
  <2>4. CASE Memory!Refusal(a) = None
    <3>1. /\ call' = [call EXCEPT ![c].answer = Process!Answer(a)] /\ Process!Answer(a) = "ok"
          /\ events' = Append(events, entry)
      BY <1>7, <2>2, <2>4 DEF Memory!Decide
    <3>2. entry \in Memory!Entries
      <4>1. Memory!ValidInput(a)
        BY <2>4, StoreAssumption DEF Memory!Refusal
      <4> QED
        BY <4>1, <2>1, StoreAssumption DEF Memory!ValidInput, Calls, Memory!Entries
    <3>3. Memory!Stored' = Memory!Stored \cup {entry}
      <4> HIDE DEF entry
      <4>1. events \in Seq(Memory!Entries) /\ Len(events) \in Nat /\ DOMAIN events = 1..Len(events)
        BY <2>1 DEF MemoryTypes
      <4>2. /\ DOMAIN events' = 1..(Len(events) + 1) /\ events'[Len(events) + 1] = entry
            /\ \A i \in 1..Len(events) : events'[i] = events[i]
        BY <4>1, <3>1, <3>2, AppendProperties
      <4> QED
        BY <4>1, <4>2 DEF Memory!Stored
    <3>4. Process!Decide(c)
      BY <3>1, <3>3, <2>1, <1>1, <1>3, <1>4 DEF Process!Decide
    <3> QED
      BY <3>4, <2>1 DEF Process!ContractNext
  <2> QED
    BY <2>3, <2>4
<1>8. ASSUME NEW from \in 0..MaxSeq, Memory!Read(from) PROVE Process!ContractNext
  <2> DEFINE answer == [from |-> from, events |-> {e \in Memory!Stored : e.seq >= from}]
  <2>1. answer = [from |-> from, events |-> Process!Between(Memory!Stored, from, Process!HeadOf(Memory!Stored))]
    <3>1. \A e \in Memory!Stored : e.seq \in Nat /\ e.seq <= Process!HeadOf(Memory!Stored)
      BY HeadOfStored DEF MemoryInv
    <3>2. {e \in Memory!Stored : e.seq >= from}
          = Process!Between(Memory!Stored, from, Process!HeadOf(Memory!Stored))
      BY <3>1 DEF Process!Between
    <3> QED
      BY <3>2
  <2>2. reading' = answer /\ UNCHANGED <<events, call>>
    BY <1>8 DEF Memory!Read
  <2> HIDE DEF answer
  <2>3. processReading' = [processReading EXCEPT ![Host] = answer]
    BY <2>2, SeenOfMemory, LocalAssumption
  <2>4. Process!Read(Host, from)
    BY <1>1, <1>2, <1>4, <2>1, <2>2, <2>3 DEF Process!Read
  <2> QED
    BY <2>4, LocalAssumption DEF Process!ContractNext
<1>9. ASSUME Memory!Consumed PROVE Process!ContractNext
  <2>1. reading' = None /\ UNCHANGED <<events, call>>
    BY <1>9 DEF Memory!Consumed
  <2>2. processReading' = [processReading EXCEPT ![Host] = None]
    BY <2>1, SeenOfMemory, LocalAssumption
  <2>3. Process!ReadReturn(Host)
    BY <1>1, <1>2, <1>4, <2>1, <2>2 DEF Process!ReadReturn
  <2> QED
    BY <2>3, LocalAssumption DEF Process!ContractNext
<1>10. ASSUME UNCHANGED <<events, call, reading>> PROVE UNCHANGED Process!contractVars
  BY <1>1, <1>2, <1>3, <1>4, <1>10 DEF Process!contractVars
<1>11. ASSUME NEW s \in Memory!Subscribers,
              Memory!Subscribe(s) \/ Memory!Unsubscribe(s) \/ Memory!SubscriberEnds(s)
       PROVE  UNCHANGED <<events, call, reading>>
  BY <1>11 DEF Memory!Subscribe, Memory!Unsubscribe, Memory!SubscriberEnds
<1>12. ASSUME Memory!Deliver \/ Memory!LoopEnds PROVE UNCHANGED <<events, call, reading>>
  BY <1>12 DEF Memory!Deliver, Memory!LoopEnds
<1> QED
  BY <1>5, <1>6, <1>7, <1>8, <1>9, <1>10, <1>11, <1>12 DEF Memory!Next

(* The log in memory is an EventLog: append compares and writes in one     *)
(* step, also when a subscriber calls it while another event is delivered, *)
(* and read is a snapshot; its numbers increase, with gaps if the callers  *)
(* leave them.                                                             *)
THEOREM MemoryIsLog == Spec => MemoryKeepsContract
<1>1. Init => Process!ContractInit
  <2> SUFFICES ASSUME Init PROVE Process!ContractInit
    OBVIOUS
  <2>1. CASE store = "memory"
    BY <2>1, SeenOfMemory DEF Init, Memory!Init, Memory!Stored, Process!ContractInit, InProcess
  <2>2. CASE store # "memory"
    BY <2>2 DEF Process!ContractInit, processLog, processCall, processReading, InProcess
  <2> QED
    BY <2>1, <2>2
<1>2. (store = "memory" => MemoryInv) /\ [Next]_vars => [Process!ContractNext]_Process!contractVars
  <2> SUFFICES ASSUME store = "memory" => MemoryInv, [Next]_vars
               PROVE  [Process!ContractNext]_Process!contractVars
    OBVIOUS
  <2>1. store' = store
    BY OwnSteps
  <2>2. CASE store # "memory"
    BY <2>1, <2>2 DEF Process!contractVars, processLog, processCall, processReading, InProcess
  <2>3. CASE store = "memory" /\ Memory!Next
    BY <2>1, <2>3, MemoryKeeps
  <2>4. CASE store = "memory" /\ UNCHANGED Memory!vars
    BY <2>1, <2>4, SeenOfMemory DEF Process!contractVars, Memory!vars, Memory!Stored, InProcess
  <2> QED
    BY <2>2, <2>3, <2>4, OwnSteps
<1> QED
  BY <1>1, <1>2, MemoryHolds, PTL DEF Spec, MemoryKeepsContract, Process!Contract
=============================================================================
