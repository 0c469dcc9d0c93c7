------------------------------- MODULE EventLogs -------------------------------
(***************************************************************************)
(* The EventLog a session is opened with is the one in memory or that of a *)
(* configured StorePort (SqliteStore, MySqlStore, RedisStore).  `store`    *)
(* says which; whichever it is, its callers see the one contract.          *)
(***************************************************************************)
EXTENDS StoreSupport, Sequences

CONSTANTS
  Orphan,                  \* see MySqlEventLog
  Host, Local, MaxHandles  \* see InMemoryEventLog, whose clients are Local

ASSUME OrphanAssumption == Orphan \notin Clients \cup {None}
ASSUME LocalAssumption == Host \in Local /\ None \notin Local

VARIABLE store   \* which log it is

(* What the databases keep, what their clients do, and the log in memory.  *)
VARIABLES rows, head, lock, dirty, shared, owner, orphan, events, late
VARIABLES pc, call, read, told, closed
VARIABLES map, handles, issued, frames, deciding, reading, joined, heard

Sqlite == INSTANCE SqliteEventLog
MySql == INSTANCE MySqlEventLog
Redis == INSTANCE RedisEventLog
Memory == INSTANCE InMemoryEventLog WITH Clients <- Local, Contiguous <- FALSE

sqlOnly == <<rows, dirty>>
mysqlOnly == <<shared, owner, orphan>>
redisOnly == <<late>>
durable == <<head, pc, read, told, closed>>
memoryOnly == <<map, handles, issued, frames, deciding, reading, joined, heard>>

NoSqlite == lock = None
NoSql == rows = None /\ dirty = None
NoMySql == shared = None /\ owner = None /\ orphan = None
NoRedis == late = None
NoDurable == head = None /\ pc = None /\ read = None /\ told = None /\ closed = None
NoMemory ==
  /\ map = None /\ handles = None /\ issued = None /\ frames = None /\ deciding = None
  /\ reading = None /\ joined = None /\ heard = None

Init ==
  \/ store = "sqlite" /\ Sqlite!Init /\ NoMySql /\ NoRedis /\ events = None /\ NoMemory
  \/ store = "mysql" /\ MySql!Init /\ NoSqlite /\ NoRedis /\ events = None /\ NoMemory
  \/ store = "redis" /\ Redis!Init /\ NoSqlite /\ NoSql /\ NoMySql /\ NoMemory
  \/ store = "memory" /\ Memory!Init /\ NoSqlite /\ NoSql /\ NoMySql /\ NoRedis /\ NoDurable

Next ==
  /\ UNCHANGED store
  /\ \/ store = "sqlite" /\ Sqlite!Next /\ UNCHANGED <<mysqlOnly, redisOnly, events, memoryOnly>>
     \/ store = "mysql" /\ MySql!Next /\ UNCHANGED <<lock, redisOnly, events, memoryOnly>>
     \/ store = "redis" /\ Redis!Next /\ UNCHANGED <<lock, sqlOnly, mysqlOnly, memoryOnly>>
     \/ store = "memory" /\ Memory!Next /\ UNCHANGED <<lock, sqlOnly, mysqlOnly, redisOnly, durable>>

vars == <<store, lock, sqlOnly, mysqlOnly, events, redisOnly, durable, call, memoryOnly>>

Spec == Init /\ [][Next]_vars

-----------------------------------------------------------------------------
Nobody == [c \in Clients |-> None]

(* What the callers of a database see of it, as their contract names it.   *)
databaseLog ==
  CASE store \in {"sqlite", "mysql"} -> rows
    [] store = "redis" -> events
    [] store = "memory" -> {}
databaseCall == IF store = "memory" THEN Nobody ELSE call
databaseTold == IF store = "memory" THEN Nobody ELSE told
databaseReading ==
  CASE store = "sqlite" -> [c \in Clients |-> Sqlite!Returned(c)]
    [] store = "mysql" -> [c \in Clients |-> MySql!Returned(c)]
    [] store = "redis" -> [c \in Clients |-> Redis!Returned(c)]
    [] store = "memory" -> Nobody
databaseOrphans ==
  CASE store \in {"sqlite", "memory"} -> {}
    [] store = "mysql" -> IF owner = Orphan THEN {orphan} ELSE {}
    [] store = "redis" -> late

Database == INSTANCE EventLogContract WITH
  log <- databaseLog, call <- databaseCall, reading <- databaseReading,
  orphans <- databaseOrphans, told <- databaseTold

(* Statement by statement, with other processes, lost connections, lost    *)
(* answers and crashes in between, append still compares and writes in one *)
(* step, read is one snapshot, and nobody hears of an event that was not   *)
(* written, whatever the store.                                            *)
StoresKeepContract == Database!Contract

InProcess == [c \in Local |-> None]

processLog == IF store = "memory" THEN Memory!Stored ELSE {}
processCall == IF store = "memory" THEN call ELSE InProcess
processReading ==
  IF store = "memory" THEN [c \in Local |-> IF c = Host THEN reading ELSE None] ELSE InProcess

Process == INSTANCE EventLogContract WITH
  Clients <- Local, Contiguous <- FALSE, orphans <- {}, told <- InProcess,
  log <- processLog, call <- processCall, reading <- processReading

(* The log in memory compares and writes in one step also when append is   *)
(* called by a subscriber of another append.                               *)
MemoryKeepsContract == Process!Contract

(* The head a store keeps beside the events is the last event, after any   *)
(* crash, retry or late command, and every number up to it was used once.  *)
HeadIsLast ==
  CASE store = "sqlite" -> Sqlite!HeadIsLast
    [] store = "mysql" -> MySql!HeadIsLast
    [] store = "redis" -> Redis!HeadIsLast
    [] store = "memory" -> TRUE

(* In memory: a subscriber hears every event after it joined exactly once, *)
(* whatever the subscribers do while one is delivered.                     *)
HeardOnce == store = "memory" => Memory!HeardOnce
=============================================================================
