---------------------------- MODULE TierDBCatalog ----------------------------
(***************************************************************************)
(* The caches of an attached TierDB catalog.                               *)
(*                                                                         *)
(* DuckDB's threads look tables up and list them while tierdb.tables       *)
(* changes beside them.  TierDBCatalog loads its schemas once, each schema *)
(* entry fills its map of tables as they are asked for, and a table entry  *)
(* is handed out as a bare pointer.  schema_lock is held over LoadSchemas, *)
(* the table_lock of a schema over a look-up or a scan of it; the client's *)
(* own lock makes each of its calls one step here.                         *)
(*                                                                         *)
(* Some definitions are preceded by variants of themselves that no action  *)
(* uses: each makes a mistake that the properties at the end must notice.  *)
(***************************************************************************)
CONSTANTS
  Threads,
  Schemas,   \* Postgres schemas, one spelling each
  Names,     \* spellings of table names
  Fold,      \* the key of a spelling in case_insensitive_map_t
  Tables,    \* tables that tierdb.tables may hold, spelled exactly
  Kept,      \* those of them that are registered at ATTACH and stay so
  NoTable    \* the table of a call that deals with none

Id == [schema : Schemas, name : Names]

ASSUME ConstantsOK ==
  /\ Fold \in [Names -> Names]
  /\ Tables \subseteq Id
  /\ Kept \subseteq Tables
  /\ NoTable \notin Id

VARIABLES
  registry,      \* tierdb.tables
  schemaLock,    \* the thread in schema_lock, if any
  schemasLoaded, \* schemas_loaded
  schemas,       \* TierDBCatalog::schemas
  tableLock,     \* the thread in the table_lock of each schema, if any
  tables,        \* TierDBSchemaEntry::tables of all schemas
  handedOut,     \* table entries that DuckDB was given pointers to
  call,          \* what each thread does
  steady         \* tables registered since the thread's call began

vars == <<registry, schemaLock, schemasLoaded, schemas, tableLock, tables,
          handedOut, call, steady>>
catalogVars == <<schemaLock, schemasLoaded, schemas>>
entryVars == <<tableLock, tables, handedOut>>
world == <<registry, steady>>

(* Two entries of one table are told apart by the thread that made them. *)
Entry == {e \in [schema : Schemas, key : Names, name : Names, by : Threads] :
            e.key = Fold[e.name]}

(* at       what the thread does next, or what its call returned            *)
(* table    the table it looks up, or the one that its scan has come to     *)
(* current  the schema that it looks the table up in, or scans              *)
(* toScan   the schemas it has to scan after the current one                *)
(* refs     what ListTables returned and the scan has not come to           *)
(* seen     the entries that its scans were given                           *)
Call == [op : {"none", "lookup", "list", "cached"},
         at : {"idle", "schema", "loading", "table", "fetching", "refs",
               "scan", "scanning", "found", "none", "listed", "error"},
         table : Id \cup {NoTable}, current : SUBSET Schemas,
         toScan : SUBSET Schemas, refs : SUBSET Tables, seen : SUBSET Entry]

Idle == [op |-> "none", at |-> "idle", table |-> NoTable, current |-> {},
         toScan |-> {}, refs |-> {}, seen |-> {}]

TypeOK ==
  /\ registry \subseteq Tables
  /\ schemaLock \subseteq Threads
  /\ schemasLoaded \in BOOLEAN
  /\ schemas \subseteq Schemas
  /\ tableLock \in [Schemas -> SUBSET Threads]
  /\ tables \subseteq Entry
  /\ handedOut \subseteq Entry
  /\ call \in [Threads -> Call]
  /\ steady \in [Threads -> SUBSET Tables]

Init ==
  /\ registry \in {reg \in SUBSET Tables : Kept \subseteq reg}
  /\ schemaLock = {}
  /\ schemasLoaded = FALSE
  /\ schemas = {}
  /\ tableLock = [s \in Schemas |-> {}]
  /\ tables = {}
  /\ handedOut = {}
  /\ call = [th \in Threads |-> Idle]
  /\ steady = [th \in Threads |-> {}]

-----------------------------------------------------------------------------
(* tierdb.tables changes. *)

Register ==
  /\ \E id \in Tables \ registry : registry' = registry \cup {id}
  /\ UNCHANGED <<catalogVars, entryVars, call, steady>>

Unregister ==
  /\ \E id \in registry \ Kept :
       /\ registry' = registry \ {id}
       /\ steady' = [th \in Threads |-> steady[th] \ {id}]
  /\ UNCHANGED <<catalogVars, entryVars, call>>

-----------------------------------------------------------------------------
(* A thread calls the catalog. *)

Goto(th, at) == call' = [call EXCEPT ![th].at = at]
Fail(th) == call' = [call EXCEPT ![th] = [Idle EXCEPT !.at = "error"]]
GoOnScanning(th) == call' = [call EXCEPT ![th].at = "scanning", ![th].table = NoTable]

Begin(th, op, id) ==
  /\ call[th].at = "idle"
  /\ call' = [call EXCEPT ![th] = [Idle EXCEPT !.op = op, !.at = "schema", !.table = id]]
  /\ steady' = [steady EXCEPT ![th] = registry]
  /\ UNCHANGED <<registry, catalogVars, entryVars>>

Lookup(th) == \E id \in Id : Begin(th, "lookup", id)
List(th) == Begin(th, "list", NoTable)

Return(th) ==
  /\ call[th].at \in {"found", "none", "listed", "error"}
  /\ call' = [call EXCEPT ![th] = Idle]
  /\ steady' = [steady EXCEPT ![th] = {}]
  /\ UNCHANGED <<registry, catalogVars, entryVars>>

-----------------------------------------------------------------------------
(* LookupSchema and ScanSchemas. *)

(* A mutex that is no mutex. *)
AlwaysFree(lock) == TRUE

Free(lock) == lock = {}

(* The look-up goes on in its schema, if there is one; a list goes on with   *)
(* the schemas that the callback of ScanSchemas collected.                   *)
GoOn(th, known) ==
  \/ /\ call[th].op = "lookup"
     /\ call[th].table.schema \in known
     /\ call' = [call EXCEPT ![th].at = "table", ![th].current = {call[th].table.schema}]
  \/ /\ call[th].op = "lookup"
     /\ call[th].table.schema \notin known
     /\ Goto(th, "none")
  \/ /\ call[th].op = "list"
     /\ call' = [call EXCEPT ![th].at = IF known = {} THEN "listed" ELSE "refs",
                             ![th].toScan = known]

FindSchemas(th) ==
  /\ call[th].at = "schema"
  /\ Free(schemaLock)
  /\ schemasLoaded
  /\ GoOn(th, schemas)
  /\ UNCHANGED <<world, catalogVars, entryVars>>

LockSchemas(th) ==
  /\ call[th].at = "schema"
  /\ Free(schemaLock)
  /\ ~schemasLoaded
  /\ schemaLock' = {th}
  /\ Goto(th, "loading")
  /\ UNCHANGED <<schemasLoaded, schemas, world, entryVars>>

LoadSchemas(th) ==
  /\ call[th].at = "loading"
  /\ schemas' = schemas \cup {id.schema : id \in registry}
  /\ schemasLoaded' = TRUE
  /\ schemaLock' = schemaLock \ {th}
  /\ GoOn(th, schemas')
  /\ UNCHANGED <<world, entryVars>>

(* schemas_loaded set before ListTables is asked. *)
LoadFailsLoaded(th) ==
  /\ call[th].at = "loading"
  /\ schemasLoaded' = TRUE
  /\ schemaLock' = schemaLock \ {th}
  /\ Fail(th)
  /\ UNCHANGED <<schemas, world, entryVars>>

(* ListTables fails; the next call loads the schemas again.  (An answer that  *)
(* is no JSON would be taken for an empty list; tierdb-core-ffi sends none.)  *)
LoadFails(th) ==
  /\ call[th].at = "loading"
  /\ schemaLock' = schemaLock \ {th}
  /\ Fail(th)
  /\ UNCHANGED <<schemasLoaded, schemas, world, entryVars>>

-----------------------------------------------------------------------------
(* TierDBSchemaEntry::LookupEntry and Scan. *)

(* tables.find *)
Cached(id) == {e \in tables : e.schema = id.schema /\ e.key = Fold[id.name]}

Release(th) == tableLock' = [s \in Schemas |-> tableLock[s] \ {th}]

Find(th) ==
  /\ call[th].at = "table"
  /\ Free(tableLock[call[th].table.schema])
  /\ Cached(call[th].table) # {}
  /\ handedOut' = handedOut \cup Cached(call[th].table)
  /\ Goto(th, "found")
  /\ UNCHANGED <<tableLock, tables, world, catalogVars>>

LockToFetch(th) ==
  /\ call[th].at = "table"
  /\ Free(tableLock[call[th].table.schema])
  /\ Cached(call[th].table) = {}
  /\ tableLock' = [tableLock EXCEPT ![call[th].table.schema] = {th}]
  /\ Goto(th, "fetching")
  /\ UNCHANGED <<tables, handedOut, world, catalogVars>>

(* A scan asks for the references of all schemas before it takes the lock. *)
ListTables(th) ==
  /\ call[th].at = "refs"
  /\ \E s \in call[th].toScan :
       call' = [call EXCEPT ![th].at = "scan",
                            ![th].current = {s},
                            ![th].toScan = @ \ {s},
                            ![th].refs = {id \in registry : id.schema = s}]
  /\ UNCHANGED <<world, catalogVars, entryVars>>

ListTablesFails(th) ==
  /\ call[th].at = "refs"
  /\ Fail(th)
  /\ UNCHANGED <<world, catalogVars, entryVars>>

LockToScan(th) ==
  /\ call[th].at = "scan"
  /\ \E s \in call[th].current :
       /\ Free(tableLock[s])
       /\ tableLock' = [tableLock EXCEPT ![s] = {th}]
  /\ Goto(th, "scanning")
  /\ UNCHANGED <<tables, handedOut, world, catalogVars>>

(* The entry of a reference is in the map, or its schema is asked for. *)
ScanCached(th) ==
  /\ call[th].at = "scanning"
  /\ \E id \in call[th].refs :
       /\ Cached(id) # {}
       /\ handedOut' = handedOut \cup Cached(id)
       /\ call' = [call EXCEPT ![th].refs = @ \ {id}, ![th].seen = @ \cup Cached(id)]
  /\ UNCHANGED <<tableLock, tables, world, catalogVars>>

ScanMissing(th) ==
  /\ call[th].at = "scanning"
  /\ \E id \in call[th].refs :
       /\ Cached(id) = {}
       /\ call' = [call EXCEPT ![th].at = "fetching", ![th].table = id, ![th].refs = @ \ {id}]
  /\ UNCHANGED <<entryVars, world, catalogVars>>

EndScan(th) ==
  /\ call[th].at = "scanning"
  /\ call[th].refs = {}
  /\ Release(th)
  /\ call' = [call EXCEPT ![th].at = IF call[th].toScan = {} THEN "listed" ELSE "refs",
                          ![th].current = {}]
  /\ UNCHANGED <<tables, handedOut, world, catalogVars>>

(* A map that tells spellings apart. *)
InsertExact(th, id) ==
  LET new == [schema |-> id.schema, key |-> id.name, name |-> id.name, by |-> th]
  IN /\ tables' = (tables \ Cached(id)) \cup {new}
     /\ handedOut' = handedOut \cup {new}
     /\ Release(th)
     /\ Goto(th, "found")

(* MakeTableEntry; an entry that the map has under the key is freed. *)
Insert(th, id) ==
  LET new == [schema |-> id.schema, key |-> Fold[id.name], name |-> id.name, by |-> th]
  IN /\ tables' = (tables \ Cached(id)) \cup {new}
     /\ handedOut' = handedOut \cup {new}
     /\ \/ /\ call[th].op = "lookup"
           /\ Release(th)
           /\ Goto(th, "found")
        \/ /\ call[th].op = "list"
           /\ UNCHANGED tableLock
           /\ call' = [call EXCEPT ![th].at = "scanning", ![th].table = NoTable,
                                   ![th].seen = @ \cup {new}]

(* TryGetTableSchema finds the row of the exact spelling. *)
Fetch(th) ==
  /\ call[th].at = "fetching"
  /\ call[th].table \in registry
  /\ Insert(th, call[th].table)
  /\ UNCHANGED <<world, catalogVars>>

(* The scan ends at a table that has gone. *)
NotRegisteredEnds(th) ==
  /\ call[th].at = "fetching"
  /\ call[th].table \notin registry
  /\ Release(th)
  /\ Goto(th, IF call[th].op = "lookup" THEN "none" ELSE "listed")
  /\ UNCHANGED <<tables, handedOut, world, catalogVars>>

(* An early return that leaves the lock taken. *)
NotRegisteredKeepsLock(th) ==
  /\ call[th].at = "fetching"
  /\ call[th].table \notin registry
  /\ IF call[th].op = "lookup" THEN Goto(th, "none") ELSE GoOnScanning(th)
  /\ UNCHANGED <<entryVars, world, catalogVars>>

(* "not registered": no table for a look-up, and a scan passes over it. *)
NotRegistered(th) ==
  /\ call[th].at = "fetching"
  /\ call[th].table \notin registry
  /\ IF call[th].op = "lookup"
     THEN Release(th) /\ Goto(th, "none")
     ELSE GoOnScanning(th) /\ UNCHANGED tableLock
  /\ UNCHANGED <<tables, handedOut, world, catalogVars>>

(* A lock that an exception does not release. *)
FetchFailsLocked(th) ==
  /\ call[th].at = "fetching"
  /\ Fail(th)
  /\ UNCHANGED <<entryVars, world, catalogVars>>

(* Any other error, such as a heap that is gone or a type that DuckDB does   *)
(* not know, ends the call, and lock_guard the lock.                         *)
FetchFails(th) ==
  /\ call[th].at = "fetching"
  /\ Release(th)
  /\ Fail(th)
  /\ UNCHANGED <<tables, handedOut, world, catalogVars>>

(* The Scan that has no context reads the map alone. *)
ListCached(th) ==
  /\ call[th].at = "idle"
  /\ \E s \in schemas :
       /\ Free(tableLock[s])
       /\ handedOut' = handedOut \cup {e \in tables : e.schema = s}
  /\ call' = [call EXCEPT ![th] = [Idle EXCEPT !.op = "cached", !.at = "listed"]]
  /\ UNCHANGED <<tableLock, tables, world, catalogVars>>

-----------------------------------------------------------------------------
Step(th) ==
  \/ FindSchemas(th) \/ LockSchemas(th) \/ LoadSchemas(th) \/ LoadFails(th)
  \/ Find(th) \/ LockToFetch(th)
  \/ ListTables(th) \/ ListTablesFails(th) \/ LockToScan(th)
  \/ ScanCached(th) \/ ScanMissing(th) \/ EndScan(th)
  \/ Fetch(th) \/ NotRegistered(th) \/ FetchFails(th)

Begins(th) == Lookup(th) \/ List(th) \/ ListCached(th)

Next ==
  \/ Register
  \/ Unregister
  \/ \E th \in Threads : Begins(th) \/ Step(th) \/ Return(th)

(* A thread that has a call goes on with it. *)
Spec == Init /\ [][Next]_vars /\ \A th \in Threads : WF_vars(Step(th))

-----------------------------------------------------------------------------
(* DuckDB keeps bare pointers to table entries: plans, transactions and      *)
(* other look-ups use them after table_lock is released, so that no entry    *)
(* that was handed out may ever be freed, whichever threads fill the maps.   *)
HandedOutAreLive == handedOut \subseteq tables

(* A list of the tables has every table that was registered all through the  *)
(* call, under the key of its name, whatever is registered, unregistered,    *)
(* looked up or listed beside it: none is lost between the references and    *)
(* the scan, or behind one that has gone.                                    *)
ListIsComplete ==
  \A th \in Threads :
    call[th].op = "list" /\ call[th].at = "listed" =>
      \A id \in steady[th] :
        id.schema \in schemas =>
          \E e \in call[th].seen : e.schema = id.schema /\ e.key = Fold[id.name]

(* A look-up finds a table that was registered all through the call, if its  *)
(* schema is known; and it always finds a table that was registered at       *)
(* ATTACH and since, for the one load of the schemas loses none, even when   *)
(* it fails at first.                                                        *)
LookupFinds ==
  \A th \in Threads :
    call[th].at = "none" =>
      /\ call[th].table \notin Kept
      /\ call[th].table \in steady[th] => call[th].table.schema \notin schemas

(* Where a thread is while it holds the table_lock of a schema. *)
Inside(th, s) == call[th].at \in {"fetching", "scanning"} /\ call[th].current = {s}

(* A lock is held by the thread that is inside what it guards, and by no     *)
(* other, and such a thread waits for no second lock: no two threads fill    *)
(* one map, no return of any call leaves a lock taken, and no two threads    *)
(* that look up, list and load can wait for each other.                      *)
LocksAreOwned ==
  /\ schemaLock = {th \in Threads : call[th].at = "loading"}
  /\ \A s \in Schemas : tableLock[s] = {th \in Threads : Inside(th, s)}
  /\ \A lock \in {schemaLock} \cup {tableLock[s] : s \in Schemas} :
       \A th, u \in lock : th = u

(* Every lock is free again and again: no return, early return or error of a *)
(* look-up or a scan leaves one taken, and nobody waits for a lock for good  *)
(* because of a thread that does not go on.                                  *)
LocksAreFreed ==
  /\ []<>(schemaLock = {})
  /\ \A s \in Schemas : []<>(tableLock[s] = {})
=============================================================================
