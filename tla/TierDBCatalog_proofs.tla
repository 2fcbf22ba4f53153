------------------------ MODULE TierDBCatalog_proofs ------------------------
(***************************************************************************)
(* No table entry that DuckDB was given is ever freed, for any threads,    *)
(* schemas and tables.                                                     *)
(*                                                                         *)
(* The invariant says what table_lock protects: a thread that is about to  *)
(* insert an entry holds the lock of its schema, and found nothing under   *)
(* the key since it took it; so the insertion frees no entry.              *)
(***************************************************************************)
EXTENDS TierDBCatalog, TLAPS

(* What the call of a thread relies on.                                      *)
CallOK(th) ==
  /\ call[th].op = "lookup" => call[th].table \in Id
  /\ call[th].at = "table" => call[th].op = "lookup"
  /\ call[th].at \in {"refs", "scan", "scanning"} => call[th].op = "list"
  /\ call[th].at = "scan" =>
       \E s \in Schemas : /\ call[th].current = {s}
                          /\ \A id \in call[th].refs : id.schema = s
  /\ call[th].at \in {"scanning", "fetching"} /\ call[th].op = "list" =>
       \A id \in call[th].refs : tableLock[id.schema] = {th}
  /\ call[th].at = "fetching" => /\ call[th].table \in Id
                                 /\ tableLock[call[th].table.schema] = {th}
                                 /\ Cached(call[th].table) = {}

CatalogInv ==
  /\ TypeOK
  /\ \A th \in Threads : CallOK(th)
  /\ HandedOutAreLive

-----------------------------------------------------------------------------
(* Init *)

LEMMA InitInv == Init => CatalogInv
<1> SUFFICES ASSUME Init PROVE CatalogInv
  OBVIOUS
<1>1. Idle \in Call
  BY DEF Idle, Call
<1>2. TypeOK
  BY <1>1 DEF Init, TypeOK
<1>3. ASSUME NEW th \in Threads PROVE CallOK(th)
  <2>1. call[th].op = "none" /\ call[th].at = "idle"
    BY DEF Init, Idle
  <2> QED
    BY <2>1 DEF CallOK
<1> QED
  BY <1>2, <1>3 DEF Init, CatalogInv, HandedOutAreLive

-----------------------------------------------------------------------------
(* Types: one step of the proof per action. *)

LEMMA CallTypes ==
  ASSUME NEW c \in Call
  PROVE  /\ DOMAIN c = {"op", "at", "table", "current", "toScan", "refs", "seen"}
         /\ \A at \in {"idle", "schema", "loading", "table", "fetching", "refs", "scan",
                       "scanning", "found", "none", "listed", "error"} :
              [c EXCEPT !.at = at] \in Call
  BY DEF Call

LEMMA IdleTypes ==
  /\ Idle \in Call
  /\ [Idle EXCEPT !.at = "error"] \in Call
  /\ [Idle EXCEPT !.op = "cached", !.at = "listed"] \in Call
  /\ \A op \in {"lookup", "list"}, id \in Id \cup {NoTable} :
       [Idle EXCEPT !.op = op, !.at = "schema", !.table = id] \in Call
  BY DEF Idle, Call

LEMMA TypeStep == TypeOK /\ [Next]_vars => TypeOK'
<1> SUFFICES ASSUME TypeOK, [Next]_vars PROVE TypeOK'
  OBVIOUS
<1> USE ConstantsOK
<1>0. CASE UNCHANGED vars
  BY <1>0 DEF TypeOK, vars
<1>1. CASE Register
  BY <1>1 DEF TypeOK, Register, catalogVars, entryVars
<1>2. CASE Unregister
  BY <1>2 DEF TypeOK, Unregister, catalogVars, entryVars
<1>3. ASSUME NEW th \in Threads, Begins(th) PROVE TypeOK'
  <2>1. ASSUME NEW op \in {"lookup", "list"}, NEW id \in Id \cup {NoTable}, Begin(th, op, id)
        PROVE  TypeOK'
    BY <2>1, IdleTypes DEF TypeOK, Begin, catalogVars, entryVars
  <2>2. CASE ListCached(th)
    BY <2>2, IdleTypes DEF TypeOK, ListCached, catalogVars, world
  <2> QED
    BY <1>3, <2>1, <2>2 DEF Begins, Lookup, List
<1>4. ASSUME NEW th \in Threads, Return(th) PROVE TypeOK'
  BY <1>4, IdleTypes DEF TypeOK, Return, catalogVars, entryVars
<1>5. ASSUME NEW th \in Threads, Step(th) PROVE TypeOK'
  <2> USE DEF TypeOK, world, catalogVars, entryVars, Goto, Fail, Release
  <2>c. call[th] \in Call
    OBVIOUS
  <2>g. ASSUME NEW known \in SUBSET Schemas, GoOn(th, known) PROVE call' \in [Threads -> Call]
    BY <2>c, <2>g DEF GoOn, Call
  <2>1. CASE FindSchemas(th)
    BY <2>1, <2>g DEF FindSchemas
  <2>2. CASE LockSchemas(th)
    BY <2>2, <2>c, CallTypes DEF LockSchemas
  <2>3. CASE LoadSchemas(th)
    <3>1. schemas' \in SUBSET Schemas
      BY <2>3 DEF LoadSchemas, Id
    <3> QED
      BY <2>3, <2>g, <3>1 DEF LoadSchemas
  <2>4. CASE LoadFails(th)
    BY <2>4, IdleTypes DEF LoadFails
  <2>5. CASE Find(th)
    BY <2>5, <2>c, CallTypes DEF Find, Cached
  <2>6. CASE LockToFetch(th)
    BY <2>6, <2>c, CallTypes DEF LockToFetch
  <2>7. CASE ListTables(th)
    <3>1. PICK s \in call[th].toScan :
            call' = [call EXCEPT ![th].at = "scan", ![th].current = {s}, ![th].toScan = @ \ {s},
                                 ![th].refs = {id \in registry : id.schema = s}]
      BY <2>7 DEF ListTables
    <3>2. {id \in registry : id.schema = s} \in SUBSET Tables
      OBVIOUS
    <3>3. {s} \in SUBSET Schemas /\ call[th].toScan \ {s} \in SUBSET Schemas
      BY <2>c DEF Call
    <3>4. call' \in [Threads -> Call]
      BY <2>c, <3>1, <3>2, <3>3 DEF Call
    <3> QED
      BY <2>7, <3>4 DEF ListTables
  <2>8. CASE ListTablesFails(th)
    BY <2>8, IdleTypes DEF ListTablesFails
  <2>9. CASE LockToScan(th)
    <3>1. call[th].current \subseteq Schemas
      BY <2>c DEF Call
    <3>2. tableLock' \in [Schemas -> SUBSET Threads]
      BY <2>9, <3>1 DEF LockToScan
    <3>3. call' \in [Threads -> Call]
      BY <2>9, <2>c, CallTypes DEF LockToScan
    <3> QED
      BY <2>9, <3>2, <3>3 DEF LockToScan
  <2>10. CASE ScanCached(th)
    <3>1. PICK id \in call[th].refs :
            /\ handedOut' = handedOut \cup Cached(id)
            /\ call' = [call EXCEPT ![th].refs = @ \ {id}, ![th].seen = @ \cup Cached(id)]
      BY <2>10 DEF ScanCached
    <3>2. Cached(id) \subseteq Entry
      BY DEF Cached
    <3>3. call' \in [Threads -> Call]
      BY <2>c, <3>1, <3>2 DEF Call
    <3> QED
      BY <2>10, <3>1, <3>2, <3>3 DEF ScanCached
  <2>11. CASE ScanMissing(th)
    BY <2>11, <2>c DEF ScanMissing, Call
  <2>12. CASE EndScan(th)
    BY <2>12, <2>c DEF EndScan, Call
  <2>13. CASE Fetch(th)
    <3> DEFINE id == call[th].table
               new == [schema |-> id.schema, key |-> Fold[id.name], name |-> id.name, by |-> th]
    <3>1. id \in Id
      BY <2>13 DEF Fetch
    <3>2. new \in Entry
      BY <3>1 DEF Entry, Id
    <3>3. /\ tables' = (tables \ Cached(id)) \cup {new}
          /\ handedOut' = handedOut \cup {new}
      BY <2>13 DEF Fetch, Insert
    <3>4. call' \in [Threads -> Call]
      <4>1. CASE Goto(th, "found")
        BY <2>c, <4>1, CallTypes DEF Goto
      <4>2. CASE call' = [call EXCEPT ![th].at = "scanning", ![th].table = NoTable,
                                      ![th].seen = @ \cup {new}]
        BY <2>c, <3>2, <4>2 DEF Call
      <4> QED
        BY <2>13, <4>1, <4>2 DEF Fetch, Insert
    <3>5. tableLock' \in [Schemas -> SUBSET Threads]
      BY <2>13 DEF Fetch, Insert
    <3> QED
      BY <2>13, <3>2, <3>3, <3>4, <3>5 DEF Fetch
  <2>14. CASE NotRegistered(th)
    BY <2>14, <2>c DEF NotRegistered, GoOnScanning, Call
  <2>15. CASE FetchFails(th)
    BY <2>15, IdleTypes DEF FetchFails
  <2> QED
    BY <1>5, <2>1, <2>2, <2>3, <2>4, <2>5, <2>6, <2>7, <2>8, <2>9, <2>10, <2>11, <2>12,
       <2>13, <2>14, <2>15 DEF Step
<1> QED
  BY <1>0, <1>1, <1>2, <1>3, <1>4, <1>5 DEF Next

-----------------------------------------------------------------------------
(* What table_lock protects. *)

(* A step of another thread leaves a thread its locks, and the entries of    *)
(* the schemas that it has locked.                                           *)
LEMMA CallStays ==
  ASSUME NEW th \in Threads, CallOK(th), call'[th] = call[th],
         \A s \in Schemas : tableLock[s] = {th} => tableLock'[s] = {th},
         \A id \in Id : tableLock[id.schema] = {th} => Cached(id)' = Cached(id),
         TypeOK
  PROVE  CallOK(th)'
<1>1. call[th].refs \subseteq Id
  BY ConstantsOK DEF TypeOK, Call
<1>2. \A id \in Id : id.schema \in Schemas
  BY DEF Id
<1>3. ASSUME call[th].at = "fetching"
      PROVE  /\ call[th].table \in Id
             /\ tableLock'[call[th].table.schema] = {th}
             /\ Cached(call[th].table)' = {}
  <2>1. /\ call[th].table \in Id
        /\ tableLock[call[th].table.schema] = {th}
        /\ Cached(call[th].table) = {}
    BY <1>3 DEF CallOK
  <2>2. PICK id \in Id : id = call[th].table
    BY <2>1
  <2>3. Cached(id)' = {}
    BY <2>1, <2>2
  <2> QED
    BY <1>2, <2>1, <2>2, <2>3 DEF Cached
<1> QED
  BY <1>1, <1>2, <1>3 DEF CallOK

(* What a step of th does to locks and maps is no matter to other threads.   *)
LEMMA OthersStay ==
  ASSUME NEW th \in Threads, TypeOK, \A u \in Threads : CallOK(u),
         \A u \in Threads \ {th} : call'[u] = call[u],
         \A s \in Schemas : tableLock[s] = {} \/ tableLock'[s] = tableLock[s]
                                              \/ tableLock'[s] = tableLock[s] \ {th},
         \A id \in Id : tableLock[id.schema] # {th} => Cached(id)' = Cached(id)
  PROVE  \A u \in Threads \ {th} : CallOK(u)'
<1> SUFFICES ASSUME NEW u \in Threads \ {th} PROVE CallOK(u)'
  OBVIOUS
<1>1. \A s \in Schemas : tableLock[s] = {u} => tableLock'[s] = {u}
  OBVIOUS
<1>2. \A id \in Id : tableLock[id.schema] = {u} => Cached(id)' = Cached(id)
  OBVIOUS
<1> QED
  BY <1>1, <1>2, CallStays

(* The steps that leave the maps alone. *)
LEMMA SameTables ==
  ASSUME UNCHANGED tables
  PROVE  \A id \in Id : Cached(id)' = Cached(id)
BY DEF Cached

LEMMA CatalogStep == CatalogInv /\ [Next]_vars => CatalogInv'
<1> SUFFICES ASSUME CatalogInv, [Next]_vars PROVE CatalogInv'
  OBVIOUS
<1> USE ConstantsOK
<1>t. TypeOK /\ TypeOK'
  BY TypeStep DEF CatalogInv
<1>c. \A th \in Threads : CallOK(th)
  BY DEF CatalogInv
<1>h. HandedOutAreLive
  BY DEF CatalogInv
<1>u. ASSUME UNCHANGED <<call, entryVars>> PROVE CatalogInv'
  <2>1. ASSUME NEW th \in Threads PROVE CallOK(th)'
    BY <1>c, <1>u DEF CallOK, entryVars, Cached
  <2> QED
    BY <1>t, <1>h, <1>u, <2>1 DEF CatalogInv, HandedOutAreLive, entryVars
<1>0. CASE UNCHANGED vars
  BY <1>0, <1>u DEF vars, entryVars
<1>1. CASE Register
  BY <1>1, <1>u DEF Register
<1>2. CASE Unregister
  BY <1>2, <1>u DEF Unregister
<1>3. ASSUME NEW th \in Threads, Begins(th) \/ Step(th) \/ Return(th)
      PROVE  CatalogInv'
  <2>c. CallOK(th) /\ call \in [Threads -> Call] /\ tableLock \in [Schemas -> SUBSET Threads]
    BY <1>t, <1>c DEF TypeOK
  (* It is enough that the thread itself goes on well, takes and releases    *)
  (* locks by the rules, and frees no entry.                                 *)
  <2>s. ASSUME CallOK(th)',
               \A u \in Threads \ {th} : call'[u] = call[u],
               \A s \in Schemas : tableLock[s] = {} \/ tableLock'[s] = tableLock[s]
                                                    \/ tableLock'[s] = tableLock[s] \ {th},
               \A id \in Id : tableLock[id.schema] # {th} => Cached(id)' = Cached(id),
               HandedOutAreLive'
        PROVE  CatalogInv'
    BY <1>t, <1>c, <2>s, OthersStay DEF CatalogInv
  <2>l. ASSUME CallOK(th)',
               \A u \in Threads \ {th} : call'[u] = call[u],
               UNCHANGED tables,
               handedOut' \subseteq handedOut \cup tables,
               \/ UNCHANGED tableLock
               \/ Release(th)
               \/ \E s \in Schemas : /\ tableLock[s] = {}
                                     /\ tableLock' = [tableLock EXCEPT ![s] = {th}]
        PROVE  CatalogInv'
    <3>1. \A s \in Schemas : tableLock[s] = {} \/ tableLock'[s] = tableLock[s]
                                               \/ tableLock'[s] = tableLock[s] \ {th}
      BY <2>c, <2>l DEF Release
    <3>2. HandedOutAreLive'
      BY <1>h, <2>l DEF HandedOutAreLive
    <3> QED
      BY <2>s, <2>l, <3>1, <3>2, SameTables
  <2> USE DEF Goto, Fail, world, catalogVars, entryVars
  <2>1. ASSUME NEW op \in {"lookup", "list"}, NEW id \in Id \cup {NoTable}, Begin(th, op, id),
               op = "lookup" => id \in Id
        PROVE  CatalogInv'
    <3>1. CallOK(th)'
      BY <2>1, <2>c DEF Begin, CallOK, Idle
    <3> QED
      BY <2>1, <2>c, <2>l, <3>1 DEF Begin
  <2>2. CASE ListCached(th)
    <3>1. CallOK(th)'
      BY <2>2, <2>c DEF ListCached, CallOK, Idle
    <3> QED
      BY <2>2, <2>c, <2>l, <3>1 DEF ListCached
  <2>3. CASE Return(th)
    <3>1. CallOK(th)'
      BY <2>3, <2>c DEF Return, CallOK, Idle
    <3> QED
      BY <2>3, <2>c, <2>l, <3>1 DEF Return
  <2>4. ASSUME NEW known, call[th].at \in {"schema", "loading"}, GoOn(th, known),
               UNCHANGED entryVars
        PROVE  CatalogInv'
    <3>1. CallOK(th)'
      BY <2>4, <2>c DEF GoOn, CallOK, Call
    <3>2. \A u \in Threads \ {th} : call'[u] = call[u]
      BY <2>4, <2>c DEF GoOn
    <3> QED
      BY <2>4, <2>l, <3>1, <3>2
  <2>5. CASE FindSchemas(th)
    BY <2>4, <2>5 DEF FindSchemas
  <2>6. CASE LockSchemas(th)
    <3>1. CallOK(th)'
      BY <2>6, <2>c DEF LockSchemas, CallOK, Call
    <3> QED
      BY <2>6, <2>c, <2>l, <3>1 DEF LockSchemas
  <2>7. CASE LoadSchemas(th)
    BY <2>4, <2>7 DEF LoadSchemas
  <2>8. ASSUME Fail(th), UNCHANGED tables, UNCHANGED handedOut, UNCHANGED tableLock \/ Release(th)
        PROVE  CatalogInv'
    <3>1. CallOK(th)'
      BY <2>8, <2>c DEF CallOK, Idle
    <3> QED
      BY <2>8, <2>c, <2>l, <3>1
  <2>9. CASE Find(th)
    <3>1. CallOK(th)'
      BY <2>9, <2>c DEF Find, CallOK, Call
    <3> QED
      BY <2>9, <2>c, <2>l, <3>1 DEF Find, Cached
  <2>10. CASE LockToFetch(th)
    <3> DEFINE id == call[th].table
    <3>1. /\ call[th].at = "table"
          /\ call[th].op = "lookup"
          /\ id \in Id /\ id.schema \in Schemas
          /\ tableLock[id.schema] = {} /\ Cached(id) = {}
          /\ tableLock' = [tableLock EXCEPT ![id.schema] = {th}]
          /\ call' = [call EXCEPT ![th].at = "fetching"]
          /\ UNCHANGED <<tables, handedOut>>
      BY <2>10, <2>c DEF LockToFetch, Free, CallOK, Id
    <3>2. /\ call'[th].table = id /\ call'[th].op = "lookup" /\ call'[th].at = "fetching"
          /\ tableLock'[id.schema] = {th}
      BY <2>c, <3>1 DEF Call
    <3>3. Cached(call[th].table)' = {}
      BY <3>1, <3>2 DEF Cached
    <3>4. CallOK(th)'
      BY <3>1, <3>2, <3>3 DEF CallOK
    <3> QED
      BY <2>c, <2>l, <3>1, <3>4
  <2>11. CASE ListTables(th)
    <3>1. PICK s \in call[th].toScan :
            call' = [call EXCEPT ![th].at = "scan", ![th].current = {s}, ![th].toScan = @ \ {s},
                                 ![th].refs = {id \in registry : id.schema = s}]
      BY <2>11 DEF ListTables
    <3>2. s \in Schemas
      BY <2>c, <3>1 DEF Call
    <3>3. CallOK(th)'
      BY <2>11, <2>c, <3>1, <3>2 DEF ListTables, CallOK, Call
    <3> QED
      BY <2>11, <2>c, <2>l, <3>1, <3>3 DEF ListTables
  <2>12. CASE LockToScan(th)
    <3>1. PICK s \in Schemas :
            /\ call[th].current = {s}
            /\ \A id \in call[th].refs : id.schema = s
      BY <2>12, <2>c DEF LockToScan, CallOK
    <3>2. /\ tableLock[s] = {}
          /\ tableLock' = [tableLock EXCEPT ![s] = {th}]
          /\ call' = [call EXCEPT ![th].at = "scanning"]
          /\ UNCHANGED <<tables, handedOut>>
          /\ call[th].op = "list"
      BY <2>12, <2>c, <3>1 DEF LockToScan, Free, CallOK
    <3>3. CallOK(th)'
      BY <2>c, <3>1, <3>2 DEF CallOK, Call
    <3> QED
      BY <2>c, <2>l, <3>2, <3>3
  <2>13. CASE ScanCached(th)
    <3>1. PICK id \in call[th].refs :
            /\ handedOut' = handedOut \cup Cached(id)
            /\ call' = [call EXCEPT ![th].refs = @ \ {id}, ![th].seen = @ \cup Cached(id)]
      BY <2>13 DEF ScanCached
    <3>2. CallOK(th)'
      BY <2>13, <2>c, <3>1 DEF ScanCached, CallOK, Call
    <3>3. Cached(id) \subseteq tables
      BY DEF Cached
    <3> QED
      BY <2>13, <2>c, <2>l, <3>1, <3>2, <3>3 DEF ScanCached
  <2>14. CASE ScanMissing(th)
    <3>1. PICK id \in call[th].refs :
            /\ Cached(id) = {}
            /\ call' = [call EXCEPT ![th].at = "fetching", ![th].table = id, ![th].refs = @ \ {id}]
      BY <2>14 DEF ScanMissing
    <3>2. call[th].op = "list" /\ tableLock[id.schema] = {th} /\ id \in Id
      BY <2>14, <2>c, <3>1 DEF ScanMissing, CallOK, Call
    <3>3. /\ call'[th].table = id /\ call'[th].op = "list" /\ call'[th].at = "fetching"
          /\ call'[th].refs \subseteq call[th].refs
      BY <2>c, <3>1, <3>2 DEF Call
    <3>4. Cached(call[th].table)' = {}
      BY <2>14, <3>1, <3>3 DEF ScanMissing, Cached
    <3>5. CallOK(th)'
      BY <2>14, <2>c, <3>2, <3>3, <3>4 DEF ScanMissing, CallOK
    <3> QED
      BY <2>14, <2>c, <2>l, <3>1, <3>5 DEF ScanMissing
  <2>15. CASE EndScan(th)
    <3>1. CallOK(th)'
      BY <2>15, <2>c DEF EndScan, CallOK, Call
    <3> QED
      BY <2>15, <2>c, <2>l, <3>1 DEF EndScan
  <2>16. CASE Fetch(th)
    <3> DEFINE id == call[th].table
               new == [schema |-> id.schema, key |-> Fold[id.name], name |-> id.name, by |-> th]
    <3>1. id \in Id /\ tableLock[id.schema] = {th} /\ Cached(id) = {}
      BY <2>16, <2>c DEF Fetch, CallOK
    <3>2. tables' = tables \cup {new} /\ handedOut' = handedOut \cup {new}
      BY <2>16, <3>1 DEF Fetch, Insert
    <3>3. ASSUME NEW other \in Id, tableLock[other.schema] # {th}
          PROVE  Cached(other)' = Cached(other)
      <4>1. other.schema # new.schema
        BY <3>1, <3>3
      <4> QED
        BY <3>2, <4>1 DEF Cached
    <3>4. /\ call[th].op \in {"lookup", "list"}
          /\ call[th].op = "lookup" => /\ Release(th)
                                       /\ call' = [call EXCEPT ![th].at = "found"]
          /\ call[th].op = "list" => /\ UNCHANGED tableLock
                                     /\ call' = [call EXCEPT ![th].at = "scanning",
                                                             ![th].table = NoTable,
                                                             ![th].seen = @ \cup {new}]
      BY <2>16 DEF Fetch, Insert
    <3>5. CallOK(th)'
      BY <2>16, <2>c, <3>4 DEF Fetch, CallOK, Call
    <3>6. HandedOutAreLive'
      BY <1>h, <3>2 DEF HandedOutAreLive
    <3>7. \A s \in Schemas : tableLock'[s] = tableLock[s] \/ tableLock'[s] = tableLock[s] \ {th}
      BY <3>4 DEF Release
    <3>8. \A u \in Threads \ {th} : call'[u] = call[u]
      BY <2>c, <3>4
    <3> HIDE DEF new
    <3> QED
      BY <2>s, <3>3, <3>5, <3>6, <3>7, <3>8
  <2>17. CASE NotRegistered(th)
    <3>1. CallOK(th)'
      BY <2>17, <2>c DEF NotRegistered, GoOnScanning, CallOK, Call
    <3>2. \A u \in Threads \ {th} : call'[u] = call[u]
      BY <2>17, <2>c DEF NotRegistered, GoOnScanning
    <3> QED
      BY <2>17, <2>l, <3>1, <3>2 DEF NotRegistered
  <2>18. CASE LoadFails(th)
    BY <2>8, <2>18 DEF LoadFails
  <2>19. CASE ListTablesFails(th)
    BY <2>8, <2>19 DEF ListTablesFails
  <2>20. CASE FetchFails(th)
    BY <2>8, <2>20 DEF FetchFails
  <2> QED
    BY <1>3, <2>1, <2>2, <2>3, <2>5, <2>6, <2>7, <2>9, <2>10, <2>11, <2>12, <2>13, <2>14,
       <2>15, <2>16, <2>17, <2>18, <2>19, <2>20 DEF Begins, Lookup, List, Step
<1> QED
  BY <1>0, <1>1, <1>2, <1>3 DEF Next

(* No table entry that DuckDB was given a pointer to is freed or replaced    *)
(* while the catalog is attached, whatever threads look up and list.         *)
THEOREM EntriesStayValid == Spec => []HandedOutAreLive
<1>1. CatalogInv => HandedOutAreLive
  BY DEF CatalogInv
<1> QED
  BY <1>1, InitInv, CatalogStep, PTL DEF Spec

(* The types, that of a map of tables included: an entry is found under the  *)
(* key of its own name.                                                      *)
THEOREM CatalogTypes == Spec => []TypeOK
<1>1. Init => TypeOK
  BY InitInv DEF CatalogInv
<1> QED
  BY <1>1, TypeStep, PTL DEF Spec

-----------------------------------------------------------------------------
(* The answers.  A call that has its schemas works with the ones that were   *)
(* loaded for good; a list has each steady table ahead of it, or has seen an *)
(* entry of its key.                                                         *)

Beyond == {"table", "fetching", "refs", "scan", "scanning", "found", "none", "listed"}

Ahead(th, id) ==
  \/ id.schema \in call[th].toScan
  \/ call[th].at \in {"scan", "scanning", "fetching"} /\ id \in call[th].refs
  \/ call[th].at = "fetching" /\ id = call[th].table

Seen(th, id) == \E e \in call[th].seen : e.schema = id.schema /\ e.key = Fold[id.name]

ListOK(th) ==
  call[th].op = "list" /\ call[th].at \in Beyond =>
    \A id \in steady[th] : id.schema \in schemas => Ahead(th, id) \/ Seen(th, id)

NoneOK(th) ==
  call[th].at = "none" =>
    /\ call[th].table \notin Kept
    /\ call[th].table \in steady[th] => call[th].table.schema \notin schemas

LoadOK(th) ==
  /\ steady[th] \subseteq registry
  /\ call[th].at = "loading" => schemaLock = {th} /\ ~schemasLoaded
  /\ call[th].at \in Beyond /\ call[th].op \in {"lookup", "list"} => schemasLoaded
  /\ call[th].at = "none" => call[th].op = "lookup"
  /\ call[th].at \in {"schema", "loading", "none"} => call[th].op \in {"lookup", "list"}
  /\ call[th].at = "listed" /\ call[th].op = "list" => call[th].toScan = {}

SchemasOK ==
  /\ Kept \subseteq registry
  /\ schemasLoaded => \A id \in Kept : id.schema \in schemas

AnswerInv ==
  /\ CatalogInv
  /\ SchemasOK
  /\ \A th \in Threads : LoadOK(th) /\ ListOK(th) /\ NoneOK(th)

LEMMA AnswerInit == Init => AnswerInv
<1> SUFFICES ASSUME Init PROVE AnswerInv
  OBVIOUS
<1>1. CatalogInv
  BY InitInv
<1>2. SchemasOK
  BY DEF Init, SchemasOK
<1>3. ASSUME NEW th \in Threads PROVE LoadOK(th) /\ ListOK(th) /\ NoneOK(th)
  <2>1. call[th].op = "none" /\ call[th].at = "idle" /\ steady[th] = {}
    BY DEF Init, Idle
  <2> QED
    BY <2>1 DEF LoadOK, ListOK, NoneOK, Beyond
<1> QED
  BY <1>1, <1>2, <1>3 DEF AnswerInv

(* Schemas that are loaded stay as they are, so that what a thread was told  *)
(* stays true beside the steps of the others and of the registry.            *)
LEMMA AnswerStays ==
  ASSUME AnswerInv, NEW th \in Threads, call'[th] = call[th],
         steady'[th] \subseteq steady[th], steady'[th] \subseteq registry',
         schemasLoaded => UNCHANGED <<schemas, schemasLoaded>>,
         call[th].at = "loading" => schemaLock' = {th} /\ ~schemasLoaded'
  PROVE  LoadOK(th)' /\ ListOK(th)' /\ NoneOK(th)'
<1>1. LoadOK(th) /\ ListOK(th) /\ NoneOK(th)
  BY DEF AnswerInv
<1>2. LoadOK(th)'
  BY <1>1 DEF LoadOK
<1>3. ListOK(th)'
  BY <1>1 DEF LoadOK, ListOK, Ahead, Seen, Beyond
<1>4. NoneOK(th)'
  BY <1>1 DEF LoadOK, NoneOK, Beyond
<1> QED
  BY <1>2, <1>3, <1>4

LEMMA AnswerStep == AnswerInv /\ [Next]_vars => AnswerInv'
<1> SUFFICES ASSUME AnswerInv, [Next]_vars PROVE AnswerInv'
  OBVIOUS
<1> USE ConstantsOK
<1>c. CatalogInv /\ CatalogInv' /\ TypeOK
  BY CatalogStep DEF AnswerInv, CatalogInv
<1>s. SchemasOK
  BY DEF AnswerInv
<1>t. \A th \in Threads : call[th] \in Call /\ steady[th] \subseteq registry /\ CallOK(th)
                          /\ LoadOK(th) /\ ListOK(th) /\ NoneOK(th)
  BY <1>c DEF TypeOK, CatalogInv, AnswerInv, LoadOK
<1>0. CASE UNCHANGED vars
  BY <1>0, <1>c, <1>s, <1>t DEF vars, AnswerInv, SchemasOK, LoadOK, ListOK, NoneOK, Ahead, Seen
<1>1. CASE Register
  <2>1. SchemasOK'
    BY <1>1, <1>s DEF Register, SchemasOK, catalogVars
  <2>2. ASSUME NEW th \in Threads PROVE LoadOK(th)' /\ ListOK(th)' /\ NoneOK(th)'
    BY <1>1, <1>t, AnswerStays DEF Register, catalogVars, LoadOK
  <2> QED
    BY <1>c, <2>1, <2>2 DEF AnswerInv
<1>2. CASE Unregister
  <2>1. SchemasOK'
    BY <1>2, <1>s DEF Unregister, SchemasOK, catalogVars
  <2>2. ASSUME NEW th \in Threads PROVE LoadOK(th)' /\ ListOK(th)' /\ NoneOK(th)'
    <3>1. steady'[th] \subseteq steady[th] /\ steady'[th] \subseteq registry'
      BY <1>2, <1>t DEF Unregister
    <3> QED
      BY <1>2, <1>t, <3>1, AnswerStays DEF Unregister, catalogVars, LoadOK
  <2> QED
    BY <1>c, <2>1, <2>2 DEF AnswerInv
<1>3. ASSUME NEW th \in Threads, Begins(th) \/ Step(th) \/ Return(th)
      PROVE  AnswerInv'
  <2>c. /\ call[th] \in Call /\ call \in [Threads -> Call]
        /\ steady \in [Threads -> SUBSET Tables]
        /\ CallOK(th) /\ LoadOK(th) /\ ListOK(th) /\ NoneOK(th)
    BY <1>c, <1>t DEF TypeOK
  (* The thread's own answer is enough, if it loads no schemas twice.        *)
  <2>s. ASSUME LoadOK(th)' /\ ListOK(th)' /\ NoneOK(th)',
               UNCHANGED registry,
               \A u \in Threads \ {th} : call'[u] = call[u] /\ steady'[u] = steady[u],
               UNCHANGED catalogVars
        PROVE  AnswerInv'
    <3>1. SchemasOK'
      BY <1>s, <2>s DEF SchemasOK, catalogVars
    <3>2. \A u \in Threads \ {th} : LoadOK(u)' /\ ListOK(u)' /\ NoneOK(u)'
      BY <1>t, <2>s, AnswerStays DEF catalogVars, LoadOK
    <3> QED
      BY <1>c, <2>s, <3>1, <3>2 DEF AnswerInv
  <2> USE DEF Goto, Fail, world
  (* A call that is not under way.                                           *)
  <2>i. ASSUME call'[th].at \in {"idle", "error", "schema"} \/ call'[th].op = "cached",
               call'[th].at = "schema" => call'[th].op \in {"lookup", "list"},
               call'[th].op = "cached" => call'[th].at = "listed",
               steady'[th] \subseteq registry'
        PROVE  LoadOK(th)' /\ ListOK(th)' /\ NoneOK(th)'
    BY <2>i DEF LoadOK, ListOK, NoneOK, Beyond
  <2>1. ASSUME NEW op \in {"lookup", "list"}, NEW id \in Id \cup {NoTable}, Begin(th, op, id)
        PROVE  AnswerInv'
    <3>1. call'[th].at = "schema" /\ call'[th].op = op /\ steady'[th] = registry
      BY <2>1, <2>c DEF Begin, Idle
    <3>2. \A u \in Threads \ {th} : call'[u] = call[u] /\ steady'[u] = steady[u]
      BY <2>1, <2>c DEF Begin
    <3> QED
      BY <2>1, <2>i, <2>s, <3>1, <3>2 DEF Begin
  <2>2. CASE ListCached(th)
    <3>1. call'[th].at = "listed" /\ call'[th].op = "cached"
      BY <2>2, <2>c DEF ListCached, Idle
    <3>2. \A u \in Threads \ {th} : call'[u] = call[u] /\ steady'[u] = steady[u]
      BY <2>2, <2>c DEF ListCached
    <3> QED
      BY <2>2, <2>c, <2>i, <2>s, <3>1, <3>2 DEF ListCached, LoadOK
  <2>3. CASE Return(th)
    <3>1. call'[th].at = "idle" /\ call'[th].op = "none" /\ steady'[th] = {}
      BY <2>3, <2>c DEF Return, Idle
    <3>2. \A u \in Threads \ {th} : call'[u] = call[u] /\ steady'[u] = steady[u]
      BY <2>3, <2>c DEF Return
    <3> QED
      BY <2>3, <2>i, <2>s, <3>1, <3>2 DEF Return
  (* A call that fails.                                                      *)
  <2>4. ASSUME Fail(th), UNCHANGED world, UNCHANGED catalogVars PROVE AnswerInv'
    <3>1. call'[th].at = "error" /\ call'[th].op = "none"
      BY <2>4, <2>c DEF Idle
    <3>2. \A u \in Threads \ {th} : call'[u] = call[u] /\ steady'[u] = steady[u]
      BY <2>4, <2>c
    <3> QED
      BY <2>4, <2>c, <2>i, <2>s, <3>1, <3>2 DEF LoadOK
  (* A call that goes on with schemas that hold every kept table.            *)
  <2>5. ASSUME NEW known, GoOn(th, known), schemas' = known, schemasLoaded', UNCHANGED world,
               call[th].at \in {"schema", "loading"},
               \A id \in Kept : id.schema \in known
        PROVE  LoadOK(th)' /\ ListOK(th)' /\ NoneOK(th)'
    <3>1. CASE call[th].op = "lookup" /\ call[th].table.schema \in known
      <4>1. call'[th].at = "table" /\ call'[th].op = "lookup"
        BY <2>c, <2>5, <3>1 DEF GoOn, Call
      <4> QED
        BY <2>c, <2>5, <4>1 DEF LoadOK, ListOK, NoneOK, Beyond
    <3>2. CASE call[th].op = "lookup" /\ call[th].table.schema \notin known
      <4>1. call'[th].at = "none" /\ call'[th].op = "lookup" /\ call'[th].table = call[th].table
        BY <2>c, <2>5, <3>2 DEF GoOn, Call
      <4>2. call[th].table \notin Kept
        BY <2>5, <3>2
      <4> QED
        BY <2>c, <2>5, <3>2, <4>1, <4>2 DEF LoadOK, ListOK, NoneOK, Beyond
    <3>3. CASE call[th].op = "list"
      <4>1. /\ call'[th].at = IF known = {} THEN "listed" ELSE "refs"
            /\ call'[th].op = "list" /\ call'[th].toScan = known
        BY <2>c, <2>5, <3>3 DEF GoOn, Call
      <4>2. ListOK(th)'
        BY <2>5, <4>1 DEF ListOK, Ahead
      <4> QED
        BY <2>c, <2>5, <4>1, <4>2 DEF LoadOK, NoneOK, Beyond
    <3> QED
      BY <2>5, <3>1, <3>2, <3>3 DEF GoOn
  <2>6. CASE FindSchemas(th)
    <3>1. \A u \in Threads \ {th} : call'[u] = call[u]
      BY <2>6, <2>c DEF FindSchemas, GoOn
    <3>2. \A id \in Kept : id.schema \in schemas
      BY <1>s, <2>6 DEF FindSchemas, SchemasOK
    <3>3. LoadOK(th)' /\ ListOK(th)' /\ NoneOK(th)'
      BY <2>5, <2>6, <3>2 DEF FindSchemas, catalogVars
    <3> QED
      BY <2>s, <2>6, <3>1, <3>3 DEF FindSchemas
  <2>7. CASE LockSchemas(th)
    <3>1. call'[th].at = "loading" /\ call'[th].op = call[th].op
      BY <2>7, <2>c DEF LockSchemas, Call
    <3>2. LoadOK(th)' /\ ListOK(th)' /\ NoneOK(th)'
      BY <2>7, <2>c, <3>1 DEF LockSchemas, LoadOK, ListOK, NoneOK, Beyond
    <3>3. ASSUME NEW u \in Threads \ {th} PROVE LoadOK(u)' /\ ListOK(u)' /\ NoneOK(u)'
      <4>1. call'[u] = call[u] /\ call[u].at # "loading"
        BY <2>7, <2>c, <1>t DEF LockSchemas, Free, LoadOK
      <4> QED
        BY <2>7, <1>t, <4>1, AnswerStays DEF LockSchemas, LoadOK
    <3> QED
      BY <1>c, <1>s, <2>7, <3>2, <3>3 DEF LockSchemas, AnswerInv, SchemasOK
  <2>8. CASE LoadSchemas(th)
    <3>1. schemaLock = {th} /\ ~schemasLoaded
      BY <2>8, <2>c DEF LoadSchemas, LoadOK
    <3>2. \A id \in Kept : id.schema \in schemas'
      BY <1>s, <2>8 DEF LoadSchemas, SchemasOK
    <3>3. LoadOK(th)' /\ ListOK(th)' /\ NoneOK(th)'
      BY <2>5, <2>8, <3>2 DEF LoadSchemas
    <3>4. ASSUME NEW u \in Threads \ {th} PROVE LoadOK(u)' /\ ListOK(u)' /\ NoneOK(u)'
      <4>0. call[u].at # "loading"
        BY <1>t, <3>1 DEF LoadOK
      <4>1. call'[u] = call[u]
        <5>1. \E c : call' = [call EXCEPT ![th] = c]
          <6>1. CASE call[th].op = "list"
            BY <2>8, <6>1 DEF LoadSchemas, GoOn
          <6>2. CASE call[th].op # "list"
            BY <2>8, <6>2 DEF LoadSchemas, GoOn
          <6> QED
            BY <6>1, <6>2
        <5> QED
          BY <5>1, <2>c
      <4> QED
        BY <2>8, <1>t, <4>0, <4>1, AnswerStays DEF LoadSchemas, LoadOK
    <3>5. SchemasOK'
      BY <1>s, <2>8, <3>2 DEF LoadSchemas, SchemasOK
    <3> QED
      BY <1>c, <3>3, <3>4, <3>5 DEF AnswerInv
  <2>9. CASE LoadFails(th)
    <3>1. call'[th].at = "error" /\ call'[th].op = "none"
      BY <2>9, <2>c DEF LoadFails, Idle
    <3>2. LoadOK(th)' /\ ListOK(th)' /\ NoneOK(th)'
      BY <2>9, <2>c, <2>i, <3>1 DEF LoadFails, LoadOK
    <3>3. ASSUME NEW u \in Threads \ {th} PROVE LoadOK(u)' /\ ListOK(u)' /\ NoneOK(u)'
      <4>1. call'[u] = call[u] /\ call[u].at # "loading"
        BY <2>9, <2>c, <1>t DEF LoadFails, LoadOK
      <4> QED
        BY <2>9, <1>t, <4>1, AnswerStays DEF LoadFails, LoadOK
    <3> QED
      BY <1>c, <1>s, <2>9, <3>2, <3>3 DEF LoadFails, AnswerInv, SchemasOK
  (* The steps of a schema entry change nothing else but the call.           *)
  <2>e. ASSUME LoadOK(th)' /\ ListOK(th)' /\ NoneOK(th)',
               UNCHANGED world, UNCHANGED catalogVars,
               \A u \in Threads \ {th} : call'[u] = call[u]
        PROVE  AnswerInv'
    BY <2>e, <2>s
  <2>10. CASE Find(th)
    <3>1. call'[th].at = "found" /\ call'[th].op = "lookup"
      BY <2>10, <2>c DEF Find, CallOK, Call
    <3> QED
      BY <2>10, <2>c, <2>e, <3>1 DEF Find, catalogVars, LoadOK, ListOK, NoneOK, Beyond, CallOK
  <2>11. CASE LockToFetch(th)
    <3>1. call'[th].at = "fetching" /\ call'[th].op = "lookup"
      BY <2>11, <2>c DEF LockToFetch, CallOK, Call
    <3> QED
      BY <2>11, <2>c, <2>e, <3>1 DEF LockToFetch, catalogVars, LoadOK, ListOK, NoneOK, Beyond, CallOK
  <2>12. CASE ListTables(th)
    <3>1. PICK s \in call[th].toScan :
            call' = [call EXCEPT ![th].at = "scan", ![th].current = {s}, ![th].toScan = @ \ {s},
                                 ![th].refs = {id \in registry : id.schema = s}]
      BY <2>12 DEF ListTables
    <3>2. /\ call'[th].at = "scan" /\ call'[th].op = call[th].op /\ call'[th].seen = call[th].seen
          /\ call'[th].toScan = call[th].toScan \ {s}
          /\ call'[th].refs = {id \in registry : id.schema = s}
      BY <2>c, <3>1 DEF Call
    <3>3. LoadOK(th)'
      BY <2>12, <2>c, <3>2 DEF ListTables, catalogVars, LoadOK, Beyond
    <3>4. ListOK(th)'
      BY <2>12, <2>c, <3>2 DEF ListTables, catalogVars, LoadOK, ListOK, Ahead, Seen, Beyond
    <3>5. NoneOK(th)'
      BY <3>2 DEF NoneOK
    <3> QED
      BY <2>12, <2>c, <2>e, <3>1, <3>3, <3>4, <3>5 DEF ListTables
  <2>13. CASE LockToScan(th)
    <3>1. /\ call'[th].at = "scanning" /\ call'[th].op = call[th].op
          /\ call'[th].seen = call[th].seen /\ call'[th].refs = call[th].refs
          /\ call'[th].toScan = call[th].toScan
      BY <2>13, <2>c DEF LockToScan, Call
    <3>2. ListOK(th)'
      BY <2>13, <2>c, <3>1 DEF LockToScan, catalogVars, ListOK, Ahead, Seen, Beyond
    <3> QED
      BY <2>13, <2>c, <2>e, <3>1, <3>2 DEF LockToScan, catalogVars, LoadOK, NoneOK, Beyond
  <2>14. CASE ScanCached(th)
    <3>1. PICK id \in call[th].refs :
            /\ Cached(id) # {}
            /\ call' = [call EXCEPT ![th].refs = @ \ {id}, ![th].seen = @ \cup Cached(id)]
      BY <2>14 DEF ScanCached
    <3>2. /\ call'[th].at = "scanning" /\ call'[th].op = call[th].op
          /\ call'[th].seen = call[th].seen \cup Cached(id)
          /\ call'[th].refs = call[th].refs \ {id}
          /\ call'[th].toScan = call[th].toScan
      BY <2>14, <2>c, <3>1 DEF ScanCached, Call
    <3>3. Seen(th, id)'
      <4>1. PICK e \in Cached(id) : e.schema = id.schema /\ e.key = Fold[id.name]
        BY <3>1 DEF Cached
      <4> QED
        BY <3>2, <4>1 DEF Seen
    <3>4. ListOK(th)'
      BY <2>14, <2>c, <3>2, <3>3 DEF ScanCached, catalogVars, ListOK, Ahead, Seen, Beyond
    <3> QED
      BY <2>14, <2>c, <2>e, <3>1, <3>2, <3>4 DEF ScanCached, catalogVars, LoadOK, NoneOK, Beyond
  <2>15. CASE ScanMissing(th)
    <3>1. PICK id \in call[th].refs :
            call' = [call EXCEPT ![th].at = "fetching", ![th].table = id, ![th].refs = @ \ {id}]
      BY <2>15 DEF ScanMissing
    <3>2. /\ call'[th].at = "fetching" /\ call'[th].op = call[th].op /\ call'[th].table = id
          /\ call'[th].seen = call[th].seen
          /\ call'[th].refs = call[th].refs \ {id}
          /\ call'[th].toScan = call[th].toScan
      BY <2>15, <2>c, <3>1 DEF ScanMissing, Call
    <3>3. ListOK(th)'
      BY <2>15, <2>c, <3>2 DEF ScanMissing, catalogVars, ListOK, Ahead, Seen, Beyond
    <3> QED
      BY <2>15, <2>c, <2>e, <3>1, <3>2, <3>3 DEF ScanMissing, catalogVars, LoadOK, NoneOK, Beyond
  <2>16. CASE EndScan(th)
    <3>1. /\ call'[th].at = IF call[th].toScan = {} THEN "listed" ELSE "refs"
          /\ call'[th].op = call[th].op /\ call'[th].seen = call[th].seen
          /\ call'[th].toScan = call[th].toScan /\ call[th].refs = {}
      BY <2>16, <2>c DEF EndScan, Call
    <3>2. ListOK(th)'
      BY <2>16, <2>c, <3>1 DEF EndScan, catalogVars, ListOK, Ahead, Seen, Beyond
    <3> QED
      BY <2>16, <2>c, <2>e, <3>1, <3>2 DEF EndScan, catalogVars, LoadOK, NoneOK, Beyond
  <2>17. CASE Fetch(th)
    <3> DEFINE id == call[th].table
               new == [schema |-> id.schema, key |-> Fold[id.name], name |-> id.name, by |-> th]
    <3>1. CASE call[th].op = "lookup"
      <4>1. call' = [call EXCEPT ![th].at = "found"]
        BY <2>17, <3>1 DEF Fetch, Insert
      <4>2. call'[th].at = "found" /\ call'[th].op = "lookup"
        BY <2>c, <3>1, <4>1 DEF Call
      <4> QED
        BY <2>17, <2>c, <2>e, <4>1, <4>2 DEF Fetch, catalogVars, LoadOK, ListOK, NoneOK, Beyond
    <3>2. CASE call[th].op = "list"
      <4>1. call' = [call EXCEPT ![th].at = "scanning", ![th].table = NoTable,
                                 ![th].seen = @ \cup {new}]
        BY <2>17, <3>2 DEF Fetch, Insert
      <4>2. /\ call'[th].at = "scanning" /\ call'[th].op = "list"
            /\ call'[th].seen = call[th].seen \cup {new}
            /\ call'[th].refs = call[th].refs /\ call'[th].toScan = call[th].toScan
        BY <2>c, <3>2, <4>1 DEF Call
      <4>3. PICK known : known = id
        OBVIOUS
      <4>5. Seen(th, known)'
        <5>1. new.schema = known.schema /\ new.key = Fold[known.name] /\ new \in call'[th].seen
          BY <4>2, <4>3
        <5> HIDE DEF new
        <5> QED
          BY <5>1 DEF Seen
      <4>4. ListOK(th)'
        <5>1. SUFFICES ASSUME NEW other \in steady[th], other.schema \in schemas
                       PROVE  Ahead(th, other)' \/ Seen(th, other)'
          BY <2>17 DEF Fetch, catalogVars, ListOK
        <5>2. Ahead(th, other) \/ Seen(th, other)
          BY <2>17, <2>c, <3>2, <5>1 DEF Fetch, ListOK, Beyond
        <5>3. CASE other = known
          BY <4>5, <5>3
        <5>4. CASE other # known
          BY <2>17, <4>2, <4>3, <5>2, <5>4 DEF Fetch, Ahead, Seen
        <5> QED
          BY <5>3, <5>4
      <4> QED
        BY <2>17, <2>c, <2>e, <4>1, <4>2, <4>4 DEF Fetch, catalogVars, LoadOK, NoneOK, Beyond
    <3> QED
      BY <2>17, <3>1, <3>2 DEF Fetch, Insert
  <2>18. CASE NotRegistered(th)
    <3>0. call[th].table \notin registry /\ call[th].table \notin steady[th]
          /\ call[th].table \notin Kept
      BY <1>s, <2>18, <2>c DEF NotRegistered, LoadOK, SchemasOK
    <3>1. CASE call[th].op = "lookup"
      <4>1. call'[th].at = "none" /\ call'[th].op = "lookup" /\ call'[th].table = call[th].table
        BY <2>18, <2>c, <3>1 DEF NotRegistered, Call
      <4>2. \A u \in Threads \ {th} : call'[u] = call[u]
        BY <2>18, <2>c, <3>1 DEF NotRegistered
      <4> QED
        BY <2>18, <2>c, <2>e, <3>0, <3>1, <4>1, <4>2
           DEF NotRegistered, catalogVars, LoadOK, ListOK, NoneOK, Beyond
    <3>2. CASE call[th].op # "lookup"
      <4>1. /\ call'[th].at = "scanning" /\ call'[th].op = call[th].op
            /\ call'[th].seen = call[th].seen
            /\ call'[th].refs = call[th].refs /\ call'[th].toScan = call[th].toScan
        BY <2>18, <2>c, <3>2 DEF NotRegistered, GoOnScanning, Call
      <4>2. \A u \in Threads \ {th} : call'[u] = call[u]
        BY <2>18, <2>c, <3>2 DEF NotRegistered, GoOnScanning
      <4>3. ListOK(th)'
        BY <2>18, <2>c, <3>0, <4>1 DEF NotRegistered, catalogVars, ListOK, Ahead, Seen, Beyond
      <4> QED
        BY <2>18, <2>c, <2>e, <4>1, <4>2, <4>3 DEF NotRegistered, catalogVars, LoadOK, NoneOK, Beyond
    <3> QED
      BY <3>1, <3>2
  <2>19. CASE ListTablesFails(th)
    BY <2>4, <2>19 DEF ListTablesFails
  <2>20. CASE FetchFails(th)
    BY <2>4, <2>20 DEF FetchFails
  <2> QED
    BY <1>3, <2>1, <2>2, <2>3, <2>6, <2>7, <2>8, <2>9, <2>10, <2>11, <2>12, <2>13, <2>14,
       <2>15, <2>16, <2>17, <2>18, <2>19, <2>20 DEF Begins, Lookup, List, Step
<1> QED
  BY <1>0, <1>1, <1>2, <1>3 DEF Next

(* A list of the tables misses none that was registered all through it and   *)
(* whose schema the catalog knows, whatever happens beside it.               *)
THEOREM ListsAreComplete == Spec => []ListIsComplete
<1>1. AnswerInv => ListIsComplete
  BY DEF AnswerInv, LoadOK, ListOK, ListIsComplete, Ahead, Seen, Beyond
<1> QED
  BY <1>1, AnswerInit, AnswerStep, PTL DEF Spec

(* A look-up finds a table that was registered all through it, if the        *)
(* catalog knows its schema, and a kept table in any case.                   *)
THEOREM LookupsFind == Spec => []LookupFinds
<1>1. AnswerInv => LookupFinds
  BY DEF AnswerInv, NoneOK, LookupFinds
<1> QED
  BY <1>1, AnswerInit, AnswerStep, PTL DEF Spec

-----------------------------------------------------------------------------
(* The locks.                                                               *)

(* A call works in the schema of the table that it looks up. *)
InItsSchema(th) ==
  call[th].at = "table" => call[th].current = {call[th].table.schema}

LockInv ==
  /\ CatalogInv
  /\ LocksAreOwned
  /\ \A th \in Threads : InItsSchema(th)

(* A step of th that leaves schema_lock and th's place outside LoadSchemas, and *)
(* changes the table_locks exactly as th enters or leaves.                     *)
LEMMA LocksFollow ==
  ASSUME TypeOK, LocksAreOwned, NEW th \in Threads,
         \A u \in Threads \ {th} : call'[u] = call[u],
         \/ schemaLock' = schemaLock /\ (call'[th].at = "loading" <=> call[th].at = "loading")
         \/ schemaLock' = schemaLock \ {th} /\ call'[th].at # "loading"
         \/ schemaLock = {} /\ schemaLock' = {th} /\ call'[th].at = "loading",
         \A s \in Schemas :
           \/ tableLock'[s] = tableLock[s] /\ (Inside(th, s)' <=> Inside(th, s))
           \/ tableLock'[s] = tableLock[s] \ {th} /\ ~Inside(th, s)'
           \/ tableLock[s] = {} /\ tableLock'[s] = {th} /\ Inside(th, s)'
  PROVE  LocksAreOwned'
<1>1. schemaLock' = {u \in Threads : call'[u].at = "loading"}
  BY DEF LocksAreOwned
<1>2. \A u \in Threads \ {th} : \A s \in Schemas : Inside(u, s)' <=> Inside(u, s)
  BY DEF Inside
<1>3. \A s \in Schemas : tableLock'[s] = {u \in Threads : Inside(u, s)'}
  BY <1>2 DEF LocksAreOwned
<1>4. \A u, v \in schemaLock' : u = v
  BY DEF LocksAreOwned
<1>5. ASSUME NEW s \in Schemas PROVE \A u, v \in tableLock'[s] : u = v
  <2>1. \A u, v \in tableLock[s] : u = v
    BY DEF LocksAreOwned
  <2> QED BY <2>1
<1> QED BY <1>1, <1>3, <1>4, <1>5 DEF LocksAreOwned

(* Each call takes the locks it enters with, and leaves with none. *)
LEMMA LockStep == LockInv /\ [Next]_vars => LockInv'
<1> SUFFICES ASSUME LockInv, [Next]_vars PROVE LockInv'
  OBVIOUS
<1>t. CatalogInv' /\ TypeOK /\ LocksAreOwned /\ \A u \in Threads : CallOK(u) /\ InItsSchema(u)
  BY CatalogStep DEF LockInv, CatalogInv
<1>u. ASSUME UNCHANGED <<call, schemaLock, tableLock>> PROVE LockInv'
  <2>1. LocksAreOwned'
    BY <1>t, <1>u DEF LocksAreOwned, Inside
  <2> QED BY <1>t, <1>u, <2>1 DEF LockInv, InItsSchema
<1>1. CASE UNCHANGED vars \/ Register \/ Unregister
  BY <1>u, <1>1 DEF vars, Register, Unregister, catalogVars, entryVars
<1>2. ASSUME NEW th \in Threads, Begins(th) \/ Step(th) \/ Return(th) PROVE LockInv'
  <2>c. /\ CallOK(th) /\ call \in [Threads -> Call] /\ call[th] \in Call
        /\ tableLock \in [Schemas -> SUBSET Threads]
    BY <1>t DEF TypeOK
  <2>s. ASSUME \A u \in Threads \ {th} : call'[u] = call[u], InItsSchema(th)', LocksAreOwned'
        PROVE  LockInv'
    <3>1. \A u \in Threads \ {th} : InItsSchema(u)'
      BY <1>t, <2>s DEF InItsSchema
    <3> QED BY <1>t, <2>s, <3>1 DEF LockInv
  <2> USE DEF Goto, Fail, world, catalogVars, entryVars
  (* Calls that begin or end, and steps between two locks. *)
  <2>1. ASSUME \A u \in Threads \ {th} : call'[u] = call[u],
               call[th].at \notin {"loading", "fetching", "scanning"},
               call'[th].at \notin {"loading", "fetching", "scanning"},
               InItsSchema(th)', UNCHANGED <<schemaLock, tableLock>>
        PROVE  LockInv'
    <3>1. \A s \in Schemas : ~Inside(th, s) /\ ~Inside(th, s)'
      BY <2>1 DEF Inside
    <3>2. LocksAreOwned'
      BY <1>t, <2>1, <3>1, LocksFollow
    <3> QED BY <2>1, <2>s, <3>2
  <2>2. CASE Begins(th) \/ Return(th)
    <3>1. ASSUME NEW op, NEW id, Begin(th, op, id) PROVE LockInv'
      <4>1. call[th].at = "idle" /\ call'[th].at = "schema"
        BY <2>c, <3>1 DEF Begin, Idle
      <4> QED BY <2>1, <2>c, <3>1, <4>1 DEF Begin, InItsSchema
    <3>2. CASE ListCached(th)
      <4>1. call[th].at = "idle" /\ call'[th].at = "listed"
        BY <2>c, <3>2 DEF ListCached, Idle
      <4> QED BY <2>1, <2>c, <3>2, <4>1 DEF ListCached, InItsSchema
    <3>3. CASE Return(th)
      <4>1. call[th].at \in {"found", "none", "listed", "error"} /\ call'[th].at = "idle"
        BY <2>c, <3>3 DEF Return, Idle
      <4> QED BY <2>1, <2>c, <3>3, <4>1 DEF Return, InItsSchema
    <3> QED BY <2>2, <3>1, <3>2, <3>3 DEF Begins, Lookup, List
  <2>3. ASSUME NEW known, GoOn(th, known)
        PROVE  /\ \A u \in Threads \ {th} : call'[u] = call[u]
               /\ call'[th].at \in {"table", "none", "listed", "refs"}
               /\ InItsSchema(th)'
    BY <2>3, <2>c DEF GoOn, InItsSchema, Call
  <2>4. CASE FindSchemas(th)
    BY <2>1, <2>3, <2>4 DEF FindSchemas
  <2>5. CASE LockSchemas(th)
    <3>1. /\ schemaLock = {} /\ schemaLock' = {th} /\ call'[th].at = "loading"
          /\ call[th].at = "schema" /\ UNCHANGED tableLock
          /\ \A u \in Threads \ {th} : call'[u] = call[u]
      BY <2>5, <2>c DEF LockSchemas, Free, Call
    <3>2. \A s \in Schemas : ~Inside(th, s) /\ ~Inside(th, s)'
      BY <3>1 DEF Inside
    <3>3. LocksAreOwned'
      BY <1>t, <3>1, <3>2, LocksFollow
    <3> QED BY <2>s, <3>1, <3>3 DEF InItsSchema
  <2>6. CASE LoadSchemas(th) \/ LoadFails(th)
    <3>1. /\ schemaLock' = schemaLock \ {th} /\ call[th].at = "loading" /\ UNCHANGED tableLock
          /\ \A u \in Threads \ {th} : call'[u] = call[u]
          /\ call'[th].at \in {"table", "none", "listed", "refs", "error"}
          /\ InItsSchema(th)'
      <4>1. CASE LoadSchemas(th)
        BY <2>3, <4>1 DEF LoadSchemas
      <4>2. CASE LoadFails(th)
        BY <2>c, <4>2 DEF LoadFails, Idle, InItsSchema
      <4> QED BY <2>6, <4>1, <4>2
    <3>2. \A s \in Schemas : ~Inside(th, s) /\ ~Inside(th, s)'
      BY <3>1 DEF Inside
    <3>3. LocksAreOwned'
      BY <1>t, <3>1, <3>2, LocksFollow
    <3> QED BY <2>s, <3>1, <3>3
  <2>7. CASE Find(th) \/ ListTables(th) \/ ListTablesFails(th)
    <3>1. CASE Find(th)
      BY <2>1, <2>c, <3>1 DEF Find, InItsSchema, Call
    <3>2. CASE ListTables(th)
      <4>1. PICK s \in call[th].toScan :
              call' = [call EXCEPT ![th].at = "scan", ![th].current = {s},
                                   ![th].toScan = @ \ {s},
                                   ![th].refs = {id \in registry : id.schema = s}]
        BY <3>2 DEF ListTables
      <4>2. call[th].at = "refs" /\ call'[th].at = "scan"
        BY <2>c, <3>2, <4>1 DEF ListTables, Call
      <4> QED BY <2>1, <2>c, <3>2, <4>1, <4>2 DEF ListTables, InItsSchema
    <3>3. CASE ListTablesFails(th)
      BY <2>1, <2>c, <3>3 DEF ListTablesFails, Idle, InItsSchema
    <3> QED BY <2>7, <3>1, <3>2, <3>3
  (* Entering and leaving what a table_lock guards. *)
  <2>8. ASSUME NEW s \in Schemas, call[th].at \in {"table", "scan"}, call[th].current = {s},
               tableLock[s] = {}, tableLock' = [tableLock EXCEPT ![s] = {th}],
               call'[th].at \in {"fetching", "scanning"}, call'[th].current = {s},
               \A u \in Threads \ {th} : call'[u] = call[u], UNCHANGED schemaLock
        PROVE  LockInv'
    <3>1. /\ Inside(th, s)' /\ \A r \in Schemas \ {s} : ~Inside(th, r) /\ ~Inside(th, r)'
          /\ tableLock'[s] = {th} /\ \A r \in Schemas \ {s} : tableLock'[r] = tableLock[r]
      BY <2>c, <2>8 DEF Inside
    <3>2. LocksAreOwned'
      BY <1>t, <2>8, <3>1, LocksFollow
    <3> QED BY <2>s, <2>8, <3>2 DEF InItsSchema
  <2>9. CASE LockToFetch(th)
    <3>1. PICK s : s = call[th].table.schema
      OBVIOUS
    <3>2. call[th].at = "table" /\ call[th].table \in Id /\ call[th].current = {s}
      BY <1>t, <2>9, <3>1 DEF LockToFetch, CallOK, InItsSchema
    <3>3. s \in Schemas /\ call'[th].at = "fetching" /\ call'[th].current = {s}
      BY <2>9, <2>c, <3>1, <3>2 DEF LockToFetch, Id, Call
    <3>4. /\ tableLock[s] = {} /\ tableLock' = [tableLock EXCEPT ![s] = {th}]
          /\ \A u \in Threads \ {th} : call'[u] = call[u]
          /\ UNCHANGED schemaLock
      BY <2>9, <2>c, <3>1 DEF LockToFetch, Free
    <3> QED BY <2>8, <3>2, <3>3, <3>4
  <2>10. CASE LockToScan(th)
    <3>1. PICK s \in Schemas : call[th].current = {s}
      BY <2>10, <2>c DEF LockToScan, CallOK
    <3>2. /\ call[th].at = "scan" /\ tableLock[s] = {}
          /\ tableLock' = [tableLock EXCEPT ![s] = {th}]
          /\ call'[th].at = "scanning" /\ call'[th].current = {s}
          /\ \A u \in Threads \ {th} : call'[u] = call[u]
          /\ UNCHANGED schemaLock
      BY <2>10, <2>c, <3>1 DEF LockToScan, Free, Call
    <3> QED BY <2>8, <3>1, <3>2
  <2>11. ASSUME call[th].at \in {"fetching", "scanning"},
                call'[th].at \in {"fetching", "scanning"},
                call'[th].current = call[th].current,
                \A u \in Threads \ {th} : call'[u] = call[u],
                UNCHANGED <<schemaLock, tableLock>>
         PROVE  LockInv'
    <3>1. \A s \in Schemas : Inside(th, s)' <=> Inside(th, s)
      BY <2>11 DEF Inside
    <3>2. LocksAreOwned'
      BY <1>t, <2>11, <3>1, LocksFollow
    <3> QED BY <2>s, <2>11, <3>2 DEF InItsSchema
  <2>12. ASSUME call[th].at \in {"fetching", "scanning"}, Release(th),
                call'[th].at \in {"refs", "listed", "found", "none", "error"},
                \A u \in Threads \ {th} : call'[u] = call[u], UNCHANGED schemaLock
         PROVE  LockInv'
    <3>1. \A s \in Schemas : ~Inside(th, s)' /\ tableLock'[s] = tableLock[s] \ {th}
      BY <2>12 DEF Inside, Release
    <3>2. LocksAreOwned'
      BY <1>t, <2>12, <3>1, LocksFollow
    <3> QED BY <2>s, <2>12, <3>2 DEF InItsSchema
  <2>13. CASE ScanCached(th) \/ ScanMissing(th)
    <3>1. CASE ScanCached(th)
      <4>1. PICK id \in call[th].refs :
              call' = [call EXCEPT ![th].refs = @ \ {id}, ![th].seen = @ \cup Cached(id)]
        BY <3>1 DEF ScanCached
      <4> QED BY <2>11, <2>c, <3>1, <4>1 DEF ScanCached, Call
    <3>2. CASE ScanMissing(th)
      <4>1. PICK id \in call[th].refs :
              call' = [call EXCEPT ![th].at = "fetching", ![th].table = id, ![th].refs = @ \ {id}]
        BY <3>2 DEF ScanMissing
      <4> QED BY <2>11, <2>c, <3>2, <4>1 DEF ScanMissing, Call
    <3> QED BY <2>13, <3>1, <3>2
  <2>14. CASE EndScan(th) \/ FetchFails(th)
    BY <2>12, <2>14, <2>c DEF EndScan, FetchFails, Idle, Call
  <2>15. CASE Fetch(th)
    <3>1. CASE call[th].op = "lookup"
      BY <2>12, <2>15, <2>c, <3>1 DEF Fetch, Insert, Call
    <3>2. CASE call[th].op # "lookup"
      BY <2>11, <2>15, <2>c, <3>2 DEF Fetch, Insert, Call
    <3> QED BY <3>1, <3>2
  <2>16. CASE NotRegistered(th)
    <3>1. CASE call[th].op = "lookup"
      BY <2>12, <2>16, <2>c, <3>1 DEF NotRegistered, Call
    <3>2. CASE call[th].op # "lookup"
      BY <2>11, <2>16, <2>c, <3>2 DEF NotRegistered, GoOnScanning, Call
    <3> QED BY <3>1, <3>2
  <2> QED
    BY <1>2, <2>2, <2>4, <2>5, <2>6, <2>7, <2>9, <2>10, <2>13, <2>14, <2>15, <2>16 DEF Step
<1> QED
  BY <1>1, <1>2 DEF Next

(* schema_lock and each table_lock exclude, are held only inside what they    *)
(* guard, and are never waited for by a thread that holds one: whatever      *)
(* threads look up, list and load, they cannot wait for each other in a ring. *)
THEOREM LocksHaveOwners == Spec => []LocksAreOwned
<1>1. Init => LockInv
  <2> SUFFICES ASSUME Init PROVE LockInv
    OBVIOUS
  <2>1. \A th \in Threads : call[th].at = "idle"
    BY DEF Init, Idle
  <2> QED BY <2>1, InitInv DEF Init, LockInv, LocksAreOwned, Inside, InItsSchema
<1>2. LockInv => LocksAreOwned
  BY DEF LockInv
<1> QED
  BY <1>1, <1>2, LockStep, PTL DEF Spec

=============================================================================
