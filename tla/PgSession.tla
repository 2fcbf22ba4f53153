------------------------------ MODULE PgSession ------------------------------
(***************************************************************************)
(* A Postgres session, as the connector uses it: each operator takes the   *)
(* session before a command and gives the session after it.  Postgres is   *)
(* not part of the repository.                                             *)
(*                                                                         *)
(* A session is a record:                                                  *)
(*   status  "idle"     no transaction block: each statement autocommits   *)
(*           "open"     inside a transaction block                         *)
(*           "aborted"  inside a block in which a statement failed: every  *)
(*                      further statement is refused                       *)
(*           "lost"     the connection is gone; the client never reopens   *)
(*   base    the durable database, which is what other sessions see        *)
(*   work    the database as this session sees it                          *)
(***************************************************************************)

PgStatus == {"idle", "open", "aborted", "lost"}

PgSessions(Database) == [status : PgStatus, base : Database, work : Database]

(* BEGIN; inside a block it only warns. *)
PgBegin(s) ==
  [s EXCEPT !.status = IF s.status = "idle" THEN "open" ELSE s.status]

(* A statement that succeeds and leaves the session seeing db. *)
PgExec(s, db) ==
  [s EXCEPT !.base = IF s.status = "open" THEN s.base ELSE db,
            !.work = db]

(* A statement that the server refuses. *)
PgError(s) ==
  [s EXCEPT !.status = IF s.status = "open" THEN "aborted" ELSE s.status]

(* ROLLBACK; outside a block it only warns. *)
PgRollback(s) ==
  [s EXCEPT !.status = "idle", !.work = s.base]

(* COMMIT.  Outside a block it only warns; in an aborted block the server    *)
(* rolls back and still answers without an error.                           *)
PgCommit(s) ==
  IF s.status = "open" THEN [s EXCEPT !.status = "idle", !.base = s.work]
                       ELSE PgRollback(s)

(* The connection breaks: the server discards the open block. *)
PgLose(s) ==
  [s EXCEPT !.status = "lost", !.work = s.base]

==============================================================================
