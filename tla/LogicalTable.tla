----------------------------- MODULE LogicalTable -----------------------------
(***************************************************************************)
(* What a tiered table promises to SQL: it is one set of rows with a        *)
(* primary key.  A statement takes effect at once, as announced, or fails.  *)
(* Rows expire when the retention line passes them, and in no other way     *)
(* does a row come or go.                                                   *)
(***************************************************************************)
EXTENDS Integers

VARIABLES
  rows,  \* the table
  stmt,  \* the statement under way: the pairs [old, new] it is made of
  line   \* the retention line

vars == <<rows, stmt, line>>

Olds(pairs) == UNION {p.old : p \in pairs}
News(pairs) == UNION {p.new : p \in pairs}

Init ==
  /\ rows = {}
  /\ stmt = {}
  /\ line \in Nat

(* A statement is announced: the rows it has seen, and what replaces them. *)
Begin ==
  /\ stmt = {}
  /\ stmt' # {}
  /\ Olds(stmt') \subseteq rows
  /\ \A r, s \in News(stmt') : r.key = s.key => r = s
  /\ UNCHANGED <<rows, line>>

(* Writes are newest-wins upserts. *)
Apply ==
  /\ stmt # {}
  /\ \A r \in Olds(stmt) \cup News(stmt) : r.tk >= line
  /\ rows' = {r \in rows \ Olds(stmt) : \A s \in News(stmt) : r.key # s.key}
             \cup News(stmt)
  /\ stmt' = {}
  /\ UNCHANGED line

Fail ==
  /\ stmt # {}
  /\ stmt' = {}
  /\ UNCHANGED <<rows, line>>

(* The line only rises; the rows below it go together, at once or later. *)
Expire ==
  /\ line' >= line
  /\ rows' \in {rows, {r \in rows : r.tk >= line}}
  /\ UNCHANGED stmt

Next == Begin \/ Apply \/ Fail \/ Expire

Spec == Init /\ [][Next]_vars

==============================================================================
