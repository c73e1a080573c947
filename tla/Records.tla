-------------------------------- MODULE Records --------------------------------
(***************************************************************************)
(* CRM rows that are edited by hand and deleted softly: opportunities      *)
(* (api/v1/opportunities.py), tasks (tasks.py) and notes (notes.py).       *)
(*                                                                         *)
(* A call loads the row in a session of its own and works on that copy.    *)
(* One transaction inserts the audit record, with the time at which that   *)
(* is done, and then writes the columns that differ from the copy.  Only   *)
(* this last UPDATE locks the row, so that overlapping edits may be logged *)
(* in another order than the one in which they are written.                *)
(***************************************************************************)
EXTENDS Naturals

CONSTANTS
  Opportunities, Tasks, Notes,  \* the ids of the rows there may be
  Stages,      \* OPPORTUNITY_STAGES, or those a run uses
  Editors,     \* sessions of the API that may edit at once
  MaxEdits,    \* bound: calls
  Null         \* model value: no row, no column, not in the payload

TaskStatuses == {"todo", "in_progress", "done", "cancelled"}

Rows == Opportunities \cup Tasks \cup Notes
AnyValue == Stages \cup TaskStatuses \cup {Null}
AnyRow == [value : AnyValue, completed : BOOLEAN, deleted : BOOLEAN]
AnyEdit == [id : Rows, copy : AnyRow, op : {"patch", "delete"}, value : AnyValue,
            at : Nat, overtaken : BOOLEAN]
AnyEntry == [at : Nat, action : {"created", "stage_changed", "completed", "deleted"},
             from : AnyValue, to : AnyValue]

ASSUME RecordConstants ==
  /\ MaxEdits \in Nat
  /\ Null \notin Stages \cup TaskStatuses /\ Null \notin AnyRow /\ Null \notin AnyEdit
  /\ Opportunities \cap Tasks = {} /\ Notes \cap (Opportunities \cup Tasks) = {}

\* What the column "stage" of an opportunity, or "status" of a task, may hold.
Values(r) == IF r \in Opportunities THEN Stages ELSE IF r \in Tasks THEN TaskStatuses ELSE {}

VARIABLES
  row,      \* value, completed and deleted of each row
  trail,    \* what the audit log says of each row, with the time of each entry
  clock,    \* the time of the latest entry about each row, committed or not
  edit,     \* what each session is about to write: the row, its copy, the payload, the
            \* time of its own log entry (0: none yet), and whether the row has changed since
  raced,    \* history: rows written by a session after another had changed them
  statused, \* history: tasks whose status a PATCH has sent
  edits

recordVars == <<row, trail, clock, edit, raced, statused, edits>>

-----------------------------------------------------------------------------

Edit == edits < MaxEdits /\ edits' = edits + 1

\* record_audit, after the INSERT of the row: both are seen at once, when they commit.  (The
\* entry has no "to" in the code: it stands for the value the row was created with.)
\* A task may be created in any status, "done" too, and is not completed by it.
CreateRow(r, v) ==
  /\ Edit /\ row[r] = Null
  /\ row' = [row EXCEPT ![r] = [value |-> v, completed |-> FALSE, deleted |-> FALSE]]
  /\ clock' = [clock EXCEPT ![r] = 1]
  /\ trail' = [trail EXCEPT ![r] = {[at |-> 1, action |-> "created", from |-> Null, to |-> v]}]
  /\ UNCHANGED <<edit, raced, statused>>

\* _get_owned_*: the row, if it is not deleted.
Owned(r) == row[r] # Null /\ ~row[r].deleted

Load(h, r, op, v) ==
  /\ Edit /\ edit[h] = Null /\ Owned(r)
  /\ edit' = [edit EXCEPT ![h] = [id |-> r, copy |-> row[r], op |-> op, value |-> v,
                                  at |-> 0, overtaken |-> FALSE]]
  /\ UNCHANGED <<row, trail, clock, raced, statused>>

\* A PATCH carries a value for the column or, with v = Null, other columns only.
OpenPatch(h, r, v) == r \notin Notes /\ Load(h, r, "patch", v)
OpenDelete(h, r) == Load(h, r, "delete", Null)

\* What is audited: a stage that differs from the copy's, the first "done", a deletion.
Audits(e) ==
  \/ e.op = "delete"
  \/ e.id \in Opportunities /\ e.value \notin {Null, e.copy.value}
  \/ e.id \in Tasks /\ e.value = "done" /\ ~e.copy.completed

Entry(e) ==
  [at |-> e.at, from |-> e.copy.value, to |-> e.value,
   action |-> IF e.op = "delete" THEN "deleted"
              ELSE IF e.id \in Tasks THEN "completed" ELSE "stage_changed"]

\* record_audit: the flush inserts the entry, and the column default gives it its time,
\* before the UPDATE of the row.
LogEdit(h) ==
  /\ edit[h] # Null /\ Audits(edit[h]) /\ edit[h].at = 0
  /\ clock' = [clock EXCEPT ![edit[h].id] = @ + 1]
  /\ edit' = [edit EXCEPT ![h].at = clock[edit[h].id] + 1]
  /\ UNCHANGED <<row, trail, raced, statused, edits>>

\* Mutant: every column of the copy is written.
FlushAllColumns(now, loaded, new) == new

Column(now, loaded, new) == IF new = loaded THEN now ELSE new

\* The UPDATE of a flush.
FlushRow(now, loaded, new) ==
  [value |-> Column(now.value, loaded.value, new.value),
   completed |-> Column(now.completed, loaded.completed, new.completed),
   deleted |-> Column(now.deleted, loaded.deleted, new.deleted)]

\* The UPDATE, which waits for that of any other session, and the commit.
Write(h, new) ==
  LET e == edit[h]
      after == FlushRow(row[e.id], e.copy, new)
  IN  /\ Audits(e) => e.at # 0
      /\ row' = [row EXCEPT ![e.id] = after]
      /\ trail' = IF Audits(e) THEN [trail EXCEPT ![e.id] = @ \cup {Entry(e)}] ELSE trail
      /\ raced' = IF e.overtaken THEN raced \cup {e.id} ELSE raced
      /\ edit' = [g \in Editors |->
           IF g = h THEN Null
           ELSE IF edit[g] # Null /\ edit[g].id = e.id /\ after # row[e.id]
           THEN [edit[g] EXCEPT !.overtaken = TRUE] ELSE edit[g]]
      /\ UNCHANGED <<clock, edits>>

\* Mutant: another status does not reset completed_at.
CompletedOnce(copy, v) == copy.completed \/ v = "done"

\* update_task: completed_at is set with the first "done" and reset by any other status.
Completed(copy, v) == IF v = Null THEN copy.completed ELSE v = "done"

PatchTask(h) ==
  LET e == edit[h]
  IN  /\ e # Null /\ e.op = "patch" /\ e.id \in Tasks
      /\ Write(h, [e.copy EXCEPT !.value = IF e.value = Null THEN @ ELSE e.value,
                                 !.completed = Completed(e.copy, e.value)])
      /\ statused' = IF e.value = Null THEN statused ELSE statused \cup {e.id}

PatchOpportunity(h) ==
  LET e == edit[h]
  IN  /\ e # Null /\ e.op = "patch" /\ e.id \in Opportunities
      /\ Write(h, [e.copy EXCEPT !.value = IF e.value = Null THEN @ ELSE e.value])
      /\ UNCHANGED statused

DeleteRow(h) ==
  /\ edit[h] # Null /\ edit[h].op = "delete"
  /\ Write(h, [edit[h].copy EXCEPT !.deleted = TRUE])
  /\ UNCHANGED statused

\* The payload names a row of another tenant or sends null, or the session dies: a rollback,
\* of its log entry too.
DropEdit(h) ==
  /\ edit[h] # Null
  /\ edit' = [edit EXCEPT ![h] = Null]
  /\ UNCHANGED <<row, trail, clock, raced, statused, edits>>

-----------------------------------------------------------------------------

RecordsInit ==
  /\ row = [r \in Rows |-> Null] /\ trail = [r \in Rows |-> {}]
  /\ clock = [r \in Rows |-> 0] /\ edit = [h \in Editors |-> Null]
  /\ raced = {} /\ statused = {} /\ edits = 0

RecordsNext ==
  \/ \E r \in Rows : \E v \in (IF r \in Notes THEN {Null} ELSE Values(r)) : CreateRow(r, v)
  \/ \E h \in Editors :
       \/ \E r \in Rows : OpenDelete(h, r) \/ \E v \in Values(r) \cup {Null} : OpenPatch(h, r, v)
       \/ LogEdit(h) \/ PatchTask(h) \/ PatchOpportunity(h) \/ DeleteRow(h) \/ DropEdit(h)

RecordsSpec == RecordsInit /\ [][RecordsNext]_recordVars

-----------------------------------------------------------------------------
(* Properties. *)

RowType(r) == [value : Values(r) \cup {Null}, completed : BOOLEAN, deleted : BOOLEAN]

\* The shape of the state; only tasks are ever completed, and times are in the past.
RecordsTypeOK ==
  /\ \A r \in Rows : /\ row[r] # Null => row[r] \in RowType(r)
                     /\ row[r] # Null /\ row[r].completed => r \in Tasks
                     /\ row[r] = Null <=> trail[r] = {}
                     /\ clock[r] \in Nat
                     /\ \A m \in trail[r] : m \in AnyEntry /\ m.at <= clock[r]
  /\ \A h \in Editors : edit[h] # Null =>
       /\ edit[h].id \in Rows /\ edit[h].copy \in RowType(edit[h].id)
       /\ edit[h].op \in {"patch", "delete"} /\ edit[h].value \in Values(edit[h].id) \cup {Null}
       /\ edit[h].at \in 0..clock[edit[h].id] /\ edit[h].overtaken \in BOOLEAN
  /\ raced \subseteq Rows /\ statused \subseteq Tasks /\ edits \in 0..MaxEdits

\* The entries about the value of a row.
Moves(r) == {m \in trail[r] : m.action \in {"created", "stage_changed"}}

\* The log knows the stage of an opportunity and where each move came from, and a deletion
\* is on record exactly if the row is deleted, however edits overlap.
LogIsWhole(r) ==
  /\ \E m \in Moves(r) : m.to = row[r].value
  /\ \A m \in Moves(r) : m.action = "created" \/ \E k \in Moves(r) : k.at < m.at /\ k.to = m.from
  /\ row[r].deleted <=> \E m \in trail[r] : m.action = "deleted"

\* Read by time, every move starts where the one before ended, and the last is the stage.
LogIsChain(r) ==
  \A k \in Moves(r) :
    /\ (\A m \in Moves(r) : m.at <= k.at) => k.to = row[r].value
    /\ \A m \in Moves(r) :
         k.at < m.at /\ (\A i \in Moves(r) : i.at <= k.at \/ m.at <= i.at) => m.from = k.to

\* Every step leaves the log of an opportunity telling its stages (update_opportunity audits
\* against the copy it loaded): however edits overlap, it knows them all, and no stage is
\* entered without an entry that says so; and unless an edit was written after another that
\* it did not know of, the log read by time is a chain that ends at the stage there is.
TrailIsStage ==
  [][\A r \in Opportunities : row'[r] # Null =>
       /\ LogIsWhole(r)'
       /\ r \in raced' \/ LogIsChain(r)'
       /\ \/ row[r] # Null /\ row'[r].value = row[r].value
          \/ \E m \in Moves(r)' \ Moves(r) : m.to = row'[r].value]_recordVars

\* Unless edits of it overlapped, a task with a completion date is done, and one that is
\* done without was created so and no PATCH has sent a status since (update_task).
DoneIsCompleted ==
  \A r \in Tasks : row[r] # Null /\ r \notin raced =>
    /\ row[r].completed => row[r].value = "done"
    /\ row[r].value = "done" /\ ~row[r].completed => r \notin statused

\* A deletion is final, also for an edit that loaded the row before it.
DeletedStaysDeleted ==
  [][\A r \in Rows : row[r] # Null /\ row[r].deleted => row'[r] # Null /\ row'[r].deleted]_recordVars
=============================================================================
