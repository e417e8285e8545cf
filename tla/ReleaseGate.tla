---------------------------- MODULE ReleaseGate ----------------------------
(***************************************************************************)
(* The evidence store and the release gate: tools/egrt_store.py and        *)
(* tools/soul_runtime.py, as separate hook and CLI processes use them. A   *)
(* task file, a directory of receipts, a sequence counter and the pointer  *)
(* to the active task are shared; add_obligation and next_seq take an      *)
(* advisory lock, release_task and start_task take none.                   *)
(*                                                                         *)
(* Files are replaced whole (private_io.write_private_text), so a reader   *)
(* sees an old or a new version and every content hash verifies. The event *)
(* files every call appends last are write-only here and left out.         *)
(***************************************************************************)
EXTENDS Integers, FiniteSets

CONSTANTS
  Tasks, FirstTask,       \* task ids; FirstTask is started when we begin
  Obligations,            \* obligation ids, each created at most once
  LoadBearing,            \* those created with load_bearing=True
  Modules, Required,      \* Required[o]: module that must resolve o
  Claims,                 \* what modules put in receipts: task, obl, module, verdict
  Starters, Adders, Writers, Releasers,  \* processes, one call each
  Nobody,                 \* no process, no task
  MaxClock,               \* bound: readings the wall clock goes through
  MaxBusy                 \* bound: calls in progress at a time

Procs == Starters \cup Adders \cup Writers \cup Releasers

Verdicts == {"CLEARED", "UNKNOWN", "UNAVAILABLE", "ISSUE"}

ASSUME StoreAssumption ==
  /\ FirstTask \in Tasks
  /\ LoadBearing \subseteq Obligations
  /\ Required \in [Obligations -> Modules]
  /\ Claims \subseteq [task : Tasks, obl : Obligations, module : Modules, verdict : Verdicts]
  /\ MaxClock \in Nat /\ MaxBusy \in Nat
  /\ Nobody \notin Procs \cup Tasks \cup Obligations
  /\ "seq" \notin Tasks

VARIABLES
  tasks,     \* tasks[t]: content of t's file, or NoTask
  receipts,  \* the receipt files
  seq,       \* seq_counter.json
  pointer,   \* the active_task file
  clock,     \* the wall clock
  locks,     \* locks[n]: holder of the advisory lock named n
  pc,        \* pc[p]: the next step of p
  job,       \* job[p]: the task and obligation p's call is about
  view,      \* view[p]: the task as p last read it
  draft,     \* draft[p]: the receipt p is storing
  todo,      \* todo[p]: obligations the gate of p has still to judge
  overall,   \* overall[p]: worst verdict its gate has met
  acked,     \* history: <<t, o>> that add_obligation wrote and released the lock
  seen       \* history: seen[p]: what was on disk when the gate of p began

store == <<tasks, receipts, seq, pointer, locks>>
local == <<job, view, draft, todo, overall>>
vars == <<store, clock, pc, local, acked, seen>>

Severity == [CLEARED |-> 0, UNKNOWN |-> 1, UNAVAILABLE |-> 2, ISSUE |-> 3]
Worse(l, r) == IF Severity[r] > Severity[l] THEN r ELSE l

NoTask == [obls |-> {}]
NewTask == [obls |-> {}, active |-> TRUE, released |-> FALSE]

\* A receipt also carries prior, those already on disk when it was stamped (history).
NoDraft == [by |-> Nobody]

LockNames == Tasks \cup {"seq"}

Init ==
  /\ tasks = [t \in Tasks |-> IF t = FirstTask THEN NewTask ELSE NoTask]
  /\ receipts = {}
  /\ seq = 0
  /\ pointer = FirstTask
  /\ clock = 0
  /\ locks = [n \in LockNames |-> Nobody]
  /\ pc = [p \in Procs |-> "ready"]
  /\ job = [p \in Procs |-> [task |-> FirstTask, obl |-> Nobody]]
  /\ view = [p \in Procs |-> NoTask]
  /\ draft = [p \in Procs |-> NoDraft]
  /\ todo = [p \in Procs |-> {}]
  /\ overall = [p \in Procs |-> "CLEARED"]
  /\ acked = {}
  /\ seen = [p \in Procs |-> [obls |-> {}, receipts |-> {}]]

Busy == {p \in Procs : pc[p] \notin {"ready", "done", "refused", "dead"}}

Goto(p, from, to) ==
  /\ pc[p] = from
  /\ from = "ready" => Cardinality(Busy) < MaxBusy
  /\ pc' = [pc EXCEPT ![p] = to]

Tick ==
  /\ clock < MaxClock
  /\ clock' = clock + 1
  /\ UNCHANGED <<store, pc, local, acked, seen>>

-----------------------------------------------------------------------------
(* start_task: the task file, then the pointer *)

StartWrite(p) ==
  \E t \in Tasks :
    /\ tasks[t] = NoTask
    /\ Goto(p, "ready", "point")
    /\ tasks' = [tasks EXCEPT ![t] = NewTask]
    /\ job' = [job EXCEPT ![p].task = t]
    /\ UNCHANGED <<receipts, seq, pointer, locks, clock, view, draft, todo, overall,
                   acked, seen>>

StartPoint(p) ==
  /\ Goto(p, "point", "done")
  /\ pointer' = job[p].task
  /\ UNCHANGED <<tasks, receipts, seq, locks, clock, local, acked, seen>>

-----------------------------------------------------------------------------
(* add_obligation: read-modify-write under the task's lock *)

\* Task ids a caller can know: start_task returned, or the pointer names it.
Known(t) ==
  \/ t \in {FirstTask, pointer}
  \/ \E p \in Starters : job[p].task = t /\ pc[p] \in {"done"}
Fresh(o) == \A q \in Procs : q \in Adders => job[q].obl # o

AddBegin(p) ==
  \E t \in Tasks, o \in Obligations :
    /\ Known(t)
    /\ Fresh(o)
    /\ Goto(p, "ready", "lock")
    /\ job' = [job EXCEPT ![p] = [task |-> t, obl |-> o]]
    /\ UNCHANGED <<store, clock, view, draft, todo, overall, acked, seen>>

TaskFree_Ignored(t) == TRUE
TaskFree(t) == locks[t] = Nobody

AddRead(p) ==
  /\ TaskFree(job[p].task)
  /\ Goto(p, "lock", "append")
  /\ locks' = [locks EXCEPT ![job[p].task] = p]
  /\ view' = [view EXCEPT ![p] = tasks[job[p].task]]
  /\ UNCHANGED <<tasks, receipts, seq, pointer, clock, job, draft, todo, overall,
                 acked, seen>>

AddWrite(p) ==
  /\ Goto(p, "append", "unlock")
  /\ tasks' = [tasks EXCEPT ![job[p].task] =
                 [view[p] EXCEPT !.obls = @ \cup {job[p].obl}]]
  /\ view' = [view EXCEPT ![p] = NoTask]
  /\ UNCHANGED <<receipts, seq, pointer, locks, clock, job, draft, todo, overall, acked, seen>>

AddReturn(p) ==
  /\ Goto(p, "unlock", "done")
  /\ locks' = [locks EXCEPT ![job[p].task] = Nobody]
  /\ acked' = acked \cup {<<job[p].task, job[p].obl>>}
  /\ UNCHANGED <<tasks, receipts, seq, pointer, clock, local, seen>>

-----------------------------------------------------------------------------
(* write_receipt: stamp, sequence number, file *)

\* The receipt of module m names its task, or the task is looked up by obligation.
Stamp(p) ==
  \E c \in Claims :
    /\ \E t \in Tasks : c.obl \in tasks[t].obls \/ <<t, c.obl>> \in acked
    /\ Goto(p, "ready", "seqlock")
    /\ draft' = [draft EXCEPT ![p] =
         [by |-> p, obl |-> c.obl, task |-> c.task, module |-> c.module, verdict |-> c.verdict,
          stored_at |-> clock, seq |-> 0, prior |-> {r.by : r \in receipts}]]
    /\ UNCHANGED <<store, clock, job, view, todo, overall, acked, seen>>

SeqFree_Ignored == TRUE
SeqFree == locks["seq"] = Nobody

SeqRead(p) ==
  /\ SeqFree
  /\ Goto(p, "seqlock", "seqwrite")
  /\ locks' = [locks EXCEPT !["seq"] = p]
  /\ draft' = [draft EXCEPT ![p].seq = seq + 1]
  /\ UNCHANGED <<tasks, receipts, seq, pointer, clock, job, view, todo, overall,
                 acked, seen>>

SeqWrite(p) ==
  /\ Goto(p, "seqwrite", "store")
  /\ seq' = draft[p].seq
  /\ locks' = [locks EXCEPT !["seq"] = Nobody]
  /\ UNCHANGED <<tasks, receipts, pointer, clock, local, acked, seen>>

StoreReceipt(p) ==
  /\ Goto(p, "store", "done")
  /\ receipts' = receipts \cup {draft[p]}
  /\ draft' = [draft EXCEPT ![p] = NoDraft]
  /\ UNCHANGED <<tasks, seq, pointer, locks, clock, job, view, todo, overall, acked, seen>>

-----------------------------------------------------------------------------
(* release_gate and release_task, from the Stop hook or the command line *)

\* _receipt_order: by time stamp, then by sequence number.
Before(r, s) == r.stored_at < s.stored_at \/ (r.stored_at = s.stored_at /\ r.seq < s.seq)

\* Receipts of obligation o that the gate of task t accepts.
Accepted_AnyModule(t, o) == {r \in receipts : r.obl = o /\ r.task = t}
Accepted(t, o) == {r \in receipts : r.obl = o /\ r.task = t /\ r.module = Required[o]}

\* The verdict of the last one in order, UNKNOWN when there is none.
Current(t, o) ==
  LET rs == Accepted(t, o)
      last == {r \in rs : \A s \in rs : ~Before(r, s)}
  IN  IF rs = {} THEN {"UNKNOWN"} ELSE {r.verdict : r \in last}

\* The Stop hook releases the task the pointer names; the command line any task.
GateRead(p) ==
  \E t \in Tasks :
    /\ Known(t)
    /\ Goto(p, "ready", "judge")
    /\ job' = [job EXCEPT ![p].task = t]
    /\ todo' = [todo EXCEPT ![p] = tasks[t].obls \cap LoadBearing]
    /\ seen' = [seen EXCEPT ![p] = [obls |-> tasks[t].obls, receipts |-> receipts]]
    /\ UNCHANGED <<store, clock, view, draft, overall, acked>>

Judge(p) ==
  /\ pc[p] = "judge"
  /\ \E o \in todo[p] :
       /\ \E v \in Current(job[p].task, o) : overall' = [overall EXCEPT ![p] = Worse(@, v)]
       /\ todo' = [todo EXCEPT ![p] = @ \ {o}]
  /\ UNCHANGED <<store, clock, pc, job, view, draft, acked, seen>>

Refuse(p) ==
  /\ todo[p] = {}
  /\ overall[p] # "CLEARED"
  /\ Goto(p, "judge", "refused")
  /\ UNCHANGED <<store, clock, local, acked, seen>>

\* The gate is CLEARED: release_task reads the task again, without the lock.
ReleaseRead(p) ==
  /\ todo[p] = {}
  /\ overall[p] = "CLEARED"
  /\ Goto(p, "judge", "release")
  /\ view' = [view EXCEPT ![p] = tasks[job[p].task]]
  /\ UNCHANGED <<store, clock, job, draft, todo, overall, acked, seen>>

ReleaseWrite(p) ==
  /\ Goto(p, "release", "unpoint")
  /\ tasks' = [tasks EXCEPT ![job[p].task] =
                 [view[p] EXCEPT !.active = FALSE, !.released = TRUE]]
  /\ view' = [view EXCEPT ![p] = NoTask]
  /\ UNCHANGED <<receipts, seq, pointer, locks, clock, job, draft, todo, overall, acked, seen>>

PointsAt_Never(t) == FALSE
PointsAt(t) == pointer = t

\* active_task is read, and unlinked a step later if it named this task.
CheckPointer(p) ==
  /\ Goto(p, "unpoint", IF PointsAt(job[p].task) THEN "unlink" ELSE "done")
  /\ UNCHANGED <<store, clock, local, acked, seen>>

Unlink(p) ==
  /\ Goto(p, "unlink", "done")
  /\ pointer' = Nobody
  /\ UNCHANGED <<tasks, receipts, seq, locks, clock, local, acked, seen>>

-----------------------------------------------------------------------------
\* A process dies inside a lock, which the kernel drops. (One that dies elsewhere
\* touches nothing more: it is a process that takes no further step.)
Crash(p) ==
  /\ \E n \in LockNames : locks[n] = p
  /\ pc' = [pc EXCEPT ![p] = "dead"]
  /\ locks' = [n \in LockNames |-> IF locks[n] = p THEN Nobody ELSE locks[n]]
  /\ UNCHANGED <<tasks, receipts, seq, pointer, clock, local, acked, seen>>

Start(p)   == StartWrite(p) \/ StartPoint(p)
Add(p)     == AddBegin(p) \/ AddRead(p) \/ AddWrite(p) \/ AddReturn(p)
Write(p)   == Stamp(p) \/ SeqRead(p) \/ SeqWrite(p) \/ StoreReceipt(p)
Release(p) == GateRead(p) \/ Judge(p) \/ Refuse(p)
                \/ ReleaseRead(p) \/ ReleaseWrite(p) \/ CheckPointer(p) \/ Unlink(p)

Next ==
  \/ Tick
  \/ \E p \in Starters : Start(p)
  \/ \E p \in Adders : Add(p)
  \/ \E p \in Writers : Write(p)
  \/ \E p \in Releasers : Release(p)
  \/ \E p \in Procs : Crash(p)

Spec == Init /\ [][Next]_vars

-----------------------------------------------------------------------------
(* Properties *)

\* The processes whose release_task has written the task file.
Released(p) == p \in Releasers /\ pc[p] \in {"unpoint", "unlink", "done"}

\* Receipts that bear on obligation o of task t: its own module's, of this task.
Evidence(t, o) == {r \in receipts : r.obl = o /\ r.task = t /\ r.module = Required[o]}

\* A release is justified by evidence of its own: each load-bearing obligation
\* the gate knew has a CLEARED receipt of its own module and task that no
\* receipt already on disk when the gate began comes after. A missing receipt,
\* another task's, another module's, or an old green one never releases.
ReleaseIsJustified ==
  \A p \in Releasers : Released(p) =>
    \A o \in seen[p].obls \cap LoadBearing :
      \E c \in Evidence(job[p].task, o) :
        /\ c.verdict = "CLEARED"
        /\ \A r \in seen[p].receipts \cap Evidence(job[p].task, o) : ~Before(c, r)

\* However their writers interleave or die, also when the clock ties, any two
\* receipts are ordered, so "the last receipt" is one receipt; and one stored
\* before another write_receipt began comes before it.
ReceiptsAreOrdered == \A r, s \in receipts :
  /\ r # s => Before(r, s) \/ Before(s, r)
  /\ r.by \in s.prior => Before(r, s)

\* Concurrent add_obligation calls never lose each other's obligation: one that
\* was added is in the task file unless a release has rewritten the file.
OnlyReleaseLosesObligations ==
  \A t \in Tasks, o \in Obligations :
    <<t, o>> \in acked /\ o \notin tasks[t].obls =>
      \E p \in Releasers : job[p].task = t /\ Released(p)

\* The pointer names a released task only while its releaser is on its way to
\* unlink it (or stopped there): later Stop hooks do not gate a finished task.
PointerIsCurrent ==
  pointer # Nobody /\ tasks[pointer].released =>
    \E p \in Releasers : job[p].task = pointer /\ pc[p] \in {"unpoint", "unlink"}

\* add_obligation's lock is there so that no obligation is lost among concurrent
\* hook processes (soul_runtime.py: "otherwise ... all but the last obligation is
\* lost"); the Stop hook's release is one of those processes.
AddedObligationIsKept ==
  \A t \in Tasks, o \in Obligations : <<t, o>> \in acked => o \in tasks[t].obls
=============================================================================
