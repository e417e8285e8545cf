----------------------------- MODULE EventTrace -----------------------------
(***************************************************************************)
(* The typed event log of tools/egrt_store.py and the Process Assurance    *)
(* monitors of tools/gauntlet_runtime.py that judge it. An event is a file *)
(* named by its time and a random id: events of one instant are read in    *)
(* any order, and a slow writer's event lands before later ones. A receipt *)
(* is stored first and announced by events afterwards.                     *)
(*                                                                         *)
(* Each monitor reads a few event types of one task. One operation is      *)
(* watched in a behaviour, and the log holds the types it reads.           *)
(***************************************************************************)
EXTENDS Integers, Sequences, FiniteSets, SequencesExt, Absence

CONSTANTS
  Writers,    \* hook processes, runtimes and callers of append_event
  Watchable,  \* operations that may be watched
  Marks,      \* identifiers and hashes in an event's metadata
  MaxWrites(_)  \* bound: events and receipts written, by the operation watched

Maybe == Marks \cup {None}
MonitorVerdicts == {"CLEARED", "ISSUE", "UNKNOWN", "UNAVAILABLE"}

Events(type, shapes) == {[s EXCEPT !.type = type] : s \in shapes}
Bare == [type : {""}]
Ided == [type : {""}, id : Marks]

\* What hooks, runtimes and callers append, for each operation: OPERATIONS names
\* the types it reads. pre_tool and post_tool leave out what they do not know.
Inputs == [
  frame    |-> Events("action.failed", [type : {""}, sig : Maybe]),
  redirect |-> Events("action.attempted", [type : {""}, blocker : Maybe, progress : Maybe]),
  audit    |-> Events("release.attempted", Bare),
  derive   |-> Events("claim.adopted", [type : {""}, inherited : BOOLEAN, id : Maybe]),
  self     |-> Events("release.attempted", Bare) \cup
               Events("evidence.attached", [type : {""}, identical : BOOLEAN, shared : BOOLEAN]),
  boundary |-> Events("handoff.started", Ided) \cup Events("contract.bound", Ided),
  oob      |-> Events("release.attempted", Bare) \cup
               Events("coverage.probe", [type : {""}, class : Maybe]),
  costume  |-> Events("novelty.claim", Ided),
  explain  |-> Events("explanation.claim", [type : {""}, id : Maybe, hash : Marks]) \cup
               Events("artifact.claim", [type : {""}, id : Marks, hash : Marks]),
  refresh  |-> Events("authority.snapshot", Bare) \cup Events("authority.changed", Bare)]

ASSUME TraceAssumption ==
  /\ None \notin Marks
  /\ Watchable \subseteq DOMAIN Inputs
  /\ \A o \in Watchable : MaxWrites(o) \in Nat

VARIABLES
  op,        \* the operation watched
  log,       \* the events, in the order iter_events reads them
  rcpts,     \* the receipts, in the order they are stored
  now,       \* the last time an event took
  queue,     \* queue[w]: events w has still to append
  stamped,   \* stamped[w]: the first of them, once its time is taken
  draft,     \* draft[w]: the receipt run_monitor has still to store
  dead,      \* writers that died
  blurred    \* history: two events of one instant, overlapping writers, a death

tvars == <<op, log, rcpts, now, queue, stamped, draft, dead, blurred>>

\* The receipts other modules store, where the operation reads them or their events.
ReceiptsOf ==
  [o \in DOMAIN Inputs |->
     IF o \notin {"audit", "derive", "costume"} THEN {}
     ELSE [module : IF o = "audit" THEN {"mind"} ELSE {"mind", "space"}, obl : Marks,
           verdict : {"CLEARED", "ISSUE"},
           sourced : IF o = "costume" THEN BOOLEAN ELSE {FALSE}]]

\* What write_receipt announces, of the types the watched operation reads.
Announced_OthersOnly(r) ==
  IF r.module = "gauntlet" THEN <<>>
  ELSE <<[type |-> "obligation.state", obl |-> r.obl, state |-> r.verdict]>>
Announced(r) ==
  CASE op = "audit" -> <<[type |-> "obligation.state", obl |-> r.obl, state |-> r.verdict]>>
    [] op = "costume" -> <<[type |-> "receipt.written", module |-> r.module, obl |-> r.obl,
                            verdict |-> r.verdict, sourced |-> r.sourced]>>
    [] OTHER -> <<>>

-----------------------------------------------------------------------------
(* monitor_structured                                                        *)

Event(i) == log[i].event

\* The positions of the events of one type, those events, and the last n of them.
Typed(t) == {i \in DOMAIN log : Event(i).type = t}
Some(t) == Typed(t) # {}
All(t) == {Event(i) : i \in Typed(t)}
Recent(t, n) ==
  {Event(i) : i \in {k \in Typed(t) : Cardinality({j \in Typed(t) : j > k}) < n}}

\* _latest_obligation_states
Stated == {e.obl : e \in All("obligation.state")}
StatesOf(o) == {i \in Typed("obligation.state") : Event(i).obl = o}
LatestState_First(o) == Event(Min(StatesOf(o))).state
LatestState(o) == Event(Max(StatesOf(o))).state

Audit ==
  IF ~Some("release.attempted") \/ Stated = {} THEN "UNKNOWN"
  ELSE IF \E o \in Stated : LatestState(o) # "CLEARED" THEN "ISSUE" ELSE "CLEARED"

Derive ==
  LET inherited == {e \in All("claim.adopted") : e.inherited}
      derived == {r.obl : r \in {x \in ToSet(rcpts) : x.module = "mind" /\ x.verdict = "CLEARED"}}
  IN  IF inherited = {} THEN "UNKNOWN"
      ELSE IF \E e \in inherited : e.id \notin derived THEN "ISSUE" ELSE "CLEARED"

\* The first event that collides decides, a shared provenance like an identity.
Collides(e) == IF e.identical THEN "ISSUE" ELSE IF e.shared THEN "UNKNOWN" ELSE "CLEARED"
Self ==
  LET hits == {i \in Typed("evidence.attached") : Collides(Event(i)) # "CLEARED"} IN
    IF ~Some("evidence.attached") THEN "UNKNOWN"
    ELSE IF hits = {} THEN "CLEARED" ELSE Collides(Event(Min(hits)))

Stuck(values) == IF None \in values THEN "UNKNOWN"
                 ELSE IF Cardinality(values) = 1 THEN "ISSUE" ELSE "CLEARED"
Redirect ==
  LET last == Recent("action.attempted", 3)
      blockers == {e.blocker : e \in last}
      progress == {e.progress : e \in last}
  IN  IF Cardinality(Typed("action.attempted")) < 3 \/ None \in blockers \cup progress THEN "UNKNOWN"
      ELSE IF Cardinality(blockers) = 1 /\ Cardinality(progress) = 1 THEN "ISSUE" ELSE "CLEARED"
Frame ==
  IF Cardinality(Typed("action.failed")) < 3 THEN "UNKNOWN"
  ELSE Stuck({e.sig : e \in Recent("action.failed", 3)})

Boundary ==
  LET bound == {e.id : e \in All("contract.bound")} IN
    IF ~Some("handoff.started") THEN "UNKNOWN"
    ELSE IF \E e \in All("handoff.started") : e.id \notin bound THEN "ISSUE" ELSE "CLEARED"

Oob ==
  IF ~Some("release.attempted") \/ ~Some("coverage.probe") THEN "UNKNOWN"
  ELSE IF \E e \in All("coverage.probe") : e.class = None THEN "UNKNOWN" ELSE "CLEARED"

Costume ==
  LET cleared == {e.obl : e \in {x \in All("receipt.written") :
                    x.module = "space" /\ x.verdict = "CLEARED" /\ x.sourced}}
  IN  IF ~Some("novelty.claim") THEN "UNAVAILABLE"
      ELSE IF \E e \in All("novelty.claim") : e.id \notin cleared THEN "ISSUE" ELSE "CLEARED"

\* The last artifact claim of an id gives its hash; a contradiction outweighs a
\* claim without a counterpart.
HashOf(id) == LET claims == {i \in Typed("artifact.claim") : Event(i).id = id}
              IN  IF claims = {} THEN None ELSE Event(Max(claims)).hash
Explain ==
  LET claims == All("explanation.claim") IN
    IF claims = {} THEN "UNAVAILABLE"
    ELSE IF \E e \in claims : HashOf(e.id) \notin {None, e.hash} THEN "ISSUE"
    ELSE IF \E e \in claims : HashOf(e.id) = None THEN "UNKNOWN" ELSE "CLEARED"

\* Drift is never forgotten: a later snapshot does not answer it.
Refresh_Rebased ==
  IF log # <<>> /\ log[Len(log)].event.type = "authority.changed" THEN "ISSUE"
  ELSE IF ~Some("authority.snapshot") THEN "UNKNOWN" ELSE "CLEARED"
Refresh ==
  IF Some("authority.changed") THEN "ISSUE"
  ELSE IF ~Some("authority.snapshot") THEN "UNKNOWN" ELSE "CLEARED"

Monitor ==
  CASE op = "frame" -> Frame [] op = "redirect" -> Redirect [] op = "audit" -> Audit
    [] op = "derive" -> Derive [] op = "self" -> Self [] op = "boundary" -> Boundary
    [] op = "oob" -> Oob [] op = "costume" -> Costume [] op = "explain" -> Explain
    [] op = "refresh" -> Refresh

-----------------------------------------------------------------------------
TraceInit ==
  /\ op \in Watchable
  /\ log = <<>> /\ rcpts = <<>>
  /\ now = 0
  /\ queue = [w \in Writers |-> <<>>]
  /\ stamped = [w \in Writers |-> None]
  /\ draft = [w \in Writers |-> None]
  /\ dead = {}
  /\ blurred = FALSE

Busy == {w \in Writers : queue[w] # <<>> \/ draft[w] # None}
Spent == Len(log) + Len(rcpts) + Cardinality(Busy)
Starts(w) ==
  /\ w \notin Busy \cup dead
  /\ Spent < MaxWrites(op)
  /\ blurred' = (blurred \/ Busy # {})

\* A hook, a runtime or emit_probe appends an event of its own.
Emit(w) ==
  /\ Starts(w)
  /\ \E e \in Inputs[op] : queue' = [queue EXCEPT ![w] = <<e>>]
  /\ UNCHANGED <<op, log, rcpts, now, stamped, draft, dead>>

\* write_receipt: the receipt is on disk before any of its events. The module
\* that writes it does not read the trace.
StoreReceipt(w) ==
  /\ Starts(w)
  /\ \E r \in ReceiptsOf[op] :
       /\ rcpts' = Append(rcpts, r)
       /\ queue' = [queue EXCEPT ![w] = Announced(r)]
  /\ UNCHANGED <<op, log, now, stamped, draft, dead>>

\* run_monitor reads the trace and the receipts, judges, and stores the verdict as
\* a receipt under an obligation of its own: the audit reads that one too.
RunMonitor(w) ==
  /\ op = "audit"
  /\ Starts(w)
  /\ \E o \in Marks : draft' = [draft EXCEPT ![w] =
       [module |-> "gauntlet", obl |-> o, verdict |-> Monitor, sourced |-> FALSE]]
  /\ UNCHANGED <<op, log, rcpts, now, queue, stamped, dead>>
StoreVerdict(w) ==
  /\ draft[w] # None
  /\ rcpts' = Append(rcpts, draft[w])
  /\ queue' = [queue EXCEPT ![w] = Announced(draft[w])]
  /\ draft' = [draft EXCEPT ![w] = None]
  /\ UNCHANGED <<op, log, now, stamped, blurred, dead>>

\* append_event: the time is taken when the event is built, the file written later.
Stamp(w) ==
  /\ queue[w] # <<>> /\ stamped[w] = None
  /\ \E t \in {now, now + 1} :
       /\ stamped' = [stamped EXCEPT ![w] = [at |-> t, event |-> Head(queue[w])]]
       /\ now' = t
  /\ UNCHANGED <<op, log, rcpts, queue, draft, blurred, dead>>
Places(e) == {k \in 1..(Len(log) + 1) :
  /\ \A i \in 1..(k - 1) : log[i].at <= e.at
  /\ \A i \in k..Len(log) : e.at <= log[i].at}
AppendEvent(w) ==
  /\ stamped[w] # None
  /\ \E k \in Places(stamped[w]) : log' = InsertAt(log, k, stamped[w])
  /\ queue' = [queue EXCEPT ![w] = Tail(@)]
  /\ stamped' = [stamped EXCEPT ![w] = None]
  /\ blurred' = (blurred \/ \E i \in DOMAIN log : log[i].at = stamped[w].at)
  /\ UNCHANGED <<op, rcpts, now, draft, dead>>

\* A writer dies: its receipt may be stored and never announced.
WriterDies(w) ==
  /\ w \in Busy
  /\ dead' = dead \cup {w}
  /\ queue' = [queue EXCEPT ![w] = <<>>]
  /\ stamped' = [stamped EXCEPT ![w] = None]
  /\ draft' = [draft EXCEPT ![w] = None]
  /\ blurred' = TRUE
  /\ UNCHANGED <<op, log, rcpts, now>>

WriterStep(w) ==
  \/ Emit(w) \/ StoreReceipt(w) \/ RunMonitor(w) \/ StoreVerdict(w)
  \/ Stamp(w) \/ AppendEvent(w) \/ WriterDies(w)
TraceNext == \E w \in Writers : WriterStep(w)

-----------------------------------------------------------------------------
(* Properties *)

LastReceipt(o) == rcpts[Max({i \in DOMAIN rcpts : rcpts[i].obl = o})]

\* An audit that clears is right about the receipts: the last receipt of every
\* obligation that has one is CLEARED, as release_gate reads them, unless two
\* writers overlapped, one died, or two events carry one time.
ClearedAuditMatchesReceipts ==
  op = "audit" /\ Audit = "CLEARED" /\ ~blurred /\ Busy = {} =>
    \A r \in ToSet(rcpts) : LastReceipt(r.obl).verdict = "CLEARED"

\* An audit whose own verdict was not CLEARED never clears again by the work of
\* others alone: its receipt is an unresolved obligation to the next audit, until
\* a CLEARED receipt is stored under the same obligation by someone else.
AuditJudgesItself ==
  op = "audit" /\ Audit = "CLEARED" /\ ~blurred =>
    \A i \in DOMAIN rcpts : rcpts[i].module = "gauntlet" /\ rcpts[i].verdict # "CLEARED" =>
      \/ \E j \in (i + 1)..Len(rcpts) : rcpts[j].obl = rcpts[i].obl /\ rcpts[j].module # "gauntlet"
      \/ Busy # {}

\* Events of these types, in number.
Count(t) == Cardinality(Typed(t))
Remedy == [
  frame |-> {"action.failed"}, redirect |-> {"action.attempted"}, audit |-> {"obligation.state"},
  derive |-> {}, self |-> {}, boundary |-> {"contract.bound"}, oob |-> {},
  costume |-> {"receipt.written"}, explain |-> {"artifact.claim"}, refresh |-> {}]

\* A monitor takes an ISSUE back only on the evidence that answers it, in
\* whatever order late events are read: a contract for the handoff, a derivation
\* of Mind, a new attempt. An authority change or a self-verification stays.
IssueNeedsRemedy ==
  [][ Monitor = "ISSUE" /\ Monitor' = "CLEARED" =>
        \/ \E t \in Remedy[op] : Count(t)' > Count(t)
        \/ op = "derive" /\ Len(rcpts') > Len(rcpts) /\ Last(rcpts').module = "mind" ]_tvars
=============================================================================
