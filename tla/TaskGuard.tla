----------------------------- MODULE TaskGuard -----------------------------
(***************************************************************************)
(* The budget ledger of tools/foil_task_guard.py: one state file, one      *)
(* kernel lock beside it, and the processes that run guarded_operation(),  *)
(* close() or a journal append on it, at the grain at which they can       *)
(* interleave or crash: acquire, load-and-mutate a private copy, write the *)
(* temporary file, rename it over the state file, release.                 *)
(*                                                                         *)
(* The run has been opened (start_state, _atomic_save) before these        *)
(* processes begin; TaskGuardRestart adds a `start` over a live run.       *)
(*                                                                         *)
(* The SHA-256 chain is abstracted to its purpose: the digest of an event  *)
(* names the run it belongs to and its position in the chain.              *)
(***************************************************************************)
EXTENDS Integers, Sequences, FiniteSets

CONSTANTS
  Workers,      \* processes or threads that use the ledger
  NoWorker,     \* the lock's value when no process holds it
  Ops,          \* operations callers ask for
  BudgetedOps,  \* those the run has a budget for
  Budgets,      \* limit of each budgeted operation
  NoOp,         \* operation of an event that carries none
  MaxCalls      \* bound: calls one worker makes

ASSUME ConstantsAssumption ==
  /\ NoWorker \notin Workers
  /\ BudgetedOps \subseteq Ops
  /\ NoOp \notin Ops
  /\ Budgets \in [BudgetedOps -> Nat]
  /\ MaxCalls \in Nat

VARIABLES
  file,       \* the state file's content
  temp,       \* the content of the file named <state>.tmp, or NoLedger
  lock,       \* holder of the flock on <state>.lock
  phase,      \* phase[w]: the critical section or caller block w is in
  step,       \* step[w]: where in that phase
  req,        \* req[w]: the arguments of w's current call
  buf,        \* buf[w]: the private copy of the ledger w loaded and mutated
  resv,       \* resv[w]: digest of w's reservation
  raised,     \* raised[w]: the caller's block raised
  result,     \* result[w]: how w's last call ended
  calls,      \* calls[w]: calls w has begun
  performed   \* history: reservations whose operation really ran

workerVars == <<phase, step, req, buf, resv, raised, result, calls>>
vars == <<file, temp, lock, workerVars, performed>>

-----------------------------------------------------------------------------
(* The ledger *)

Digests == Nat \X Nat           \* <<run, position>>
Genesis == <<0, 0>>

Outcomes == {"SPENT", "RELEASED"}
Kinds == {"OPEN", "RESERVED", "CLOSE", "BLOCKED_BUDGET", "BROKER"} \cup Outcomes
Events == [kind : Kinds, op : Ops \cup {NoOp}, res : Digests]

Ledgers ==
  [run : Nat, status : {"OPEN", "CLOSED"}, used : [BudgetedOps -> Nat],
   events : Seq(Events), event_count : Nat, head : Digests]

NoLedger == [run |-> 0]         \* no file, or a buffer nobody has loaded
Torn     == [run |-> 1]         \* a temporary file whose writer died

Event(kind, op, res) == [kind |-> kind, op |-> op, res |-> res]

Appended_Capped(s, e) ==
  [s EXCEPT !.events = Append(IF Len(s.events) > 1 THEN Tail(s.events) ELSE s.events, e),
            !.event_count = Len(s.events) + 1,
            !.head = <<s.run, Len(s.events) + 1>>]

\* _append_event: extend the chain and re-anchor the tip.
Appended(s, e) ==
  [s EXCEPT !.events = Append(s.events, e),
            !.event_count = Len(s.events) + 1,
            !.head = <<s.run, Len(s.events) + 1>>]

\* start_state: counters at zero and an OPEN event.
StartState(run) ==
  Appended([run |-> run, status |-> "OPEN", used |-> [o \in BudgetedOps |-> 0],
            events |-> <<>>, event_count |-> 0, head |-> Genesis],
           Event("OPEN", NoOp, Genesis))

\* The digest the next event of s will have, by which a reservation is known.
TipDigest(s) == <<s.run, Len(s.events)>>
NextDigest(s) == <<s.run, Len(s.events) + 1>>

Max0(n) == IF n > 0 THEN n ELSE 0

\* A unit of o is left; giving one back.
HasUnit_OffByOne(s, o) == s.used[o] <= Budgets[o]
HasUnit(s, o) == s.used[o] < Budgets[o]
GiveBack_Forgotten(s, o) == s
GiveBack(s, o) == [s EXCEPT !.used[o] = Max0(s.used[o] - 1)]

-----------------------------------------------------------------------------
(* Initial state *)

\* What a caller passes: the operation, whether its task, condition and prompt
\* digest are those of the run, and spend_on_error.
Requests == [op : Ops, bound : BOOLEAN, spend : BOOLEAN]
NoRequest == [op |-> NoOp, bound |-> FALSE, spend |-> FALSE]

Init ==
  /\ file = StartState(1)
  /\ temp = NoLedger
  /\ lock = NoWorker
  /\ phase  = [w \in Workers |-> "none"]
  /\ step   = [w \in Workers |-> "idle"]
  /\ req    = [w \in Workers |-> NoRequest]
  /\ buf    = [w \in Workers |-> NoLedger]
  /\ resv   = [w \in Workers |-> Genesis]
  /\ raised = [w \in Workers |-> FALSE]
  /\ result = [w \in Workers |-> "none"]
  /\ calls  = [w \in Workers |-> 0]
  /\ performed = {}

-----------------------------------------------------------------------------
(* Entering a call, and the lock *)

At(w, p, s) == phase[w] = p /\ step[w] = s

Begin(w, p, r) ==
  /\ step[w] = "idle"
  /\ calls[w] < MaxCalls
  /\ phase'  = [phase EXCEPT ![w] = p]
  /\ step'   = [step EXCEPT ![w] = "acquire"]
  /\ req'    = [req EXCEPT ![w] = r]
  /\ resv'   = [resv EXCEPT ![w] = Genesis]
  /\ raised' = [raised EXCEPT ![w] = FALSE]
  /\ result' = [result EXCEPT ![w] = "none"]
  /\ calls'  = [calls EXCEPT ![w] = @ + 1]
  /\ UNCHANGED <<file, temp, lock, buf, performed>>

CallGuarded(w) == \E r \in Requests : Begin(w, "reserve", r)
CallClose(w)   == Begin(w, "close", NoRequest)
CallJournal(w) == Begin(w, "journal", NoRequest)

LockFree_Ignored == TRUE
LockFree == lock = NoWorker

\* flock(LOCK_EX | LOCK_NB) succeeds.
Acquire(w) ==
  /\ step[w] = "acquire"
  /\ LockFree
  /\ lock' = w
  /\ step' = [step EXCEPT ![w] = "load"]
  /\ UNCHANGED <<file, temp, phase, req, buf, resv, raised, result, calls, performed>>

\* The deadline passes while another process holds the lock. After a reservation
\* the hold stays: nobody else will commit it.
LockTimeout(w) ==
  /\ step[w] = "acquire"
  /\ lock # NoWorker
  /\ step'   = [step EXCEPT ![w] = "idle"]
  /\ result' = [result EXCEPT ![w] = "LockTimeout"]
  /\ UNCHANGED <<file, temp, lock, phase, req, buf, resv, raised, calls, performed>>

-----------------------------------------------------------------------------
(* Inside the lock: load the file, mutate the copy, or raise *)

Bound_AnyStatus(s, r) == r.bound
Bound(s, r) == s.status = "OPEN" /\ r.bound

Loaded(w, s) ==
  /\ buf'  = [buf EXCEPT ![w] = s]
  /\ step' = [step EXCEPT ![w] = "write"]
  /\ UNCHANGED <<file, temp, lock, phase, req, raised, result, calls, performed>>

Refuse(w, s, why) ==
  /\ buf'    = [buf EXCEPT ![w] = s]
  /\ step'   = [step EXCEPT ![w] = "unlock"]
  /\ result' = [result EXCEPT ![w] = why]
  /\ UNCHANGED <<file, temp, lock, phase, req, resv, raised, calls, performed>>

Reserve(w) ==
  LET o == req[w].op IN
  /\ At(w, "reserve", "load")
  /\ Bound(file, req[w])
  /\ o \in BudgetedOps
  /\ HasUnit(file, o)
  /\ Loaded(w, [Appended(file, Event("RESERVED", o, Genesis))
                  EXCEPT !.used[o] = file.used[o] + 1])
  /\ resv' = [resv EXCEPT ![w] = NextDigest(file)]

RefuseBinding(w) ==
  /\ At(w, "reserve", "load")
  /\ ~Bound(file, req[w]) \/ req[w].op \notin BudgetedOps
  /\ Refuse(w, file, "BindingMismatch")

\* BLOCKED_BUDGET goes into the copy, and the raise leaves before it is saved.
RefuseBudget(w) ==
  LET o == req[w].op IN
  /\ At(w, "reserve", "load")
  /\ Bound(file, req[w])
  /\ o \in BudgetedOps
  /\ ~HasUnit(file, o)
  /\ Refuse(w, Appended(file, Event("BLOCKED_BUDGET", o, Genesis)), "BudgetExhausted")

Outcome_Swapped(w) == IF raised[w] /\ ~req[w].spend THEN "SPENT" ELSE "RELEASED"
Outcome_SpendIgnored(w) == IF raised[w] THEN "RELEASED" ELSE "SPENT"
Outcome(w) == IF raised[w] /\ ~req[w].spend THEN "RELEASED" ELSE "SPENT"

\* _commit: it looks at neither the run's status nor the reservation's event.
Commit(w) ==
  LET o == req[w].op
      s == IF Outcome(w) = "RELEASED" THEN GiveBack(file, o) ELSE file
  IN  /\ At(w, "commit", "load")
      /\ Loaded(w, Appended(s, Event(Outcome(w), o, resv[w])))
      /\ UNCHANGED resv

CloseRun(w) ==
  /\ At(w, "close", "load")
  /\ file.status = "OPEN"
  /\ Loaded(w, Appended([file EXCEPT !.status = "CLOSED"], Event("CLOSE", NoOp, Genesis)))
  /\ UNCHANGED resv

RefuseClose(w) ==
  /\ At(w, "close", "load")
  /\ file.status # "OPEN"
  /\ Refuse(w, file, "BindingMismatch")

\* foil_tool_broker._record: a row that moves no counter.
Journal(w) ==
  /\ At(w, "journal", "load")
  /\ Loaded(w, Appended(file, Event("BROKER", NoOp, Genesis)))
  /\ UNCHANGED resv

-----------------------------------------------------------------------------
(* _atomic_save and release *)

WriteTemp(w) ==
  /\ step[w] = "write"
  /\ temp' = buf[w]
  /\ step' = [step EXCEPT ![w] = "replace"]
  /\ UNCHANGED <<file, lock, phase, req, buf, resv, raised, result, calls, performed>>

Replace(w) ==
  /\ step[w] = "replace"
  /\ temp # NoLedger
  /\ file' = temp
  /\ temp' = NoLedger
  /\ step' = [step EXCEPT ![w] = "unlock"]
  /\ UNCHANGED <<lock, phase, req, buf, resv, raised, result, calls, performed>>

Admitted_Always(w) == phase[w] = "reserve"
Admitted(w) == phase[w] = "reserve" /\ result[w] = "none"

\* Leaving the `with` block: a reservation that was saved lets the caller's
\* block run; everything else ends the call.
Unlock(w) ==
  /\ step[w] = "unlock"
  /\ lock' = NoWorker
  /\ buf'  = [buf EXCEPT ![w] = NoLedger]
  /\ IF Admitted(w)
       THEN /\ phase' = [phase EXCEPT ![w] = "body"]
            /\ step'  = [step EXCEPT ![w] = "run"]
            /\ UNCHANGED result
       ELSE /\ step'   = [step EXCEPT ![w] = "idle"]
            /\ result' = [result EXCEPT ![w] =
                            IF @ # "none" THEN @ ELSE IF raised[w] THEN "Error" ELSE "ok"]
            /\ UNCHANGED phase
  /\ UNCHANGED <<file, temp, req, resv, raised, calls, performed>>

-----------------------------------------------------------------------------
(* The caller's block, and crashes *)

Perform(w) ==
  /\ At(w, "body", "run")
  /\ resv[w] \notin performed
  /\ performed' = performed \cup {resv[w]}
  /\ UNCHANGED <<file, temp, lock, workerVars>>

LeaveBody(w) ==
  /\ At(w, "body", "run")
  /\ \E b \in BOOLEAN : raised' = [raised EXCEPT ![w] = b]
  /\ phase' = [phase EXCEPT ![w] = "commit"]
  /\ step'  = [step EXCEPT ![w] = "acquire"]
  /\ UNCHANGED <<file, temp, lock, req, buf, resv, result, calls, performed>>

LockAfterDeath_Kept(w) == lock
LockAfterDeath(w) == IF lock = w THEN NoWorker ELSE lock

\* The process dies; the kernel drops its lock, and a half-written temporary
\* file may stay behind.
Crash(w) ==
  /\ step[w] # "dead"
  /\ step' = [step EXCEPT ![w] = "dead"]
  /\ buf'  = [buf EXCEPT ![w] = NoLedger]
  /\ lock' = LockAfterDeath(w)
  /\ temp' \in IF step[w] = "write" THEN {temp, Torn} ELSE {temp}
  /\ UNCHANGED <<file, phase, req, resv, raised, result, calls, performed>>

-----------------------------------------------------------------------------
(* Specification *)

Mutate(w) ==
  \/ Reserve(w) \/ RefuseBinding(w) \/ RefuseBudget(w)
  \/ Commit(w)
  \/ CloseRun(w) \/ RefuseClose(w)
  \/ Journal(w)

Save(w) == WriteTemp(w) \/ Replace(w)

Work(w) ==
  \/ CallGuarded(w) \/ CallClose(w) \/ CallJournal(w)
  \/ Acquire(w) \/ LockTimeout(w)
  \/ Mutate(w) \/ Save(w) \/ Unlock(w)
  \/ Perform(w) \/ LeaveBody(w)

Next == \E w \in Workers : Work(w) \/ Crash(w)

Spec == Init /\ [][Next]_vars

\* The acquire loop ends: it retries every 10 ms until it gets the lock or the
\* deadline passes. What runs under the lock is straight-line code. Nothing is
\* assumed of the caller's block.
Fairness == \A w \in Workers :
  /\ WF_vars(Acquire(w) \/ LockTimeout(w))
  /\ WF_vars(Mutate(w) \/ Save(w) \/ Unlock(w))

FairSpec == Spec /\ Fairness

-----------------------------------------------------------------------------
(* Properties *)

Steps == {"idle", "acquire", "load", "write", "replace", "unlock", "run", "dead"}
Phases == {"none", "reserve", "body", "commit", "close", "journal"}
Results == {"none", "ok", "Error", "LockTimeout", "BindingMismatch", "BudgetExhausted"}

\* Every variable has its type: the state file always holds a whole ledger.
TypeOK ==
  /\ file \in Ledgers
  /\ temp \in Ledgers \cup {NoLedger, Torn}
  /\ lock \in Workers \cup {NoWorker}
  /\ phase  \in [Workers -> Phases]
  /\ step   \in [Workers -> Steps]
  /\ req    \in [Workers -> Requests \cup {NoRequest}]
  /\ buf    \in [Workers -> Ledgers \cup {NoLedger}]
  /\ resv   \in [Workers -> Digests]
  /\ raised \in [Workers -> BOOLEAN]
  /\ result \in [Workers -> Results]
  /\ calls  \in [Workers -> Nat]
  /\ performed \subseteq Digests

\* The reservations of operation o that ledger s records and has not refunded.
Refunded(s, n) ==
  \E m \in 1..Len(s.events) :
    s.events[m].kind = "RELEASED" /\ s.events[m].res = <<s.run, n>>
Held(s, o) ==
  {n \in 1..Len(s.events) :
     s.events[n].kind = "RESERVED" /\ s.events[n].op = o /\ ~Refunded(s, n)}

\* replay_used: the counter of o recomputed from the chain alone, with the same
\* floor at zero as _commit.
ReplayUsed(s, o) ==
  LET Delta(e) == IF e.op # o THEN 0
                  ELSE IF e.kind = "RESERVED" THEN 1
                  ELSE IF e.kind = "RELEASED" THEN -1 ELSE 0
      u[n \in 0..Len(s.events)] ==
        IF n = 0 THEN 0 ELSE Max0(u[n - 1] + Delta(s.events[n]))
  IN  u[Len(s.events)]

\* attest(): the tip the ledger records is the tip it has, and `used` is what the
\* chain replays to. (Its link check is what makes a digest name a position.)
Attests(s) ==
  /\ s.event_count = Len(s.events)
  /\ s.head = TipDigest(s)
  /\ \A o \in BudgetedOps : s.used[o] = ReplayUsed(s, o)

\* However processes interleave, time out and crash, the reservations of an
\* operation that the ledger holds never exceed its budget: N workers cannot all
\* take the last slot, and no slot is refunded twice.
BudgetNeverExceeded == \A o \in BudgetedOps : Cardinality(Held(file, o)) <= Budgets[o]

\* After every save, crash included, attest() accepts the file.
FileAttests == Attests(file)

\* A caller's block only runs, and an operation is only performed, while the
\* state file holds its reservation: the accounting cannot be separated from the
\* call. A reservation is refunded only by its own commit.
RunsUnderReservation ==
  \A w \in Workers :
    At(w, "body", "run") \/ At(w, "commit", "acquire") \/ At(w, "commit", "load") =>
      resv[w][1] = file.run /\ resv[w][2] \in Held(file, req[w].op)

\* A reservation is settled at most once, and never before it is made.
SettledOnce ==
  \A m, n \in 1..Len(file.events) :
    file.events[m].kind \in Outcomes =>
      /\ file.events[m].res \in {file.run} \X (1..(m - 1))
      /\ file.events[file.events[m].res[2]].kind = "RESERVED"
      /\ file.events[n].kind \in Outcomes /\ file.events[n].res = file.events[m].res
           => m = n

\* A closed run admits no further reservation, though it may still settle one.
NoReservationAfterClose ==
  \A m, n \in 1..Len(file.events) :
    m < n /\ file.events[m].kind = "CLOSE" => file.events[n].kind # "RESERVED"

\* No update is lost: each save extends the chain that was there by one event.
ChainGrowsByOne ==
  [][ /\ Len(file'.events) = Len(file.events) + 1
      /\ SubSeq(file'.events, 1, Len(file.events)) = file.events ]_file

\* Whoever holds the lock, dying included, the lock becomes free again.
LockIsFreed == (lock # NoWorker) ~> (lock = NoWorker)

\* Once the caller's block ends, its reservation is settled in the file, refunded
\* exactly if the block raised and was not to be spent on error, unless the worker
\* died or timed out waiting for the lock.
ReservationIsSettled ==
  \A w \in Workers :
    (phase[w] = "commit" /\ step[w] = "acquire") ~>
      \/ step[w] = "dead"
      \/ result[w] = "LockTimeout"
      \/ \E m \in 1..Len(file.events) :
           /\ file.events[m].kind = IF raised[w] /\ ~req[w].spend THEN "RELEASED" ELSE "SPENT"
           /\ file.events[m].res = resv[w]
=============================================================================
