----------------------------- MODULE GateProofs -----------------------------
(***************************************************************************)
(* Theorems about ReleaseGate, for any number of tasks, obligations and    *)
(* processes and an unbounded clock: receipts have one order, a release    *)
(* rests on current evidence, additions do not erase each other, and the   *)
(* active-task pointer does not stay on a released task.                   *)
(***************************************************************************)
EXTENDS ReleaseGate, TLAPS

\* Of the obligations in a task file no more is needed than what job may hold.
Obls == Obligations \cup {Nobody}
TaskFiles == [obls : SUBSET Obls] \cup [obls : SUBSET Obls, active : BOOLEAN, released : BOOLEAN]
Places == {"ready", "point", "lock", "append", "unlock", "seqlock", "seqwrite", "store", "judge",
           "release", "unpoint", "unlink", "done", "refused", "dead"}
Drafts == [by : Procs, obl : Obligations, task : Tasks, module : Modules, verdict : Verdicts,
           stored_at : Nat, seq : Nat, prior : SUBSET Procs]

\* p is storing a receipt; p has not stored one and may still.
Drafting(p) == pc[p] \in {"seqlock", "seqwrite", "store"}
Undone(p) == pc[p] = "ready" \/ Drafting(p)

Typed ==
  /\ tasks \in [Tasks -> TaskFiles]
  /\ receipts \subseteq Drafts
  /\ seq \in Nat /\ clock \in Nat
  /\ locks \in [LockNames -> Procs \cup {Nobody}]
  /\ pc \in [Procs -> Places]
  /\ job \in [Procs -> [task : Tasks, obl : Obls]]
  /\ view \in [Procs -> TaskFiles]
  /\ draft \in [Procs -> Drafts \cup {NoDraft}]
  /\ \A p \in Procs : Drafting(p) => draft[p] \in Drafts

\* A lock is held exactly from the step that takes it to the one that gives it up.
Holders ==
  \A p \in Procs, n \in LockNames :
    locks[n] = p <=> \/ n = "seq" /\ pc[p] = "seqwrite"
                     \/ n = job[p].task /\ pc[p] \in {"append", "unlock"}

\* Numbers drawn are within the counter, stamps taken within the clock.
Drawn ==
  /\ \A r \in receipts : r.seq <= seq /\ r.stored_at <= clock
  /\ \A p \in Procs : Drafting(p) => draft[p].by = p /\ draft[p].stored_at <= clock
  /\ \A p \in Procs : pc[p] = "seqwrite" => draft[p].seq = seq + 1
  /\ \A p \in Procs : pc[p] = "store" => draft[p].seq <= seq

\* No number is drawn twice.
Distinct ==
  /\ \A r, s \in receipts : r # s => r.seq # s.seq
  /\ \A p \in Procs, r \in receipts : pc[p] = "store" => draft[p].seq # r.seq
  /\ \A p, q \in Procs : pc[p] = "store" /\ pc[q] = "store" /\ p # q =>
       draft[p].seq # draft[q].seq

\* What was on disk when a receipt was stamped is there for good, and before it.
Earlier ==
  /\ \A r \in receipts : ~Undone(r.by)
  /\ \A r \in receipts : \A q \in r.prior : ~Undone(q)
  /\ \A p \in Procs : Drafting(p) => \A q \in draft[p].prior : ~Undone(q)
  /\ \A p \in Procs, r \in receipts : Drafting(p) /\ r.by \in draft[p].prior =>
       /\ r.stored_at <= draft[p].stored_at
       /\ pc[p] = "store" => r.seq < draft[p].seq

OrderInv == Typed /\ Holders /\ Drawn /\ Distinct /\ Earlier /\ ReceiptsAreOrdered

-----------------------------------------------------------------------------
(* The invariant holds initially                                           *)

LEMMA OrderInit == Init => OrderInv
  <1> SUFFICES ASSUME Init PROVE OrderInv
    OBVIOUS
  <1>1. NewTask \in TaskFiles /\ NoTask \in TaskFiles
    BY DEF NewTask, NoTask, TaskFiles
  <1>2. \A p \in Procs : pc[p] = "ready"
    BY DEF Init
  <1>3. Typed
    <2>1. /\ tasks \in [Tasks -> TaskFiles] /\ view \in [Procs -> TaskFiles]
          /\ pc \in [Procs -> Places] /\ draft \in [Procs -> Drafts \cup {NoDraft}]
      <3>1. tasks \in [Tasks -> TaskFiles]
        BY <1>1 DEF Init
      <3>2. view \in [Procs -> TaskFiles]
        BY <1>1 DEF Init
      <3>3. pc = [p \in Procs |-> "ready"] /\ draft = [p \in Procs |-> NoDraft]
        BY DEF Init
      <3>4. QED
        BY <3>1, <3>2, <3>3 DEF Places
    <2>2. locks \in [LockNames -> Procs \cup {Nobody}]
      BY DEF Init
    <2>3. job \in [Procs -> [task : Tasks, obl : Obls]]
      BY StoreAssumption DEF Init, Obls
    <2>4. receipts = {} /\ seq = 0 /\ clock = 0
      BY DEF Init
    <2>5. \A p \in Procs : ~Drafting(p)
      BY <1>2 DEF Drafting
    <2>6. QED
      BY <2>1, <2>2, <2>3, <2>4, <2>5 DEF Typed
  <1>4. Holders
    <2>1. \A n \in LockNames : locks[n] = Nobody
      BY DEF Init
    <2>2. QED
      BY <1>2, <2>1, StoreAssumption DEF Holders
  <1>5. Drawn /\ Distinct /\ Earlier /\ ReceiptsAreOrdered
    BY <1>2 DEF Init, Drawn, Distinct, Earlier, ReceiptsAreOrdered, Drafting
  <1>6. QED
    BY <1>3, <1>4, <1>5 DEF OrderInv

-----------------------------------------------------------------------------
(* Types                                                                   *)

\* A step of p moves p alone.
LEMMA Moved ==
  ASSUME Typed, NEW p \in Procs, NEW from, NEW to \in Places, Goto(p, from, to)
  PROVE  /\ pc' \in [Procs -> Places]
         /\ pc[p] = from /\ pc'[p] = to
         /\ \A q \in Procs \ {p} : pc'[q] = pc[q]
  BY DEF Typed, Goto

\* A step to a place where no receipt is being stored.
LEMMA Elsewhere ==
  ASSUME Typed, NEW p \in Procs,
         NEW to \in Places \ {"seqlock", "seqwrite", "store"}, pc' = [pc EXCEPT ![p] = to]
  PROVE  /\ pc' \in [Procs -> Places]
         /\ \A q \in Procs : Drafting(q)' => Drafting(q)
  BY DEF Typed, Drafting

LEMMA TypedTask ==
  ASSUME Typed, NEW p \in Procs,
         \/ StartWrite(p) \/ StartPoint(p) \/ AddBegin(p) \/ AddRead(p) \/ AddWrite(p)
         \/ AddReturn(p)
  PROVE  Typed'
  <1>1. pc' \in [Procs -> Places] /\ \A q \in Procs : Drafting(q)' => Drafting(q)
    <2>1. PICK to \in {"point", "done", "lock", "append", "unlock"} : pc' = [pc EXCEPT ![p] = to]
      BY DEF StartWrite, StartPoint, AddBegin, AddRead, AddWrite, AddReturn, Goto
    <2>2. to \in Places \ {"seqlock", "seqwrite", "store"}
      BY <2>1 DEF Places
    <2>3. QED
      BY <2>1, <2>2, Elsewhere
  <1>2. UNCHANGED <<receipts, seq, clock, draft>>
    BY DEF StartWrite, StartPoint, AddBegin, AddRead, AddWrite, AddReturn, store, local
  <1>3. NewTask \in TaskFiles /\ NoTask \in TaskFiles
    BY DEF NewTask, NoTask, TaskFiles
  <1>4. /\ job[p] \in [task : Tasks, obl : Obls]
        /\ job[p].task \in Tasks /\ job[p].task \in LockNames
    BY DEF Typed, LockNames
  <1>5. job' \in [Procs -> [task : Tasks, obl : Obls]]
    <2>1. CASE StartWrite(p)
      BY <2>1 DEF StartWrite, Typed
    <2>2. CASE AddBegin(p)
      BY <2>2 DEF AddBegin, Typed, Obls
    <2>3. CASE job' = job
      BY <2>3 DEF Typed
    <2>4. QED
      BY <2>1, <2>2, <2>3 DEF StartPoint, AddRead, AddWrite, AddReturn, local
  <1>6. tasks' \in [Tasks -> TaskFiles]
    <2>1. CASE StartWrite(p)
      BY <1>3, <2>1 DEF StartWrite, Typed
    <2>2. CASE AddWrite(p)
      <3>1. [view[p] EXCEPT !.obls = @ \cup {job[p].obl}] \in TaskFiles
        <4>1. view[p] \in TaskFiles /\ job[p].obl \in Obls
          BY <1>4 DEF Typed
        <4>2. QED
          BY <4>1 DEF TaskFiles
      <3>2. QED
        BY <1>4, <2>2, <3>1 DEF AddWrite, Typed
    <2>3. CASE tasks' = tasks
      BY <2>3 DEF Typed
    <2>4. QED
      BY <2>1, <2>2, <2>3 DEF StartPoint, AddBegin, AddRead, AddReturn, store
  <1>7. view' \in [Procs -> TaskFiles]
    <2>1. CASE AddRead(p)
      BY <1>4, <2>1 DEF AddRead, Typed
    <2>2. CASE AddWrite(p)
      BY <1>3, <2>2 DEF AddWrite, Typed
    <2>3. CASE view' = view
      BY <2>3 DEF Typed
    <2>4. QED
      BY <2>1, <2>2, <2>3 DEF StartWrite, StartPoint, AddBegin, AddReturn, local
  <1>8. locks' \in [LockNames -> Procs \cup {Nobody}]
    <2>1. CASE AddRead(p)
      BY <1>4, <2>1 DEF AddRead, Typed
    <2>2. CASE AddReturn(p)
      BY <1>4, <2>2 DEF AddReturn, Typed
    <2>3. CASE locks' = locks
      BY <2>3 DEF Typed
    <2>4. QED
      BY <2>1, <2>2, <2>3 DEF StartWrite, StartPoint, AddBegin, AddWrite, store
  <1>9. QED
    BY <1>1, <1>2, <1>5, <1>6, <1>7, <1>8 DEF Typed

LEMMA TypedWrite ==
  ASSUME Typed, NEW p \in Procs,
         Stamp(p) \/ SeqRead(p) \/ SeqWrite(p) \/ StoreReceipt(p)
  PROVE  Typed'
  <1>1. PICK to \in {"seqlock", "seqwrite", "store", "done"} : pc' = [pc EXCEPT ![p] = to]
    BY DEF Stamp, SeqRead, SeqWrite, StoreReceipt, Goto
  <1>2. pc' \in [Procs -> Places] /\ \A q \in Procs \ {p} : pc'[q] = pc[q]
    BY <1>1 DEF Typed, Places
  <1>3. UNCHANGED <<tasks, clock, job, view>>
    BY DEF Stamp, SeqRead, SeqWrite, StoreReceipt, store, local
  <1>4. ~Stamp(p) => Drafting(p) /\ draft[p] \in Drafts
    BY DEF Typed, SeqRead, SeqWrite, StoreReceipt, Goto, Drafting
  <1>5. CASE Stamp(p)
    <2>1. PICK c \in Claims :
            draft' = [draft EXCEPT ![p] =
              [by |-> p, obl |-> c.obl, task |-> c.task, module |-> c.module,
               verdict |-> c.verdict, stored_at |-> clock, seq |-> 0,
               prior |-> {r.by : r \in receipts}]]
      BY <1>5 DEF Stamp
    <2>2. c \in [task : Tasks, obl : Obligations, module : Modules, verdict : Verdicts]
      BY StoreAssumption
    <2>3. {r.by : r \in receipts} \in SUBSET Procs
      BY DEF Typed, Drafts
    <2>4. draft'[p] \in Drafts
      BY <2>1, <2>2, <2>3 DEF Typed, Drafts
    <2>5. UNCHANGED <<receipts, seq, locks>>
      BY <1>5 DEF Stamp, store
    <2>6. draft' \in [Procs -> Drafts \cup {NoDraft}] /\ \A q \in Procs \ {p} : draft'[q] = draft[q]
      BY <2>1, <2>4 DEF Typed
    <2>7. QED
      BY <1>2, <1>3, <2>4, <2>5, <2>6 DEF Typed, Drafting
  <1>6. CASE SeqRead(p)
    <2>1. /\ draft' = [draft EXCEPT ![p].seq = seq + 1]
          /\ locks' = [locks EXCEPT !["seq"] = p]
          /\ UNCHANGED <<receipts, seq>>
      BY <1>6 DEF SeqRead
    <2>2. seq + 1 \in Nat /\ draft[p] \in Drafts
      BY <1>4, <1>6 DEF Typed, SeqRead, Stamp, Goto
    <2>3. [draft[p] EXCEPT !.seq = seq + 1] \in Drafts
      BY <2>2 DEF Drafts
    <2>4. draft' \in [Procs -> Drafts \cup {NoDraft}] /\ draft'[p] \in Drafts
          /\ \A q \in Procs \ {p} : draft'[q] = draft[q]
      BY <2>1, <2>3 DEF Typed
    <2>5. locks' \in [LockNames -> Procs \cup {Nobody}]
      BY <2>1 DEF Typed
    <2>6. QED
      BY <1>2, <1>3, <2>1, <2>4, <2>5 DEF Typed, Drafting
  <1>7. CASE SeqWrite(p)
    <2>1. /\ seq' = draft[p].seq
          /\ locks' = [locks EXCEPT !["seq"] = Nobody]
          /\ UNCHANGED <<receipts, draft>>
      BY <1>7 DEF SeqWrite, local
    <2>2. draft[p] \in Drafts /\ pc[p] = "seqwrite"
      BY <1>4, <1>7 DEF SeqWrite, Stamp, Goto
    <2>3. seq' \in Nat
      BY <2>1, <2>2 DEF Drafts
    <2>4. locks' \in [LockNames -> Procs \cup {Nobody}]
      BY <2>1 DEF Typed
    <2>5. \A q \in Procs : Drafting(q)' => draft[q] \in Drafts
      BY <1>2, <2>2 DEF Typed, Drafting
    <2>6. QED
      BY <1>2, <1>3, <2>1, <2>3, <2>4, <2>5 DEF Typed
  <1>8. CASE StoreReceipt(p)
    <2>1. /\ receipts' = receipts \cup {draft[p]}
          /\ draft' = [draft EXCEPT ![p] = NoDraft]
          /\ UNCHANGED <<seq, locks>>
          /\ pc'[p] = "done"
      BY <1>8 DEF StoreReceipt, Goto, Typed
    <2>2. draft[p] \in Drafts
      BY <1>4, <1>8 DEF StoreReceipt, Stamp, Goto
    <2>3. receipts' \subseteq Drafts
      BY <2>1, <2>2 DEF Typed
    <2>4. draft' \in [Procs -> Drafts \cup {NoDraft}] /\ \A q \in Procs \ {p} : draft'[q] = draft[q]
      BY <2>1 DEF Typed
    <2>5. QED
      BY <1>2, <1>3, <2>1, <2>3, <2>4 DEF Typed, Drafting
  <1>9. QED
    BY <1>5, <1>6, <1>7, <1>8

LEMMA TypedRelease ==
  ASSUME Typed, NEW p \in Procs, Release(p)
  PROVE  Typed'
  <1>1. UNCHANGED <<receipts, seq, clock, locks, draft>>
    BY DEF Release, GateRead, Judge, Refuse, ReleaseRead, ReleaseWrite, CheckPointer, Unlink,
           store, local
  <1>2. \/ pc' = pc
        \/ \E to \in {"judge", "refused", "release", "unpoint", "unlink", "done"} :
             pc' = [pc EXCEPT ![p] = to]
    BY DEF Release, GateRead, Judge, Refuse, ReleaseRead, ReleaseWrite, CheckPointer, Unlink, Goto
  <1>3. pc' \in [Procs -> Places] /\ \A q \in Procs : Drafting(q)' => Drafting(q)
    BY <1>2 DEF Typed, Places, Drafting
  <1>4. job' \in [Procs -> [task : Tasks, obl : Obls]]
    <2>1. CASE GateRead(p)
      BY <2>1 DEF GateRead, Typed
    <2>2. CASE job' = job
      BY <2>2 DEF Typed
    <2>3. QED
      BY <2>1, <2>2 DEF Release, Judge, Refuse, ReleaseRead, ReleaseWrite, CheckPointer, Unlink, local
  <1>5. view' \in [Procs -> TaskFiles]
    <2>1. CASE ReleaseRead(p)
      BY <2>1 DEF ReleaseRead, Typed
    <2>2. CASE ReleaseWrite(p)
      BY <2>2 DEF ReleaseWrite, Typed, NoTask, TaskFiles
    <2>3. CASE view' = view
      BY <2>3 DEF Typed
    <2>4. QED
      BY <2>1, <2>2, <2>3 DEF Release, GateRead, Judge, Refuse, CheckPointer, Unlink, local
  <1>6. tasks' \in [Tasks -> TaskFiles]
    <2>1. CASE ReleaseWrite(p)
      <3>1. [view[p] EXCEPT !.active = FALSE, !.released = TRUE] \in TaskFiles
        <4>1. view[p] \in TaskFiles
          BY DEF Typed
        <4>2. CASE view[p] \in [obls : SUBSET Obls]
          BY <4>2 DEF TaskFiles
        <4>3. CASE view[p] \in [obls : SUBSET Obls, active : BOOLEAN, released : BOOLEAN]
          BY <4>3 DEF TaskFiles
        <4>4. QED
          BY <4>1, <4>2, <4>3 DEF TaskFiles
      <3>2. QED
        BY <2>1, <3>1 DEF ReleaseWrite, Typed
    <2>2. CASE tasks' = tasks
      BY <2>2 DEF Typed
    <2>3. QED
      BY <2>1, <2>2 DEF Release, GateRead, Judge, Refuse, ReleaseRead, CheckPointer, Unlink, store
  <1>7. QED
    BY <1>1, <1>3, <1>4, <1>5, <1>6 DEF Typed

LEMMA TypedRest ==
  ASSUME Typed, Tick \/ \E p \in Procs : Crash(p)
  PROVE  Typed'
  <1>1. CASE Tick
    BY <1>1 DEF Tick, store, local, Typed, Drafting
  <1>2. ASSUME NEW p \in Procs, Crash(p) PROVE Typed'
    <2>1. pc' \in [Procs -> Places] /\ \A q \in Procs : Drafting(q)' => Drafting(q)
      BY <1>2 DEF Crash, Typed, Places, Drafting
    <2>2. locks' \in [LockNames -> Procs \cup {Nobody}]
      BY <1>2 DEF Crash, Typed
    <2>3. QED
      BY <1>2, <2>1, <2>2 DEF Crash, local, Typed
  <1>3. QED
    BY <1>1, <1>2

LEMMA TypedStep == Typed /\ [Next]_vars => Typed'
  <1> SUFFICES ASSUME Typed, [Next]_vars PROVE Typed'
    OBVIOUS
  <1>1. CASE UNCHANGED vars
    BY <1>1 DEF vars, store, local, Typed, Drafting
  <1>2. ASSUME NEW p \in Procs, Start(p) \/ Add(p) PROVE Typed'
    BY <1>2, TypedTask DEF Start, Add
  <1>3. ASSUME NEW p \in Procs, Write(p) PROVE Typed'
    BY <1>3, TypedWrite DEF Write
  <1>4. QED
    BY <1>1, <1>2, <1>3, TypedRelease, TypedRest DEF Next, Procs

-----------------------------------------------------------------------------
(* Locks                                                                   *)

InLock == {"seqwrite", "append", "unlock"}

\* A step that begins and ends outside every lock.
LEMMA Passes ==
  ASSUME Typed, Holders, NEW p \in Procs, NEW to,
         to \notin InLock, pc[p] \notin InLock,
         pc' = [pc EXCEPT ![p] = to], locks' = locks,
         \A q \in Procs \ {p} : job'[q] = job[q]
  PROVE  Holders'
  BY DEF Typed, Holders, InLock

\* One that takes the free lock n.
LEMMA Takes ==
  ASSUME Typed, Holders, NEW p \in Procs, NEW to, NEW n \in LockNames,
         locks[n] = Nobody, pc[p] \notin InLock,
         locks' = [locks EXCEPT ![n] = p], job' = job, pc' = [pc EXCEPT ![p] = to],
         \/ n = "seq" /\ to = "seqwrite"
         \/ n = job[p].task /\ n # "seq" /\ to = "append"
  PROVE  Holders'
  BY StoreAssumption DEF Typed, Holders, InLock

\* One that gives up the lock n it holds.
LEMMA Gives ==
  ASSUME Typed, Holders, NEW p \in Procs, NEW to, NEW n \in LockNames,
         to \notin InLock,
         locks' = [locks EXCEPT ![n] = Nobody], job' = job, pc' = [pc EXCEPT ![p] = to],
         \/ n = "seq" /\ pc[p] = "seqwrite"
         \/ n = job[p].task /\ n # "seq" /\ pc[p] = "unlock"
  PROVE  Holders'
  <1>1. locks[n] = p
    BY DEF Holders
  <1>2. \A m \in LockNames : locks[m] = p => m = n
    BY DEF Holders
  <1>3. \A q \in Procs \ {p}, m \in LockNames : locks'[m] = q <=> locks[m] = q
    BY <1>1, StoreAssumption DEF Typed
  <1>4. \A m \in LockNames : locks'[m] # p
    BY <1>2, StoreAssumption DEF Typed
  <1>5. \A q \in Procs \ {p} : pc'[q] = pc[q]
    BY DEF Typed
  <1>6. pc'[p] \notin InLock
    BY DEF Typed
  <1>7. QED
    BY <1>3, <1>4, <1>5, <1>6 DEF Holders, InLock

LEMMA HoldersAdd ==
  ASSUME Typed, Holders, NEW p \in Procs,
         \/ StartWrite(p) \/ StartPoint(p) \/ AddBegin(p) \/ AddRead(p) \/ AddWrite(p)
         \/ AddReturn(p)
  PROVE  Holders'
  <1>1. job[p].task \in LockNames /\ job[p].task # "seq"
    BY StoreAssumption DEF Typed, LockNames
  <1>2. CASE StartWrite(p)
    BY <1>2, Passes DEF StartWrite, Goto, InLock, Typed
  <1>3. CASE StartPoint(p)
    BY <1>3, Passes DEF StartPoint, Goto, InLock, local
  <1>4. CASE AddBegin(p)
    BY <1>4, Passes DEF AddBegin, Goto, InLock, Typed, store
  <1>5. CASE AddRead(p)
    BY <1>1, <1>5, Takes DEF AddRead, TaskFree, Goto, InLock
  <1>6. CASE AddWrite(p)
    BY <1>6 DEF AddWrite, Goto, Typed, Holders
  <1>7. CASE AddReturn(p)
    BY <1>1, <1>7, Gives DEF AddReturn, Goto, InLock, local
  <1>8. QED
    BY <1>2, <1>3, <1>4, <1>5, <1>6, <1>7

LEMMA HoldersWrite ==
  ASSUME Typed, Holders, NEW p \in Procs,
         Stamp(p) \/ SeqRead(p) \/ SeqWrite(p) \/ StoreReceipt(p)
  PROVE  Holders'
  <1>1. "seq" \in LockNames
    BY DEF LockNames
  <1>2. CASE Stamp(p)
    BY <1>2, Passes DEF Stamp, Goto, InLock, store
  <1>3. CASE SeqRead(p)
    BY <1>1, <1>3, Takes DEF SeqRead, SeqFree, Goto, InLock
  <1>4. CASE SeqWrite(p)
    BY <1>1, <1>4, Gives DEF SeqWrite, Goto, InLock, local
  <1>5. CASE StoreReceipt(p)
    BY <1>5, Passes DEF StoreReceipt, Goto, InLock
  <1>6. QED
    BY <1>2, <1>3, <1>4, <1>5

LEMMA HoldersRelease ==
  ASSUME Typed, Holders, NEW p \in Procs, Release(p)
  PROVE  Holders'
  <1>1. locks' = locks /\ \A q \in Procs \ {p} : job'[q] = job[q]
    BY DEF Release, GateRead, Judge, Refuse, ReleaseRead, ReleaseWrite, CheckPointer, Unlink,
           store, local, Typed
  <1>2. CASE Judge(p)
    BY <1>2 DEF Judge, store, Holders
  <1>3. CASE ~Judge(p)
    <2>1. /\ pc[p] \in {"ready", "judge", "release", "unpoint", "unlink"}
          /\ \E to \in {"judge", "refused", "release", "unpoint", "unlink", "done"} :
               pc' = [pc EXCEPT ![p] = to]
      BY <1>3 DEF Release, GateRead, Refuse, ReleaseRead, ReleaseWrite, CheckPointer, Unlink, Goto
    <2>2. QED
      BY <1>1, <2>1, Passes DEF InLock
  <1>4. QED
    BY <1>2, <1>3

LEMMA HoldersStep == Typed /\ Holders /\ [Next]_vars => Holders'
  <1> SUFFICES ASSUME Typed, Holders, [Next]_vars PROVE Holders'
    OBVIOUS
  <1>1. CASE UNCHANGED vars \/ Tick
    BY <1>1 DEF vars, store, local, Tick, Holders
  <1>2. ASSUME NEW p \in Procs, Start(p) \/ Add(p) PROVE Holders'
    BY <1>2, HoldersAdd DEF Start, Add
  <1>3. ASSUME NEW p \in Procs, Write(p) PROVE Holders'
    BY <1>3, HoldersWrite DEF Write
  <1>4. ASSUME NEW p \in Procs, Crash(p) PROVE Holders'
    <2>1. /\ pc' = [pc EXCEPT ![p] = "dead"] /\ job' = job
          /\ locks' = [n \in LockNames |-> IF locks[n] = p THEN Nobody ELSE locks[n]]
      BY <1>4 DEF Crash, local
    <2>2. \A n \in LockNames : locks'[n] # p
      BY <2>1, StoreAssumption
    <2>3. \A q \in Procs \ {p}, n \in LockNames : locks'[n] = q <=> locks[n] = q
      BY <2>1, StoreAssumption
    <2>4. pc'[p] = "dead" /\ \A q \in Procs \ {p} : pc'[q] = pc[q]
      BY <2>1 DEF Typed
    <2>5. QED
      BY <2>1, <2>2, <2>3, <2>4 DEF Holders
  <1>5. QED
    BY <1>1, <1>2, <1>3, <1>4, HoldersRelease DEF Next, Procs

-----------------------------------------------------------------------------
(* Order                                                                   *)

Order == Drawn /\ Distinct /\ Earlier /\ ReceiptsAreOrdered

\* A step that is no part of write_receipt.
LEMMA OrderStill ==
  ASSUME Typed, Typed', Order,
         UNCHANGED <<receipts, seq, draft>>, clock' >= clock,
         \A q \in Procs : /\ pc'[q] \in {"ready", "seqlock", "seqwrite", "store"} => pc'[q] = pc[q]
  PROVE  Order'
  <1>1. \A q \in Procs : (Drafting(q)' => Drafting(q)) /\ (~Undone(q) => ~Undone(q)')
    BY DEF Drafting, Undone
  <1>2. \A q \in Procs : /\ pc'[q] = "seqwrite" => pc[q] = "seqwrite"
                         /\ pc'[q] = "store" => pc[q] = "store"
    OBVIOUS
  <1>3. /\ \A r \in receipts : r.stored_at \in Nat /\ r.by \in Procs /\ r.prior \subseteq Procs
        /\ \A q \in Procs : Drafting(q) => draft[q].stored_at \in Nat /\ draft[q].prior \subseteq Procs
        /\ clock \in Nat /\ clock' \in Nat
    BY DEF Typed, Drafts
  <1>4. Drawn'
    BY <1>1, <1>2, <1>3 DEF Order, Drawn
  <1>5. Distinct'
    BY <1>2 DEF Order, Distinct
  <1>6. Earlier'
    BY <1>1, <1>2, <1>3 DEF Order, Earlier
  <1>7. ReceiptsAreOrdered'
    BY DEF Order, ReceiptsAreOrdered, Before
  <1>8. QED
    BY <1>4, <1>5, <1>6, <1>7 DEF Order

\* One that is: p is still undone before it, so no receipt follows its receipt.
LEMMA Spares ==
  ASSUME Typed, NEW p \in Procs, Undone(p), NEW to, pc' = [pc EXCEPT ![p] = to]
  PROVE  /\ pc'[p] = to
         /\ \A q \in Procs \ {p} : /\ pc'[q] = pc[q]
                                   /\ Drafting(q)' <=> Drafting(q)
         /\ \A q \in Procs : ~Undone(q) => q # p /\ ~Undone(q)'
  BY DEF Typed, Undone, Drafting

LEMMA OrderStamp ==
  ASSUME Typed, Order, NEW p \in Procs, Stamp(p)
  PROVE  Order'
  <1>1. pc[p] = "ready" /\ pc' = [pc EXCEPT ![p] = "seqlock"] /\ Undone(p)
    BY DEF Stamp, Goto, Undone
  <1>2. PICK c \in Claims :
          draft' = [draft EXCEPT ![p] =
            [by |-> p, obl |-> c.obl, task |-> c.task, module |-> c.module,
             verdict |-> c.verdict, stored_at |-> clock, seq |-> 0,
             prior |-> {r.by : r \in receipts}]]
    BY DEF Stamp
  <1>3. UNCHANGED <<receipts, seq, clock>>
    BY DEF Stamp, store
  <1>4. /\ draft'[p].by = p /\ draft'[p].stored_at = clock
        /\ draft'[p].prior = {r.by : r \in receipts}
        /\ \A q \in Procs \ {p} : draft'[q] = draft[q]
    BY <1>2 DEF Typed
  <1>5. /\ pc'[p] = "seqlock"
        /\ \A q \in Procs \ {p} : pc'[q] = pc[q] /\ (Drafting(q)' <=> Drafting(q))
        /\ \A q \in Procs : ~Undone(q) => q # p /\ ~Undone(q)'
    BY <1>1, Spares
  <1>6. /\ \A r \in receipts : r.by \in Procs /\ r.prior \subseteq Procs
        /\ clock \in Nat
        /\ \A q \in Procs : Drafting(q) => draft[q].prior \subseteq Procs
    BY DEF Typed, Drafts
  <1>7. Drawn'
    BY <1>3, <1>4, <1>5, <1>6 DEF Order, Drawn
  <1>8. Distinct'
    BY <1>3, <1>4, <1>5 DEF Order, Distinct
  <1>9. Earlier'
    <2>1. \A r \in receipts' : ~Undone(r.by)' /\ \A q \in r.prior : ~Undone(q)'
      BY <1>3, <1>5, <1>6 DEF Order, Earlier
    <2>2. \A q \in Procs : Drafting(q)' => \A u \in draft'[q].prior : ~Undone(u)'
      BY <1>4, <1>5, <1>6 DEF Order, Earlier
    <2>3. \A q \in Procs, r \in receipts' : Drafting(q)' /\ r.by \in draft'[q].prior =>
            /\ r.stored_at <= draft'[q].stored_at
            /\ pc'[q] = "store" => r.seq < draft'[q].seq
      BY <1>3, <1>4, <1>5 DEF Order, Earlier, Drawn
    <2>4. QED
      BY <2>1, <2>2, <2>3 DEF Earlier
  <1>10. ReceiptsAreOrdered'
    BY <1>3 DEF Order, ReceiptsAreOrdered, Before
  <1>11. QED
    BY <1>7, <1>8, <1>9, <1>10 DEF Order

LEMMA OrderSeqRead ==
  ASSUME Typed, Order, NEW p \in Procs, SeqRead(p)
  PROVE  Order'
  <1>1. pc[p] = "seqlock" /\ pc' = [pc EXCEPT ![p] = "seqwrite"] /\ Undone(p) /\ Drafting(p)
    BY DEF SeqRead, Goto, Undone, Drafting
  <1>2. UNCHANGED <<receipts, seq, clock>> /\ draft' = [draft EXCEPT ![p].seq = seq + 1]
    BY DEF SeqRead
  <1>3. draft[p] \in Drafts /\ seq + 1 \in Nat
    BY <1>1 DEF Typed
  <1>4. /\ draft'[p].by = draft[p].by /\ draft'[p].stored_at = draft[p].stored_at
        /\ draft'[p].prior = draft[p].prior /\ draft'[p].seq = seq + 1
        /\ \A q \in Procs \ {p} : draft'[q] = draft[q]
    BY <1>2, <1>3 DEF Typed, Drafts
  <1>5. /\ pc'[p] = "seqwrite"
        /\ \A q \in Procs \ {p} : pc'[q] = pc[q] /\ (Drafting(q)' <=> Drafting(q))
        /\ \A q \in Procs : ~Undone(q) => q # p /\ ~Undone(q)'
    BY <1>1, Spares
  <1>6. /\ \A r \in receipts : r.by \in Procs /\ r.prior \subseteq Procs
        /\ \A q \in Procs : Drafting(q) => draft[q].prior \subseteq Procs
    BY DEF Typed, Drafts
  <1>7. Drawn'
    BY <1>1, <1>2, <1>4, <1>5 DEF Order, Drawn
  <1>8. Distinct'
    BY <1>2, <1>4, <1>5 DEF Order, Distinct
  <1>9. Earlier'
    <2>1. \A r \in receipts' : ~Undone(r.by)' /\ \A q \in r.prior : ~Undone(q)'
      BY <1>2, <1>5, <1>6 DEF Order, Earlier
    <2>2. \A q \in Procs : Drafting(q)' => \A u \in draft'[q].prior : ~Undone(u)'
      BY <1>1, <1>4, <1>5, <1>6 DEF Order, Earlier
    <2>3. \A q \in Procs, r \in receipts' : Drafting(q)' /\ r.by \in draft'[q].prior =>
            /\ r.stored_at <= draft'[q].stored_at
            /\ pc'[q] = "store" => r.seq < draft'[q].seq
      BY <1>1, <1>2, <1>4, <1>5 DEF Order, Earlier
    <2>4. QED
      BY <2>1, <2>2, <2>3 DEF Earlier
  <1>10. ReceiptsAreOrdered'
    BY <1>2 DEF Order, ReceiptsAreOrdered, Before
  <1>11. QED
    BY <1>7, <1>8, <1>9, <1>10 DEF Order

LEMMA OrderSeqWrite ==
  ASSUME Typed, Holders, Order, NEW p \in Procs, SeqWrite(p)
  PROVE  Order'
  <1>1. pc[p] = "seqwrite" /\ pc' = [pc EXCEPT ![p] = "store"] /\ Undone(p) /\ Drafting(p)
    BY DEF SeqWrite, Goto, Undone, Drafting
  <1>2. UNCHANGED <<receipts, clock, draft>> /\ seq' = draft[p].seq
    BY DEF SeqWrite, local
  <1>3. seq' = seq + 1 /\ seq \in Nat
    BY <1>1, <1>2 DEF Order, Drawn, Typed
  <1>4. \A q \in Procs : pc[q] = "seqwrite" => q = p
    BY <1>1 DEF Holders, LockNames
  <1>5. /\ pc'[p] = "store"
        /\ \A q \in Procs \ {p} : pc'[q] = pc[q] /\ (Drafting(q)' <=> Drafting(q))
        /\ \A q \in Procs : ~Undone(q) => q # p /\ ~Undone(q)'
    BY <1>1, Spares
  <1>6. /\ \A r \in receipts : r.by \in Procs /\ r.prior \subseteq Procs /\ r.seq \in Nat
        /\ \A q \in Procs : Drafting(q) => draft[q].prior \subseteq Procs /\ draft[q].seq \in Nat
    BY DEF Typed, Drafts
  <1>7. \A q \in Procs : pc[q] = "store" => Drafting(q)
    BY DEF Drafting
  <1>8. Drawn'
    <2>1. \A r \in receipts' : r.seq <= seq' /\ r.stored_at <= clock'
      BY <1>2, <1>3, <1>6 DEF Order, Drawn
    <2>2. \A q \in Procs : Drafting(q)' => draft'[q].by = q /\ draft'[q].stored_at <= clock'
      BY <1>1, <1>2, <1>5 DEF Order, Drawn
    <2>3. \A q \in Procs : pc'[q] # "seqwrite"
      BY <1>4, <1>5
    <2>4. \A q \in Procs : pc'[q] = "store" => draft'[q].seq <= seq'
      BY <1>1, <1>2, <1>3, <1>5, <1>6, <1>7 DEF Order, Drawn
    <2>5. QED
      BY <2>1, <2>2, <2>3, <2>4 DEF Drawn
  <1>9. Distinct'
    <2>1. \A q \in Procs : pc'[q] = "store" => q = p \/ pc[q] = "store"
      BY <1>5
    <2>2. \A r \in receipts : r.seq < draft[p].seq
      BY <1>2, <1>3, <1>6 DEF Order, Drawn
    <2>3. \A q \in Procs : pc[q] = "store" => draft[q].seq < draft[p].seq
      BY <1>2, <1>3, <1>6, <1>7 DEF Order, Drawn
    <2>4. draft[p].seq \in Nat
      BY <1>1, <1>6
    <2>5. \A q \in Procs, r \in receipts' : pc'[q] = "store" => draft'[q].seq # r.seq
      BY <1>2, <1>6, <2>1, <2>2, <2>4 DEF Order, Distinct
    <2>6. \A q, u \in Procs : pc'[q] = "store" /\ pc'[u] = "store" /\ q # u =>
            draft'[q].seq # draft'[u].seq
      BY <1>2, <1>6, <1>7, <2>1, <2>3, <2>4 DEF Order, Distinct
    <2>7. QED
      BY <1>2, <2>5, <2>6 DEF Order, Distinct
  <1>10. Earlier'
    <2>1. \A r \in receipts' : ~Undone(r.by)' /\ \A q \in r.prior : ~Undone(q)'
      BY <1>2, <1>5, <1>6 DEF Order, Earlier
    <2>2. \A q \in Procs : Drafting(q)' => \A u \in draft'[q].prior : ~Undone(u)'
      BY <1>1, <1>2, <1>5, <1>6 DEF Order, Earlier
    <2>3. \A q \in Procs, r \in receipts' : Drafting(q)' /\ r.by \in draft'[q].prior =>
            /\ r.stored_at <= draft'[q].stored_at
            /\ pc'[q] = "store" => r.seq < draft'[q].seq
      BY <1>1, <1>2, <1>3, <1>5, <1>6 DEF Order, Earlier, Drawn
    <2>4. QED
      BY <2>1, <2>2, <2>3 DEF Earlier
  <1>11. ReceiptsAreOrdered'
    BY <1>2 DEF Order, ReceiptsAreOrdered, Before
  <1>12. QED
    BY <1>8, <1>9, <1>10, <1>11 DEF Order

LEMMA OrderStore ==
  ASSUME Typed, Order, NEW p \in Procs, StoreReceipt(p)
  PROVE  Order'
  <1>1. pc[p] = "store" /\ pc' = [pc EXCEPT ![p] = "done"] /\ Undone(p) /\ Drafting(p)
    BY DEF StoreReceipt, Goto, Undone, Drafting
  <1>2. /\ UNCHANGED <<seq, clock>>
        /\ receipts' = receipts \cup {draft[p]}
        /\ draft' = [draft EXCEPT ![p] = NoDraft]
    BY DEF StoreReceipt
  <1>3. \A q \in Procs \ {p} : draft'[q] = draft[q]
    BY <1>2 DEF Typed
  <1>4. /\ pc'[p] = "done" /\ ~Drafting(p)' /\ ~Undone(p)'
        /\ \A q \in Procs \ {p} : pc'[q] = pc[q] /\ (Drafting(q)' <=> Drafting(q))
        /\ \A q \in Procs : ~Undone(q) => q # p /\ ~Undone(q)'
    <2>1. /\ pc'[p] = "done"
          /\ \A q \in Procs \ {p} : pc'[q] = pc[q] /\ (Drafting(q)' <=> Drafting(q))
          /\ \A q \in Procs : ~Undone(q) => q # p /\ ~Undone(q)'
      BY <1>1, Spares
    <2>2. ~Drafting(p)' /\ ~Undone(p)'
      BY <2>1 DEF Drafting, Undone
    <2>3. QED
      BY <2>1, <2>2
  <1>5. \A r \in receipts \cup {draft[p]} :
          /\ r.by \in Procs /\ r.prior \subseteq Procs
          /\ r.seq \in Nat /\ r.stored_at \in Nat
    BY <1>1 DEF Typed, Drafts
  <1>6. draft[p].by = p
    BY <1>1 DEF Order, Drawn
  <1>7. \A q \in Procs : Drafting(q) => p \notin draft[q].prior
    BY <1>1 DEF Order, Earlier
  <1>8. \A r \in receipts : p \notin r.prior
    BY <1>1 DEF Order, Earlier
  <1>9. \A q \in Procs : Drafting(q) => draft[q].prior \subseteq Procs
    BY DEF Typed, Drafts
  <1>10. Drawn'
    BY <1>1, <1>2, <1>3, <1>4 DEF Order, Drawn
  <1>11. Distinct'
    <2>1. \A r, s \in receipts' : r # s => r.seq # s.seq
      BY <1>1, <1>2 DEF Order, Distinct
    <2>2. \A q \in Procs, r \in receipts' : pc'[q] = "store" => draft'[q].seq # r.seq
      BY <1>1, <1>2, <1>3, <1>4 DEF Order, Distinct
    <2>3. \A q, u \in Procs : pc'[q] = "store" /\ pc'[u] = "store" /\ q # u =>
            draft'[q].seq # draft'[u].seq
      BY <1>3, <1>4 DEF Order, Distinct
    <2>4. QED
      BY <2>1, <2>2, <2>3 DEF Distinct
  <1>12. Earlier'
    <2>1. \A r \in receipts' : ~Undone(r.by)' /\ \A q \in r.prior : ~Undone(q)'
      BY <1>1, <1>2, <1>4, <1>5, <1>6 DEF Order, Earlier
    <2>2. \A q \in Procs : Drafting(q)' => \A u \in draft'[q].prior : ~Undone(u)'
      BY <1>3, <1>4, <1>9 DEF Order, Earlier
    <2>3. \A q \in Procs, r \in receipts' : Drafting(q)' /\ r.by \in draft'[q].prior =>
            /\ r.stored_at <= draft'[q].stored_at
            /\ pc'[q] = "store" => r.seq < draft'[q].seq
      BY <1>2, <1>3, <1>4, <1>6, <1>7 DEF Order, Earlier
    <2>4. QED
      BY <2>1, <2>2, <2>3 DEF Earlier
  <1>13. ReceiptsAreOrdered'
    <2>1. \A r, s \in receipts' : r # s => Before(r, s) \/ Before(s, r)
      BY <1>2, <1>5, <1>11 DEF Distinct, Before
    <2>2. ASSUME NEW r \in receipts', NEW s \in receipts', r.by \in s.prior
          PROVE  Before(r, s)
      <3>1. p \notin s.prior
        BY <1>1, <1>2, <1>7, <1>8
      <3>2. r # draft[p]
        BY <1>6, <2>2, <3>1
      <3>3. CASE s \in receipts
        BY <1>2, <2>2, <3>2, <3>3 DEF Order, ReceiptsAreOrdered
      <3>4. CASE s = draft[p]
        BY <1>1, <1>2, <1>5, <2>2, <3>2, <3>4 DEF Order, Earlier, Before
      <3>5. QED
        BY <1>2, <3>3, <3>4
    <2>3. QED
      BY <2>1, <2>2 DEF ReceiptsAreOrdered
  <1>14. QED
    BY <1>10, <1>11, <1>12, <1>13 DEF Order

LEMMA OrderStep == Typed /\ Holders /\ Order /\ [Next]_vars => Order'
  <1> SUFFICES ASSUME Typed, Holders, Order, [Next]_vars PROVE Order'
    OBVIOUS
  <1>1. Typed'
    BY TypedStep
  <1>2. clock \in Nat
    BY DEF Typed
  <1>3. CASE UNCHANGED vars \/ Tick
    BY <1>1, <1>2, <1>3, OrderStill DEF vars, store, local, Tick
  <1>4. ASSUME NEW p \in Procs, Start(p) \/ Add(p) \/ Release(p) \/ Crash(p) PROVE Order'
    <2>1. UNCHANGED <<receipts, seq, draft, clock>>
      BY <1>4 DEF Start, Add, Release, Crash, StartWrite, StartPoint, AddBegin, AddRead, AddWrite,
                  AddReturn, GateRead, Judge, Refuse, ReleaseRead, ReleaseWrite, CheckPointer,
                  Unlink, store, local
    <2>2. \/ pc' = pc
          \/ \E to \in Places \ {"ready", "seqlock", "seqwrite", "store"} :
               pc' = [pc EXCEPT ![p] = to]
      BY <1>4 DEF Start, Add, Release, Crash, StartWrite, StartPoint, AddBegin, AddRead, AddWrite,
                  AddReturn, GateRead, Judge, Refuse, ReleaseRead, ReleaseWrite, CheckPointer,
                  Unlink, Goto, Places
    <2>3. \A q \in Procs : pc'[q] \in {"ready", "seqlock", "seqwrite", "store"} => pc'[q] = pc[q]
      BY <2>2 DEF Typed
    <2>4. QED
      BY <1>1, <1>2, <2>1, <2>3, OrderStill
  <1>5. ASSUME NEW p \in Procs, Write(p) PROVE Order'
    BY <1>5, OrderStamp, OrderSeqRead, OrderSeqWrite, OrderStore DEF Write
  <1>6. QED
    BY <1>3, <1>4, <1>5 DEF Next, Procs

THEOREM OrderInvariant == Spec => []OrderInv
  <1>1. Init => OrderInv
    BY OrderInit
  <1>2. OrderInv /\ [Next]_vars => OrderInv'
    BY TypedStep, HoldersStep, OrderStep DEF OrderInv, Order
  <1>3. QED
    BY <1>1, <1>2, PTL DEF Spec

\* However their writers interleave or die, any two receipts are ordered, as
\* _receipt_order sorts them, and one on disk when write_receipt began comes
\* before the receipt it stores (egrt_store.py, soul_runtime.py).
THEOREM ReceiptsOrdered == Spec => []ReceiptsAreOrdered
  BY OrderInvariant, PTL DEF OrderInv

-----------------------------------------------------------------------------
(* Releases                                                                *)

\* What a release needs of obligation o.
Justified(p, o) ==
  \E c \in Evidence(job[p].task, o) :
    /\ c.verdict = "CLEARED"
    /\ \A r \in seen[p].receipts \cap Evidence(job[p].task, o) : ~Before(c, r)

Needs(p) == seen[p].obls \cap LoadBearing

\* The gate's state vouches for every obligation it has judged.
Gate(p) ==
  /\ overall[p] \in Verdicts
  /\ seen[p].receipts \subseteq receipts
  /\ pc[p] = "ready" => seen[p].obls = {}
  /\ pc[p] = "judge" /\ overall[p] = "CLEARED" => \A o \in Needs(p) \ todo[p] : Justified(p, o)
  /\ pc[p] \notin {"judge", "refused", "dead"} => \A o \in Needs(p) : Justified(p, o)

GateInv ==
  /\ seen \in [Procs -> [obls : SUBSET Obls, receipts : SUBSET Drafts]]
  /\ todo \in [Procs -> SUBSET Obls]
  /\ overall \in [Procs -> Verdicts]
  /\ \A p \in Procs : Gate(p)

\* New receipts do not unmake evidence that was current for what the gate saw.
LEMMA JustifiedStays ==
  ASSUME NEW q \in Procs, NEW o,
         job'[q].task = job[q].task, seen'[q] = seen[q],
         seen[q].receipts \subseteq receipts, receipts \subseteq receipts',
         Justified(q, o)
  PROVE  Justified(q, o)'
  <1>1. PICK c \in Evidence(job[q].task, o) :
          /\ c.verdict = "CLEARED"
          /\ \A r \in seen[q].receipts \cap Evidence(job[q].task, o) : ~Before(c, r)
    BY DEF Justified
  <1>2. c \in Evidence(job[q].task, o)'
    BY <1>1 DEF Evidence
  <1>3. \A r \in seen'[q].receipts \cap Evidence(job[q].task, o)' :
          r \in seen[q].receipts \cap Evidence(job[q].task, o)
    BY DEF Evidence
  <1>4. QED
    BY <1>1, <1>2, <1>3 DEF Justified, Before

\* A process that is not in a gate's step: it may move, but not into the gate.
LEMMA GateStill ==
  ASSUME NEW q \in Procs, Gate(q), receipts \subseteq receipts',
         UNCHANGED <<seen[q], overall[q], todo[q]>>,
         \/ pc'[q] = pc[q] /\ job'[q] = job[q]
         \/ /\ pc[q] \notin {"judge", "refused", "dead"} /\ pc'[q] \notin {"ready", "judge"}
            /\ job'[q] = job[q] \/ pc[q] = "ready"
  PROVE  Gate(q)'
  <1>1. Needs(q)' = Needs(q) /\ (pc[q] = "ready" => Needs(q) = {})
    BY DEF Needs, Gate
  <1>2. job'[q] = job[q] => \A o : Justified(q, o) => Justified(q, o)'
    BY JustifiedStays DEF Gate
  <1>3. QED
    BY <1>1, <1>2 DEF Gate

LEMMA GateInit == Init => GateInv
  <1> SUFFICES ASSUME Init PROVE GateInv
    OBVIOUS
  <1>1. /\ seen = [p \in Procs |-> [obls |-> {}, receipts |-> {}]]
        /\ todo = [p \in Procs |-> {}]
        /\ overall = [p \in Procs |-> "CLEARED"]
    BY DEF Init
  <1>2. \A p \in Procs : Needs(p) = {} /\ pc[p] = "ready"
    BY <1>1 DEF Needs, Init
  <1>3. QED
    BY <1>1, <1>2 DEF GateInv, Gate, Verdicts

LEMMA GateGateRead ==
  ASSUME Typed, GateInv, NEW p \in Procs, GateRead(p)
  PROVE  GateInv'
  <1>1. PICK t \in Tasks :
          /\ todo' = [todo EXCEPT ![p] = tasks[t].obls \cap LoadBearing]
          /\ seen' = [seen EXCEPT ![p] = [obls |-> tasks[t].obls, receipts |-> receipts]]
    BY DEF GateRead
  <1>2. tasks[t].obls \in SUBSET Obls
    BY DEF Typed, TaskFiles
  <1>3. /\ seen' \in [Procs -> [obls : SUBSET Obls, receipts : SUBSET Drafts]]
        /\ todo' \in [Procs -> SUBSET Obls]
        /\ overall' \in [Procs -> Verdicts]
        /\ UNCHANGED <<receipts, overall>>
    BY <1>1, <1>2 DEF GateInv, Typed, GateRead, store
  <1>4. pc'[p] = "judge" /\ \A q \in Procs \ {p} : pc'[q] = pc[q] /\ job'[q] = job[q]
    BY DEF GateRead, Goto, Typed
  <1>5. Gate(p)'
    <2>1. Needs(p)' = todo'[p] /\ seen'[p].receipts = receipts
      BY <1>1 DEF Needs, GateInv
    <2>2. QED
      BY <1>3, <1>4, <2>1 DEF Gate
  <1>6. ASSUME NEW q \in Procs \ {p} PROVE Gate(q)'
    BY <1>1, <1>3, <1>4, GateStill DEF GateInv
  <1>7. QED
    BY <1>3, <1>5, <1>6 DEF GateInv

LEMMA GateJudge ==
  ASSUME Typed, GateInv, NEW p \in Procs, Judge(p)
  PROVE  GateInv'
  <1>1. PICK o \in todo[p] :
          /\ \E v \in Current(job[p].task, o) : overall' = [overall EXCEPT ![p] = Worse(@, v)]
          /\ todo' = [todo EXCEPT ![p] = @ \ {o}]
    BY DEF Judge
  <1>2. PICK v \in Current(job[p].task, o) : overall' = [overall EXCEPT ![p] = Worse(@, v)]
    BY <1>1
  <1>3. UNCHANGED <<receipts, pc, job, seen>> /\ pc[p] = "judge"
    BY DEF Judge, store
  <1>4. v \in Verdicts
    BY DEF Current, Accepted, Typed, Drafts, Verdicts
  <1>5. overall[p] \in Verdicts /\ overall'[p] = Worse(overall[p], v)
    BY <1>2 DEF GateInv
  <1>6. overall'[p] \in Verdicts /\ (overall'[p] = "CLEARED" => overall[p] = "CLEARED" /\ v = "CLEARED")
    BY <1>4, <1>5 DEF Worse, Severity, Verdicts
  <1>7. v = "CLEARED" => Justified(p, o)
    <2>1. SUFFICES ASSUME v = "CLEARED" PROVE Justified(p, o)
      OBVIOUS
    <2>2. Accepted(job[p].task, o) = Evidence(job[p].task, o)
      BY DEF Accepted, Evidence
    <2>3. PICK r \in Evidence(job[p].task, o) :
            /\ r.verdict = "CLEARED"
            /\ \A s \in Evidence(job[p].task, o) : ~Before(r, s)
      BY <2>1, <2>2 DEF Current
    <2>4. QED
      BY <2>3 DEF Justified
  <1>8. Gate(p)'
    <2>1. Needs(p)' = Needs(p) /\ todo'[p] = todo[p] \ {o}
      BY <1>1, <1>3 DEF Needs, GateInv
    <2>2. \A u : Justified(p, u) => Justified(p, u)'
      BY <1>3, JustifiedStays DEF GateInv, Gate
    <2>3. QED
      BY <1>3, <1>6, <1>7, <2>1, <2>2 DEF Gate, GateInv
  <1>9. ASSUME NEW q \in Procs \ {p} PROVE Gate(q)'
    BY <1>1, <1>2, <1>3, GateStill DEF GateInv
  <1>10. /\ seen' \in [Procs -> [obls : SUBSET Obls, receipts : SUBSET Drafts]]
         /\ todo' \in [Procs -> SUBSET Obls]
         /\ overall' \in [Procs -> Verdicts]
    BY <1>1, <1>2, <1>3, <1>5, <1>6 DEF GateInv
  <1>11. QED
    BY <1>8, <1>9, <1>10 DEF GateInv

LEMMA GateLeave ==
  ASSUME Typed, GateInv, NEW p \in Procs, Refuse(p) \/ ReleaseRead(p)
  PROVE  GateInv'
  <1>1. /\ UNCHANGED <<receipts, job, seen, todo, overall>>
        /\ pc[p] = "judge" /\ todo[p] = {}
        /\ \A q \in Procs \ {p} : pc'[q] = pc[q]
        /\ pc'[p] = "refused" \/ (pc'[p] = "release" /\ overall[p] = "CLEARED")
    BY DEF Refuse, ReleaseRead, Goto, store, local, Typed
  <1>2. Gate(p)'
    <2>1. Needs(p)' = Needs(p)
      BY <1>1 DEF Needs
    <2>2. \A o : Justified(p, o) => Justified(p, o)'
      BY <1>1, JustifiedStays DEF GateInv, Gate
    <2>3. QED
      BY <1>1, <2>1, <2>2 DEF Gate, GateInv
  <1>3. ASSUME NEW q \in Procs \ {p} PROVE Gate(q)'
    BY <1>1, GateStill DEF GateInv
  <1>4. QED
    BY <1>1, <1>2, <1>3 DEF GateInv

LEMMA GateStep == Typed /\ GateInv /\ [Next]_vars => GateInv'
  <1> SUFFICES ASSUME Typed, GateInv, [Next]_vars PROVE GateInv'
    OBVIOUS
  <1>1. CASE UNCHANGED vars \/ Tick
    <2>1. UNCHANGED <<receipts, pc, job, seen, todo, overall>>
      BY <1>1 DEF vars, store, local, Tick
    <2>2. QED
      BY <2>1, GateStill DEF GateInv
  <1>2. ASSUME NEW p \in Procs, Start(p) \/ Add(p) PROVE GateInv'
    <2>1. UNCHANGED <<receipts, seen, todo, overall>>
      BY <1>2 DEF Start, Add, StartWrite, StartPoint, AddBegin, AddRead, AddWrite, AddReturn,
                  store, local
    <2>2. /\ pc[p] \in {"ready", "point", "lock", "append", "unlock"}
          /\ pc'[p] \in {"point", "done", "lock", "append", "unlock"}
          /\ \A q \in Procs \ {p} : pc'[q] = pc[q]
      BY <1>2 DEF Start, Add, StartWrite, StartPoint, AddBegin, AddRead, AddWrite, AddReturn,
                  Goto, Typed
    <2>3. /\ \A q \in Procs \ {p} : job'[q] = job[q]
          /\ job'[p] = job[p] \/ pc[p] = "ready"
      BY <1>2 DEF Start, Add, StartWrite, StartPoint, AddBegin, AddRead, AddWrite, AddReturn,
                  Goto, local, Typed
    <2>4. \A q \in Procs : Gate(q)'
      BY <2>1, <2>2, <2>3, GateStill DEF GateInv
    <2>5. QED
      BY <2>1, <2>4 DEF GateInv
  <1>3. ASSUME NEW p \in Procs,
               Write(p) \/ ReleaseWrite(p) \/ CheckPointer(p) \/ Unlink(p)
        PROVE  GateInv'
    <2>1. receipts \subseteq receipts' /\ UNCHANGED <<job, seen, todo, overall>>
      BY <1>3 DEF Write, Stamp, SeqRead, SeqWrite, StoreReceipt, ReleaseWrite, CheckPointer,
                  Unlink, store, local
    <2>2. /\ pc[p] \in {"ready", "seqlock", "seqwrite", "store", "release", "unpoint", "unlink"}
          /\ pc'[p] \in {"seqlock", "seqwrite", "store", "unpoint", "unlink", "done"}
          /\ \A q \in Procs \ {p} : pc'[q] = pc[q]
      BY <1>3 DEF Write, Stamp, SeqRead, SeqWrite, StoreReceipt, ReleaseWrite, CheckPointer,
                  Unlink, Goto, Typed
    <2>3. \A q \in Procs : Gate(q)'
      BY <2>1, <2>2, GateStill DEF GateInv
    <2>4. QED
      BY <2>1, <2>3 DEF GateInv
  <1>4. ASSUME NEW p \in Procs, Crash(p) PROVE GateInv'
    <2>1. /\ UNCHANGED <<receipts, job, seen, todo, overall>>
          /\ pc'[p] = "dead" /\ \A q \in Procs \ {p} : pc'[q] = pc[q]
      BY <1>4 DEF Crash, local, Typed
    <2>2. \A q \in Procs \ {p} : Gate(q)'
      BY <2>1, GateStill DEF GateInv
    <2>3. Gate(p)'
      BY <2>1 DEF Gate, GateInv
    <2>4. QED
      BY <2>1, <2>2, <2>3 DEF GateInv
  <1>5. ASSUME NEW p \in Procs, Release(p) PROVE GateInv'
    BY <1>3, <1>5, GateGateRead, GateJudge, GateLeave DEF Release
  <1>6. QED
    BY <1>1, <1>2, <1>3, <1>4, <1>5 DEF Next, Procs

\* Whatever is written, released or interrupted while a gate runs, a release rests
\* on a CLEARED receipt, of the right module and task, for each load-bearing
\* obligation the gate knew, and on none that was already superseded when it began
\* (soul_runtime.py, release_gate and release_task).
THEOREM ReleaseJustified == Spec => []ReleaseIsJustified
  <1>1. Init => Typed /\ GateInv
    BY OrderInit, GateInit DEF OrderInv
  <1>2. Typed /\ GateInv /\ [Next]_vars => (Typed /\ GateInv)'
    BY TypedStep, GateStep
  <1>3. Typed /\ GateInv => ReleaseIsJustified
    BY DEF GateInv, Gate, Needs, Justified, ReleaseIsJustified, Released, Procs
  <1>4. QED
    BY <1>1, <1>2, <1>3, PTL DEF Spec

-----------------------------------------------------------------------------
(* Obligations                                                             *)

Rewritten(t) == \E p \in Releasers : job[p].task = t /\ Released(p)

\* What callers were told is in the file, and adders inside the lock keep it there.
Keeps(t) ==
  /\ \A o \in Obligations : <<t, o>> \in acked => o \in tasks[t].obls
  /\ \A p \in Procs : job[p].task = t /\ pc[p] = "append" => tasks[t].obls \subseteq view[p].obls
  /\ \A p \in Procs : job[p].task = t /\ pc[p] = "unlock" => job[p].obl \in tasks[t].obls

ObligationInv == \A t \in Tasks : Rewritten(t) \/ Keeps(t)

LEMMA ObligationInit == Init => ObligationInv
  <1> SUFFICES ASSUME Init PROVE \A t \in Tasks : Keeps(t)
    BY DEF ObligationInv
  <1>1. acked = {} /\ \A p \in Procs : pc[p] = "ready"
    BY DEF Init
  <1>2. QED
    BY <1>1 DEF Keeps

\* A releaser that has written the file is past every lock and every new job.
LEMMA RewrittenStays ==
  ASSUME Typed, Holders, [Next]_vars, NEW t \in Tasks, Rewritten(t)
  PROVE  Rewritten(t)'
  <1>1. PICK r \in Releasers : job[r].task = t /\ pc[r] \in {"unpoint", "unlink", "done"}
    BY DEF Rewritten, Released
  <1>2. SUFFICES job'[r] = job[r] /\ pc'[r] \in {"unpoint", "unlink", "done"}
    BY <1>1 DEF Rewritten, Released
  <1>3. r \in Procs
    BY DEF Procs
  <1>4. CASE UNCHANGED vars \/ Tick
    BY <1>1, <1>4 DEF vars, local, Tick
  <1>5. ASSUME NEW p \in Procs, Start(p) \/ Add(p) \/ Write(p) \/ Release(p)
        PROVE  job'[r] = job[r] /\ pc'[r] \in {"unpoint", "unlink", "done"}
    <2>1. \A q \in Procs : q # p => job'[q] = job[q] /\ pc'[q] = pc[q]
      BY <1>5 DEF Start, Add, Write, Release, StartWrite, StartPoint, AddBegin, AddRead, AddWrite,
                  AddReturn, Stamp, SeqRead, SeqWrite, StoreReceipt, GateRead, Judge, Refuse,
                  ReleaseRead, ReleaseWrite, CheckPointer, Unlink, Goto, local, Typed
    <2>2. CASE pc[p] \in {"unpoint", "unlink", "done"}
      <3>1. CheckPointer(p) \/ Unlink(p)
        BY <1>5, <2>2 DEF Start, Add, Write, Release, StartWrite, StartPoint, AddBegin, AddRead,
                    AddWrite, AddReturn, Stamp, SeqRead, SeqWrite, StoreReceipt, GateRead, Judge,
                    Refuse, ReleaseRead, ReleaseWrite, CheckPointer, Unlink, Goto
      <3>2. job' = job /\ pc'[p] \in {"unlink", "done"}
        BY <3>1 DEF CheckPointer, Unlink, Goto, local, Typed
      <3>3. QED
        BY <1>1, <1>3, <2>1, <3>2
    <2>3. QED
      BY <1>1, <1>3, <2>1, <2>2
  <1>6. ASSUME NEW p \in Procs, Crash(p)
        PROVE  job'[r] = job[r] /\ pc'[r] \in {"unpoint", "unlink", "done"}
    <2>1. p # r
      BY <1>1, <1>3, <1>6 DEF Crash, Holders
    <2>2. QED
      BY <1>1, <1>3, <1>6, <2>1 DEF Crash, local, Typed
  <1>7. QED
    BY <1>4, <1>5, <1>6 DEF Next, Procs

\* A step that leaves t's obligations alone and lets nobody into or through its lock.
LEMMA KeepsStill ==
  ASSUME NEW t \in Tasks, Keeps(t), tasks'[t].obls = tasks[t].obls,
         \A o \in Obligations : <<t, o>> \in acked' => <<t, o>> \in acked,
         \A q \in Procs : pc'[q] \in {"append", "unlock"} =>
           pc'[q] = pc[q] /\ job'[q] = job[q] /\ view'[q] = view[q]
  PROVE  Keeps(t)'
  BY DEF Keeps

LEMMA KeepsAddRead ==
  ASSUME Typed, NEW t \in Tasks, Keeps(t), NEW p \in Procs, AddRead(p)
  PROVE  Keeps(t)'
  <1>1. /\ UNCHANGED <<tasks, acked, job>>
        /\ view' = [view EXCEPT ![p] = tasks[job[p].task]]
        /\ pc' = [pc EXCEPT ![p] = "append"]
    BY DEF AddRead, Goto
  <1>2. view'[p] = tasks[job[p].task] /\ pc'[p] = "append"
        /\ \A q \in Procs \ {p} : view'[q] = view[q] /\ pc'[q] = pc[q]
    BY <1>1 DEF Typed
  <1>3. QED
    BY <1>1, <1>2 DEF Keeps

LEMMA KeepsAddWrite ==
  ASSUME Typed, Holders, NEW t \in Tasks, Keeps(t), NEW p \in Procs, AddWrite(p)
  PROVE  Keeps(t)'
  <1>1. /\ UNCHANGED <<acked, job>> /\ pc[p] = "append"
        /\ tasks' = [tasks EXCEPT ![job[p].task] = [view[p] EXCEPT !.obls = @ \cup {job[p].obl}]]
        /\ pc'[p] = "unlock" /\ \A q \in Procs \ {p} : pc'[q] = pc[q] /\ view'[q] = view[q]
    BY DEF AddWrite, Goto, Typed
  <1>2. CASE job[p].task # t
    <2>1. tasks'[t] = tasks[t]
      BY <1>1, <1>2 DEF Typed
    <2>2. QED
      BY <1>1, <1>2, <2>1 DEF Keeps
  <1>3. CASE job[p].task = t
    <2>1. tasks'[t].obls = view[p].obls \cup {job[p].obl}
      BY <1>1, <1>3 DEF Typed, TaskFiles
    <2>2. tasks[t].obls \subseteq view[p].obls
      BY <1>1, <1>3 DEF Keeps
    <2>3. \A q \in Procs : job[q].task = t /\ pc[q] \in {"append", "unlock"} => q = p
      BY <1>1, <1>3 DEF Holders, LockNames
    <2>4. QED
      BY <1>1, <1>3, <2>1, <2>2, <2>3 DEF Keeps
  <1>4. QED
    BY <1>2, <1>3

LEMMA KeepsAddReturn ==
  ASSUME Typed, NEW t \in Tasks, Keeps(t), NEW p \in Procs, AddReturn(p)
  PROVE  Keeps(t)'
  <1>1. /\ UNCHANGED <<tasks, job, view>> /\ pc[p] = "unlock"
        /\ acked' = acked \cup {<<job[p].task, job[p].obl>>}
        /\ pc'[p] = "done" /\ \A q \in Procs \ {p} : pc'[q] = pc[q]
    BY DEF AddReturn, Goto, local, Typed
  <1>2. QED
    BY <1>1 DEF Keeps

LEMMA ObligationStep == Typed /\ Holders /\ ObligationInv /\ [Next]_vars => ObligationInv'
  <1> SUFFICES ASSUME Typed, Holders, [Next]_vars, NEW t \in Tasks, Keeps(t), ~Rewritten(t)'
               PROVE  Keeps(t)'
    BY RewrittenStays DEF ObligationInv
  <1>1. CASE UNCHANGED vars \/ Tick
    BY <1>1, KeepsStill DEF vars, store, local, Tick
  <1>2. ASSUME NEW p \in Procs, Start(p) PROVE Keeps(t)'
    <2>1. tasks'[t].obls = tasks[t].obls
      <3>1. CASE tasks' = tasks
        BY <3>1
      <3>2. CASE StartWrite(p)
        <4>1. PICK u \in Tasks : tasks[u] = NoTask /\ tasks' = [tasks EXCEPT ![u] = NewTask]
          BY <3>2 DEF StartWrite
        <4>2. NewTask.obls = NoTask.obls
          BY DEF NewTask, NoTask
        <4>3. tasks'[t] = IF t = u THEN NewTask ELSE tasks[t]
          BY <4>1 DEF Typed
        <4>4. QED
          BY <4>1, <4>2, <4>3
      <3>3. QED
        BY <1>2, <3>1, <3>2 DEF Start, StartPoint
    <2>2. /\ acked' = acked /\ view' = view /\ pc'[p] \in {"point", "done"}
          /\ \A q \in Procs \ {p} : pc'[q] = pc[q] /\ job'[q] = job[q]
      BY <1>2 DEF Start, StartWrite, StartPoint, Goto, local, Typed
    <2>3. QED
      BY <2>1, <2>2, KeepsStill
  <1>3. ASSUME NEW p \in Procs, AddBegin(p) PROVE Keeps(t)'
    <2>1. /\ UNCHANGED <<tasks, acked, view>> /\ pc'[p] = "lock"
          /\ \A q \in Procs \ {p} : pc'[q] = pc[q] /\ job'[q] = job[q]
      BY <1>3 DEF AddBegin, Goto, store, Typed
    <2>2. QED
      BY <2>1, KeepsStill
  <1>4. ASSUME NEW p \in Procs, Write(p) PROVE Keeps(t)'
    <2>1. /\ UNCHANGED <<tasks, acked, view, job>>
          /\ pc'[p] \in {"seqlock", "seqwrite", "store", "done"}
          /\ \A q \in Procs \ {p} : pc'[q] = pc[q]
      BY <1>4 DEF Write, Stamp, SeqRead, SeqWrite, StoreReceipt, Goto, store, local, Typed
    <2>2. QED
      BY <2>1, KeepsStill
  <1>5. ASSUME NEW p \in Releasers, Release(p) PROVE Keeps(t)'
    <2>1. p \in Procs
      BY DEF Procs
    <2>2. CASE ReleaseWrite(p)
      <3>1. job' = job /\ pc'[p] = "unpoint"
        BY <2>1, <2>2 DEF ReleaseWrite, Goto, Typed
      <3>2. job[p].task # t
        BY <3>1 DEF Rewritten, Released
      <3>3. tasks'[t] = tasks[t] /\ acked' = acked
            /\ \A q \in Procs \ {p} : pc'[q] = pc[q] /\ view'[q] = view[q]
        BY <2>1, <2>2, <3>2 DEF ReleaseWrite, Goto, Typed
      <3>4. QED
        BY <3>1, <3>3, KeepsStill
    <2>3. CASE ~ReleaseWrite(p)
      <3>1. /\ UNCHANGED <<tasks, acked>>
            /\ \A q \in Procs \ {p} : pc'[q] = pc[q] /\ view'[q] = view[q] /\ job'[q] = job[q]
            /\ pc'[p] \in {"judge", "refused", "release", "unlink", "done"}
        BY <1>5, <2>1, <2>3 DEF Release, GateRead, Judge, Refuse, ReleaseRead, CheckPointer,
                                Unlink, Goto, store, local, Typed
      <3>2. QED
        BY <3>1, KeepsStill
    <2>4. QED
      BY <2>2, <2>3
  <1>6. ASSUME NEW p \in Procs, Crash(p) PROVE Keeps(t)'
    <2>1. /\ UNCHANGED <<tasks, acked, view, job>>
          /\ pc'[p] = "dead" /\ \A q \in Procs \ {p} : pc'[q] = pc[q]
      BY <1>6 DEF Crash, local, Typed
    <2>2. QED
      BY <2>1, KeepsStill
  <1>7. QED
    BY <1>1, <1>2, <1>3, <1>4, <1>5, <1>6, KeepsAddRead, KeepsAddWrite, KeepsAddReturn
       DEF Next, Add, Procs

\* Concurrent add_obligation calls, also ones that die inside the lock, never lose an
\* obligation a caller was told is added: only a release_task, which takes no lock,
\* can (egrt_store.py file_lock, soul_runtime.py add_obligation).
THEOREM AdditionsKept == Spec => []OnlyReleaseLosesObligations
  <1>1. Init => Typed /\ Holders /\ ObligationInv
    BY OrderInit, ObligationInit DEF OrderInv
  <1>2. Typed /\ Holders /\ ObligationInv /\ [Next]_vars => (Typed /\ Holders /\ ObligationInv)'
    BY TypedStep, HoldersStep, ObligationStep
  <1>3. ObligationInv => OnlyReleaseLosesObligations
    BY DEF ObligationInv, Rewritten, Keeps, OnlyReleaseLosesObligations
  <1>4. QED
    BY <1>1, <1>2, <1>3, PTL DEF Spec
-----------------------------------------------------------------------------
(* The pointer                                                             *)

\* The content of a task file, and a task whose start_task is past the pointer.
Whole == [obls : SUBSET Obls, active : BOOLEAN, released : BOOLEAN]
Started(t) ==
  /\ tasks[t] \in Whole
  /\ \A q \in Procs : pc[q] = "point" => job[q].task # t

\* The file says released, or a process is about to write back a copy that does.
Marked(t) ==
  \/ tasks[t].released
  \/ \E q \in Procs : pc[q] = "append" /\ job[q].task = t /\ view[q].released
Going(t) == \E p \in Releasers : job[p].task = t /\ pc[p] \in {"unpoint", "unlink"}

\* Where a task is named, its start_task is over or in progress, and one in progress
\* works alone on a new file.
Begun ==
  /\ Started(FirstTask)
  /\ pointer # Nobody => Started(pointer)
  /\ \A q \in Procs : pc[q] # "point" => Started(job[q].task)
  /\ \A q \in Procs : pc[q] = "point" => tasks[job[q].task] = NewTask
  /\ \A q, r \in Procs : pc[q] = "point" /\ pc[r] = "point" /\ q # r =>
       job[q].task # job[r].task

PointerInv ==
  /\ pointer \in Tasks \cup {Nobody}
  /\ Begun
  /\ \A q \in Procs : pc[q] \in {"append", "release"} => view[q] \in Whole
  /\ pointer # Nobody /\ Marked(pointer) => Going(pointer)

LEMMA TaskKinds == NewTask \in Whole /\ ~NewTask.released /\ NoTask \notin Whole
  <1>1. NewTask \in Whole /\ ~NewTask.released
    BY DEF NewTask, Whole
  <1>2. ASSUME NoTask \in Whole PROVE FALSE
    <2>1. DOMAIN NoTask = {"obls", "active", "released"}
      BY <1>2 DEF Whole
    <2>2. DOMAIN NoTask = {"obls"}
      BY DEF NoTask
    <2>3. QED
      BY <2>1, <2>2
  <1>3. QED
    BY <1>1, <1>2

LEMMA PointerInit == Init => PointerInv
  <1> SUFFICES ASSUME Init PROVE PointerInv
    OBVIOUS
  <1>1. /\ pointer = FirstTask /\ FirstTask \in Tasks /\ tasks[FirstTask] = NewTask
        /\ \A q \in Procs : pc[q] = "ready" /\ job[q].task = FirstTask
    BY StoreAssumption DEF Init
  <1>2. Started(FirstTask) /\ ~Marked(FirstTask)
    BY <1>1, TaskKinds DEF Started, Marked
  <1>3. QED
    BY <1>1, <1>2 DEF PointerInv, Begun

LEMMA KnownStarted ==
  ASSUME Typed, PointerInv, NEW t \in Tasks, Known(t)
  PROVE  Started(t)
  BY StoreAssumption DEF Known, PointerInv, Begun, Procs

\* A step of p that touches neither a task nor the pointer, neither begins nor ends at
\* one of their writes, and gives up the way to unlink only when it need not be taken.
LEMMA PointerStill ==
  ASSUME Typed, PointerInv, NEW p \in Procs, NEW to, pc' = [pc EXCEPT ![p] = to],
         UNCHANGED <<tasks, pointer, view>>,
         pc[p] # "point", to \notin {"point", "append", "release"},
         \/ job' = job
         \/ pc[p] = "ready" /\ Started(job'[p].task) /\ \A q \in Procs \ {p} : job'[q] = job[q],
         \/ pc[p] \notin {"unpoint", "unlink"}
         \/ to \in {"unpoint", "unlink"} /\ job' = job
         \/ job[p].task # pointer
  PROVE  PointerInv'
  <1>1. pc'[p] = to /\ \A q \in Procs \ {p} : pc'[q] = pc[q] /\ job'[q] = job[q]
    BY DEF Typed
  <1>2. \A t : Started(t) => Started(t)'
    BY <1>1 DEF Started
  <1>3. Started(job[p].task) /\ Started(job'[p].task)
    BY DEF PointerInv, Begun
  <1>4. Begun'
    BY <1>1, <1>2, <1>3 DEF PointerInv, Begun
  <1>5. \A q \in Procs : pc'[q] \in {"append", "release"} => view'[q] \in Whole
    BY <1>1 DEF PointerInv
  <1>6. ASSUME pointer' # Nobody, Marked(pointer)' PROVE Going(pointer)'
    <2>1. Marked(pointer)
      BY <1>1, <1>6 DEF Marked
    <2>2. PICK r \in Releasers : job[r].task = pointer /\ pc[r] \in {"unpoint", "unlink"}
      BY <1>6, <2>1 DEF PointerInv, Going
    <2>3. r \in Procs
      BY DEF Procs
    <2>4. job'[r].task = pointer /\ pc'[r] \in {"unpoint", "unlink"}
      BY <1>1, <2>2, <2>3
    <2>5. QED
      BY <2>4 DEF Going
  <1>7. QED
    BY <1>4, <1>5, <1>6 DEF PointerInv

LEMMA PointerStartWrite ==
  ASSUME Typed, PointerInv, NEW p \in Procs, StartWrite(p)
  PROVE  PointerInv'
  <1>1. PICK t \in Tasks :
          /\ tasks[t] = NoTask
          /\ tasks' = [tasks EXCEPT ![t] = NewTask]
          /\ job' = [job EXCEPT ![p].task = t]
    BY DEF StartWrite
  <1>2. /\ pc[p] = "ready" /\ pc'[p] = "point" /\ \A q \in Procs \ {p} : pc'[q] = pc[q]
        /\ UNCHANGED <<pointer, view>>
    BY Moved DEF StartWrite, Places
  <1>3. job'[p].task = t /\ \A q \in Procs \ {p} : job'[q] = job[q]
    BY <1>1 DEF Typed
  <1>4. tasks'[t] = NewTask /\ \A u \in Tasks \ {t} : tasks'[u] = tasks[u]
    BY <1>1 DEF Typed
  <1>5. \A u \in Tasks : Started(u) => u # t
    BY <1>1, TaskKinds DEF Started
  <1>6. \A u \in Tasks : Started(u) => Started(u)'
    BY <1>2, <1>3, <1>4, <1>5 DEF Started
  <1>7. \A q \in Procs : job[q].task \in Tasks
    BY DEF Typed
  <1>8. \A q \in Procs \ {p} : job[q].task # t
    BY <1>1, <1>5, <1>7, TaskKinds DEF PointerInv, Begun
  <1>9. Begun'
    BY <1>2, <1>3, <1>4, <1>6, <1>7, <1>8, StoreAssumption DEF PointerInv, Begun
  <1>10. \A q \in Procs : pc'[q] \in {"append", "release"} => view'[q] \in Whole
    BY <1>2 DEF PointerInv
  <1>11. ASSUME pointer' # Nobody, Marked(pointer)' PROVE Going(pointer)'
    <2>1. pointer \in Tasks /\ pointer # t
      BY <1>2, <1>5, <1>11 DEF PointerInv, Begun
    <2>2. Marked(pointer)
      BY <1>2, <1>3, <1>4, <1>11, <2>1 DEF Marked
    <2>3. PICK r \in Releasers : job[r].task = pointer /\ pc[r] \in {"unpoint", "unlink"}
      BY <1>2, <1>11, <2>2 DEF PointerInv, Going
    <2>4. r \in Procs \ {p}
      BY <1>2, <2>3 DEF Procs
    <2>5. QED
      BY <1>2, <1>3, <2>3, <2>4 DEF Going
  <1>12. QED
    BY <1>2, <1>9, <1>10, <1>11 DEF PointerInv

LEMMA PointerStartPoint ==
  ASSUME Typed, PointerInv, NEW p \in Procs, StartPoint(p)
  PROVE  PointerInv'
  <1>1. /\ pc[p] = "point" /\ pc'[p] = "done" /\ \A q \in Procs \ {p} : pc'[q] = pc[q]
        /\ pointer' = job[p].task /\ UNCHANGED <<tasks, job, view>>
    BY Moved DEF StartPoint, Places, local
  <1>2. job[p].task \in Tasks
    BY DEF Typed
  <1>3. \A t : Started(t) => Started(t)'
    BY <1>1 DEF Started
  <1>4. tasks[job[p].task] = NewTask
    BY <1>1 DEF PointerInv, Begun
  <1>5. Started(job[p].task)'
    BY <1>1, <1>4, TaskKinds DEF Started, PointerInv, Begun
  <1>6. Begun'
    BY <1>1, <1>3, <1>5 DEF PointerInv, Begun
  <1>7. ~Marked(pointer)'
    <2>1. ASSUME NEW q \in Procs, pc'[q] = "append" PROVE job[q].task # job[p].task
      BY <1>1, <2>1 DEF PointerInv, Begun, Started
    <2>2. QED
      BY <1>1, <1>4, <2>1, TaskKinds DEF Marked
  <1>8. \A q \in Procs : pc'[q] \in {"append", "release"} => view'[q] \in Whole
    BY <1>1 DEF PointerInv
  <1>9. QED
    BY <1>1, <1>2, <1>6, <1>7, <1>8 DEF PointerInv

\* add_obligation and release_task read and write back the file of a started task.
LEMMA PointerFile ==
  ASSUME Typed, PointerInv, NEW p \in Procs,
         \/ AddRead(p) \/ AddWrite(p)
         \/ p \in Releasers /\ (ReleaseRead(p) \/ ReleaseWrite(p))
  PROVE  PointerInv'
  <1> DEFINE t == job[p].task
  <1>1. /\ pc[p] \in {"lock", "append", "judge", "release"}
        /\ \A q \in Procs \ {p} : pc'[q] = pc[q]
        /\ pc'[p] # "point"
    BY Moved DEF AddRead, AddWrite, ReleaseRead, ReleaseWrite, Places
  <1>2. UNCHANGED <<pointer, job>>
    BY DEF AddRead, AddWrite, ReleaseRead, ReleaseWrite, store
  <1>3. t \in Tasks /\ Started(t)
    BY <1>1 DEF Typed, PointerInv, Begun
  <1>4. tasks'[t] \in Whole /\ \A u \in Tasks \ {t} : tasks'[u] = tasks[u]
    <2>1. CASE AddWrite(p)
      <3>1. view[p] \in Whole /\ job[p].obl \in Obls
        BY <2>1 DEF AddWrite, Goto, PointerInv, Typed
      <3>2. [view[p] EXCEPT !.obls = @ \cup {job[p].obl}] \in Whole
        BY <3>1 DEF Whole
      <3>3. QED
        BY <1>3, <2>1, <3>2 DEF AddWrite, Typed
    <2>2. CASE ReleaseWrite(p)
      <3>1. view[p] \in Whole
        BY <2>2 DEF ReleaseWrite, Goto, PointerInv
      <3>2. [view[p] EXCEPT !.active = FALSE, !.released = TRUE] \in Whole
        BY <3>1 DEF Whole
      <3>3. QED
        BY <1>3, <2>2, <3>2 DEF ReleaseWrite, Typed
    <2>3. CASE tasks' = tasks
      BY <1>3, <2>3 DEF Started
    <2>4. QED
      BY <2>1, <2>2, <2>3 DEF AddRead, ReleaseRead, store
  <1>5. \A u \in Tasks : Started(u) => Started(u)'
    BY <1>1, <1>2, <1>3, <1>4 DEF Started
  <1>6. Begun'
    <2>1. \A q \in Procs : job[q].task \in Tasks
      BY DEF Typed
    <2>2. \A q \in Procs : pc'[q] = "point" => job[q].task # t /\ pc[q] = "point"
      BY <1>1, <1>3 DEF Started
    <2>3. \A q \in Procs : pc'[q] # "point" => Started(job[q].task)
      BY <1>1 DEF PointerInv, Begun
    <2>4. \A q \in Procs : pc'[q] = "point" => tasks'[job[q].task] = NewTask
      BY <1>4, <2>1, <2>2 DEF PointerInv, Begun
    <2>5. QED
      BY <1>2, <1>5, <2>1, <2>2, <2>3, <2>4, StoreAssumption DEF PointerInv, Begun
  <1>7. \A q \in Procs : pc'[q] \in {"append", "release"} => view'[q] \in Whole
    <2>1. \A q \in Procs \ {p} : view'[q] = view[q]
      BY DEF AddRead, AddWrite, ReleaseRead, ReleaseWrite, Typed
    <2>2. pc'[p] \in {"append", "release"} => view'[p] \in Whole
      <3>1. CASE AddRead(p) \/ ReleaseRead(p)
        BY <1>3, <3>1 DEF AddRead, ReleaseRead, Typed, Started
      <3>2. CASE AddWrite(p) \/ ReleaseWrite(p)
        BY <3>2, Moved DEF AddWrite, ReleaseWrite, Places
      <3>3. QED
        BY <3>1, <3>2
    <2>3. QED
      BY <1>1, <2>1, <2>2 DEF PointerInv
  <1>8. ASSUME pointer' # Nobody, Marked(pointer)' PROVE Going(pointer)'
    <2>1. pointer \in Tasks /\ pointer' = pointer
      BY <1>2, <1>8 DEF PointerInv
    <2>2. CASE ReleaseWrite(p) /\ t = pointer
      <3>1. p \in Releasers /\ pc[p] = "release"
        BY <1>1, <2>2 DEF AddRead, AddWrite, ReleaseWrite, Goto
      <3>2. pc'[p] = "unpoint"
        BY <2>2, Moved DEF ReleaseWrite, Places
      <3>3. QED
        BY <1>2, <2>2, <3>1, <3>2 DEF Going
    <2>3. CASE ~(ReleaseWrite(p) /\ t = pointer)
      <3>1. tasks'[pointer].released =>
              \/ tasks[pointer].released
              \/ pc[p] = "append" /\ t = pointer /\ view[p].released
        <4>1. CASE AddWrite(p)
          <5>1. view[p] \in Whole /\ pc[p] = "append"
            BY <4>1 DEF AddWrite, Goto, PointerInv
          <5>2. [view[p] EXCEPT !.obls = @ \cup {job[p].obl}].released = view[p].released
            BY <5>1 DEF Whole
          <5>3. QED
            BY <1>3, <2>1, <4>1, <5>1, <5>2 DEF AddWrite, Typed
        <4>2. CASE ~AddWrite(p)
          BY <1>4, <2>1, <2>3, <4>2 DEF AddRead, ReleaseRead, store
        <4>3. QED
          BY <4>1, <4>2
      <3>2. ASSUME NEW q \in Procs, pc'[q] = "append", job[q].task = pointer, view'[q].released
            PROVE  Marked(pointer)
        <4>1. CASE q = p
          <5>1. AddRead(p)
            BY <3>2, <4>1, Moved DEF AddWrite, ReleaseRead, ReleaseWrite, Places
          <5>2. QED
            BY <3>2, <4>1, <5>1 DEF AddRead, Typed, Marked
        <4>2. CASE q # p
          <5>1. view'[q] = view[q] /\ pc'[q] = pc[q]
            BY <1>1, <4>2 DEF AddRead, AddWrite, ReleaseRead, ReleaseWrite, Typed
          <5>2. QED
            BY <3>2, <5>1 DEF Marked
        <4>3. QED
          BY <4>1, <4>2
      <3>3. Marked(pointer)
        BY <1>2, <1>8, <2>1, <3>1, <3>2 DEF Marked
      <3>4. PICK r \in Releasers : job[r].task = pointer /\ pc[r] \in {"unpoint", "unlink"}
        BY <2>1, <3>3, <1>8 DEF PointerInv, Going
      <3>5. r \in Procs \ {p}
        BY <1>1, <3>4 DEF Procs
      <3>6. QED
        BY <1>1, <1>2, <3>4, <3>5 DEF Going
    <2>4. QED
      BY <2>2, <2>3
  <1>9. QED
    BY <1>2, <1>6, <1>7, <1>8 DEF PointerInv

LEMMA PointerStep == Typed /\ Holders /\ PointerInv /\ [Next]_vars => PointerInv'
  <1> SUFFICES ASSUME Typed, Holders, PointerInv, [Next]_vars PROVE PointerInv'
    OBVIOUS
  <1>1. ASSUME UNCHANGED <<tasks, pointer, view, pc, job>> PROVE PointerInv'
    BY <1>1 DEF PointerInv, Begun, Started, Marked, Going
  <1>2. CASE UNCHANGED vars \/ Tick
    BY <1>1, <1>2 DEF vars, store, local, Tick
  <1>3. ASSUME NEW p \in Procs, Write(p) PROVE PointerInv'
    <2>1. /\ UNCHANGED <<tasks, pointer, view, job>>
          /\ \E to \in {"seqlock", "seqwrite", "store", "done"} : pc' = [pc EXCEPT ![p] = to]
          /\ pc[p] \in {"ready", "seqlock", "seqwrite", "store"}
      BY <1>3 DEF Write, Stamp, SeqRead, SeqWrite, StoreReceipt, Goto, store, local
    <2>2. QED
      BY <2>1, PointerStill
  <1>4. ASSUME NEW p \in Procs, Crash(p) PROVE PointerInv'
    <2>1. pc[p] \in {"seqwrite", "append", "unlock"}
      BY <1>4 DEF Crash, Holders
    <2>2. UNCHANGED <<tasks, pointer, view, job>> /\ pc' = [pc EXCEPT ![p] = "dead"]
      BY <1>4 DEF Crash, local
    <2>3. QED
      BY <2>1, <2>2, PointerStill
  <1>5. ASSUME NEW p \in Procs, AddBegin(p) \/ GateRead(p) PROVE PointerInv'
    <2>1. PICK t \in Tasks :
            /\ Known(t)
            /\ \/ \E o \in Obligations : job' = [job EXCEPT ![p] = [task |-> t, obl |-> o]]
               \/ job' = [job EXCEPT ![p].task = t]
      BY <1>5 DEF AddBegin, GateRead
    <2>2. job'[p].task = t /\ \A q \in Procs \ {p} : job'[q] = job[q]
      BY <2>1 DEF Typed
    <2>3. Started(job'[p].task)
      BY <2>1, <2>2, KnownStarted
    <2>4. /\ UNCHANGED <<tasks, pointer, view>> /\ pc[p] = "ready"
          /\ \E to \in {"lock", "judge"} : pc' = [pc EXCEPT ![p] = to]
      BY <1>5 DEF AddBegin, GateRead, Goto, store
    <2>5. QED
      BY <2>2, <2>3, <2>4, PointerStill
  <1>6. ASSUME NEW p \in Procs, AddReturn(p) \/ Refuse(p) PROVE PointerInv'
    <2>1. /\ UNCHANGED <<tasks, pointer, view, job>> /\ pc[p] \in {"unlock", "judge"}
          /\ \E to \in {"done", "refused"} : pc' = [pc EXCEPT ![p] = to]
      BY <1>6 DEF AddReturn, Refuse, Goto, store, local
    <2>2. QED
      BY <2>1, PointerStill
  <1>7. ASSUME NEW p \in Procs, CheckPointer(p) PROVE PointerInv'
    <2>1. /\ UNCHANGED <<tasks, pointer, view, job>> /\ pc[p] = "unpoint"
          /\ \E to \in {"unlink", "done"} :
               /\ pc' = [pc EXCEPT ![p] = to]
               /\ to = "unlink" \/ job[p].task # pointer
      BY <1>7 DEF CheckPointer, PointsAt, Goto, store, local
    <2>2. QED
      BY <2>1, PointerStill
  <1>8. ASSUME NEW p \in Procs, Unlink(p) PROVE PointerInv'
    <2>1. /\ UNCHANGED <<tasks, view, job>> /\ pointer' = Nobody
          /\ pc[p] = "unlink" /\ pc'[p] = "done" /\ \A q \in Procs \ {p} : pc'[q] = pc[q]
      BY <1>8, Moved DEF Unlink, Places, local
    <2>2. Begun'
      BY <2>1 DEF PointerInv, Begun, Started
    <2>3. QED
      BY <2>1, <2>2 DEF PointerInv
  <1>9. ASSUME NEW p \in Releasers, Release(p) PROVE PointerInv'
    <2>1. p \in Procs
      BY DEF Procs
    <2>2. CASE Judge(p)
      BY <1>1, <2>2 DEF Judge, store
    <2>3. QED
      BY <1>5, <1>6, <1>7, <1>8, <1>9, <2>1, <2>2, PointerFile DEF Release
  <1>10. ASSUME NEW p \in Procs, Start(p) \/ Add(p) PROVE PointerInv'
    BY <1>5, <1>6, <1>10, PointerStartWrite, PointerStartPoint, PointerFile DEF Start, Add
  <1>11. QED
    BY <1>2, <1>3, <1>4, <1>9, <1>10 DEF Next, Procs

\* However starts, releases and additions interleave, the active_task pointer names a
\* released task only while its release_task is on its way to unlink it, so the Stop
\* hook does not gate a finished task again (soul_runtime.py, start_task, release_task).
THEOREM PointerCurrent == Spec => []PointerIsCurrent
  <1>1. Init => Typed /\ Holders /\ PointerInv
    BY OrderInit, PointerInit DEF OrderInv
  <1>2. Typed /\ Holders /\ PointerInv /\ [Next]_vars => (Typed /\ Holders /\ PointerInv)'
    BY TypedStep, HoldersStep, PointerStep
  <1>3. PointerInv => PointerIsCurrent
    BY DEF PointerInv, Marked, Going, PointerIsCurrent
  <1>4. QED
    BY <1>1, <1>2, <1>3, PTL DEF Spec
=============================================================================
