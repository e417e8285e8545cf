---------------------------- MODULE SessionProofs ----------------------------
(***************************************************************************)
(* The components that watch a session, each with the inductive invariant  *)
(* of its own specification: the event log and its monitors, the boundary  *)
(* monitor, the authority monitor, and the adaptation bridge. Where a      *)
(* property speaks of undisturbed behaviours, the invariant has two parts: *)
(* types that always hold, and the order of things that holds until the    *)
(* history variable (blurred, mixed, crossed) says that calls overlapped.  *)
(***************************************************************************)
EXTENDS EventTrace, BoundaryMonitor, AuthorityWatch, AdaptationBridge,
        FiniteSetTheorems, SequenceTheorems, TLAPS

-----------------------------------------------------------------------------
(* EventTrace                                                                *)

TraceSpec == TraceInit /\ [][TraceNext]_tvars

StateEvents == [type : {"obligation.state"}, obl : Marks, state : MonitorVerdicts]
WrittenEvents ==
  [type : {"receipt.written"}, module : {"mind", "space"}, obl : Marks,
   verdict : MonitorVerdicts, sourced : BOOLEAN]
EventsRead ==
  Inputs[op] \cup (IF op = "audit" THEN StateEvents ELSE {})
             \cup (IF op = "costume" THEN WrittenEvents ELSE {})
Stamps == [at : Nat, event : EventsRead]
TraceReceipts ==
  [module : {"mind", "space", "gauntlet"}, obl : Marks, verdict : MonitorVerdicts, sourced : BOOLEAN]

TraceTyped ==
  /\ op \in Watchable
  /\ log \in Seq(Stamps)
  /\ rcpts \in Seq(TraceReceipts)
  /\ now \in Nat
  /\ queue \in [Writers -> Seq(EventsRead)]
  /\ stamped \in [Writers -> Stamps \cup {None}]
  /\ draft \in [Writers -> TraceReceipts \cup {None}]
  /\ \A w \in Writers : draft[w] # None => op = "audit"
  /\ blurred \in BOOLEAN

\* One writer at a time, with one event to append, later than those in the log.
Sequential ==
  /\ \A u, w \in Busy : u = w
  /\ \A i \in DOMAIN log : log[i].at <= now
  /\ \A w \in Writers : queue[w] # <<>> => Len(queue[w]) = 1 /\ draft[w] = None
  /\ \A w \in Writers : stamped[w] # None =>
       /\ queue[w] # <<>> /\ stamped[w].event = Head(queue[w])
       /\ stamped[w].at <= now /\ \A i \in DOMAIN log : log[i].at <= stamped[w].at

\* The verdict of the last receipt of an obligation, the state its last event gives,
\* and the state a writer has still to announce.
StoredFor(o) == \E i \in DOMAIN rcpts : rcpts[i].obl = o
LastVerdict(o, v) ==
  \E i \in DOMAIN rcpts :
    /\ rcpts[i].obl = o /\ rcpts[i].verdict = v
    /\ \A j \in DOMAIN rcpts : rcpts[j].obl = o => j <= i
ReadState(o, v) ==
  \E i \in StatesOf(o) : Event(i).state = v /\ \A j \in StatesOf(o) : j <= i
Announces(w, o, v) ==
  /\ queue[w] # <<>> /\ Head(queue[w]).type = "obligation.state"
  /\ Head(queue[w]).obl = o /\ Head(queue[w]).state = v
Linked ==
  /\ \A o \in Marks : StoredFor(o) =>
       \E v \in MonitorVerdicts :
         LastVerdict(o, v) /\ (ReadState(o, v) \/ \E w \in Writers : Announces(w, o, v))
  /\ \A w \in Writers, o \in Marks, v \in MonitorVerdicts : Announces(w, o, v) => LastVerdict(o, v)

\* A verdict of the monitors that was not CLEARED, and its answer by somebody else.
Objects(i) == rcpts[i].module = "gauntlet" /\ rcpts[i].verdict # "CLEARED"
Overruled(i) ==
  \E j \in DOMAIN rcpts :
    j > i /\ rcpts[j].obl = rcpts[i].obl /\ rcpts[j].module # "gauntlet"
Judged ==
  /\ \A i, m \in DOMAIN rcpts :
       Objects(i) /\ m > i /\ rcpts[m].obl = rcpts[i].obl /\ rcpts[m].verdict = "CLEARED" =>
         Overruled(i)
  /\ \A w \in Writers : draft[w] # None /\ draft[w].verdict = "CLEARED" =>
       \A i \in DOMAIN rcpts : Objects(i) => Overruled(i)

TraceInv ==
  /\ TraceTyped
  /\ ~blurred => Sequential
  /\ op = "audit" /\ ~blurred => Linked /\ Judged

-----------------------------------------------------------------------------
\* Every set of natural numbers has a least element, and a bounded one a greatest.
LEMMA Least ==
  ASSUME NEW T \in SUBSET Nat, T # {}
  PROVE  \E n \in T : \A m \in T : n <= m
  <1>1. PICK n \in T : \A m \in T : ~(<<m, n>> \in OpToRel(<, Nat))
    BY NatLessThanWellFounded, WFMin
  <1>2. \A m \in T : ~(m < n)
    BY <1>1 DEF OpToRel
  <1>3. QED
    BY <1>2

LEMMA Greatest ==
  ASSUME NEW n \in Nat, NEW T \in SUBSET (1..n), T # {}
  PROVE  \E k \in T : \A m \in T : m <= k
  <1> DEFINE U == {n - i : i \in T}
  <1>1. U \in SUBSET Nat /\ U # {}
    <2>1. \A i \in T : n - i \in Nat
      OBVIOUS
    <2>2. QED
      BY <2>1
  <1>2. PICK u \in U : \A v \in U : u <= v
    BY <1>1, Least
  <1>3. PICK k \in T : u = n - k
    BY <1>2
  <1>4. ASSUME NEW m \in T PROVE m <= k
    <2>1. n - k <= n - m
      BY <1>2, <1>3
    <2>2. QED
      BY <2>1
  <1>5. QED
    BY <1>4

\* What Max and Min choose.
LEMMA MaxIs ==
  ASSUME NEW T \in SUBSET Nat, NEW k \in T, \A m \in T : m <= k
  PROVE  Max(T) = k
  <1>1. \A y \in T : k >= y
    OBVIOUS
  <1>2. ASSUME NEW z \in T, \A y \in T : z >= y PROVE z = k
    <2>1. z >= k /\ k >= z /\ z \in Nat /\ k \in Nat
      BY <1>2
    <2>2. QED
      BY <2>1
  <1>3. QED
    BY <1>1, <1>2 DEF Max

LEMMA MinIn ==
  ASSUME NEW T \in SUBSET Nat, T # {}
  PROVE  Min(T) \in T
  <1>1. PICK n \in T : \A m \in T : n <= m
    BY Least
  <1>2. QED
    BY <1>1 DEF Min

\* Where the element at position i is once another is inserted at k.
Moved(k, i) == IF i < k THEN i ELSE i + 1

\* The sequence with one element inserted.
LEMMA InsertProperties ==
  ASSUME NEW S, NEW s \in Seq(S), NEW e \in S, NEW k \in 1..(Len(s) + 1)
  PROVE  LET r == InsertAt(s, k, e)
         IN  /\ r \in Seq(S) /\ Len(r) = Len(s) + 1 /\ DOMAIN r = 1..(Len(s) + 1)
             /\ r[k] = e
             /\ \A i \in 1..Len(s) : r[Moved(k, i)] = s[i]
  <1> DEFINE a == SubSeq(s, 1, k - 1)
             b == SubSeq(s, k, Len(s))
             r == InsertAt(s, k, e)
  <1>1. Len(s) \in Nat /\ k \in Int /\ k - 1 \in Int /\ k - 1 <= Len(s) /\ DOMAIN s = 1..Len(s)
    BY LenProperties
  <1>2. \A i \in 1..Len(s) : s[i] \in S
    BY <1>1
  <1>3. /\ a \in Seq(S) /\ Len(a) = k - 1
        /\ \A i \in 1..(k - 1) : a[i] = s[i]
    <2>1. \A i \in 1..(k - 1) : s[i] \in S
      BY <1>1, <1>2
    <2>2. /\ a \in Seq(S) /\ Len(a) = IF 1 <= k - 1 THEN k - 1 - 1 + 1 ELSE 0
          /\ \A i \in 1..(k - 1 - 1 + 1) : a[i] = s[1 + i - 1]
      BY <1>1, <2>1, SubSeqProperties
    <2>3. QED
      BY <1>1, <2>2
  <1>4. /\ b \in Seq(S) /\ Len(b) = Len(s) - k + 1
        /\ \A i \in 1..(Len(s) - k + 1) : b[i] = s[k + i - 1]
    <2>1. \A i \in k..Len(s) : s[i] \in S
      BY <1>1, <1>2
    <2>2. /\ b \in Seq(S) /\ Len(b) = IF k <= Len(s) THEN Len(s) - k + 1 ELSE 0
          /\ \A i \in 1..(Len(s) - k + 1) : b[i] = s[k + i - 1]
      BY <1>1, <2>1, SubSeqProperties
    <2>3. QED
      BY <1>1, <2>2
  <1> HIDE DEF a, b
  <1>5. <<e>> \in Seq(S) /\ Len(<<e>>) = 1 /\ <<e>>[1] = e
    OBVIOUS
  <1> DEFINE c == a \o <<e>>
  <1>6. /\ c \in Seq(S) /\ Len(c) = k
        /\ \A i \in 1..k : c[i] = IF i <= k - 1 THEN a[i] ELSE e
    <2>1. /\ c \in Seq(S) /\ Len(c) = Len(a) + Len(<<e>>)
          /\ \A i \in 1..(Len(a) + Len(<<e>>)) :
               c[i] = IF i <= Len(a) THEN a[i] ELSE <<e>>[i - Len(a)]
      BY <1>3, <1>5, ConcatProperties
    <2>2. k - 1 + 1 = k
      BY <1>1
    <2>3. c \in Seq(S) /\ Len(c) = k
      BY <1>3, <1>5, <2>1, <2>2
    <2>4. ASSUME NEW i \in 1..k PROVE c[i] = IF i <= k - 1 THEN a[i] ELSE e
      <3>1. c[i] = IF i <= k - 1 THEN a[i] ELSE <<e>>[i - (k - 1)]
        BY <1>3, <1>5, <2>1, <2>2
      <3>2. i <= k - 1 \/ i - (k - 1) = 1
        BY <1>1
      <3>3. QED
        BY <1>5, <3>1, <3>2
    <2>5. QED
      BY <2>3, <2>4
  <1> HIDE DEF c
  <1>7. r = c \o b
    BY DEF r, a, b, c, InsertAt
  <1>8. /\ r \in Seq(S) /\ Len(r) = k + (Len(s) - k + 1)
        /\ \A i \in 1..(k + (Len(s) - k + 1)) : r[i] = IF i <= k THEN c[i] ELSE b[i - k]
    BY <1>4, <1>6, <1>7, ConcatProperties
  <1> HIDE DEF r
  <1>9. /\ Len(r) = Len(s) + 1
        /\ \A i \in 1..(Len(s) + 1) : r[i] = IF i <= k THEN c[i] ELSE b[i - k]
    <2>1. k + (Len(s) - k + 1) = Len(s) + 1
      BY <1>1
    <2>2. QED
      BY <1>8, <2>1
  <1>10. DOMAIN r = 1..(Len(s) + 1)
    BY <1>8, <1>9, LenProperties
  <1>11. r[k] = e
    <2>1. k \in 1..(Len(s) + 1) /\ k \in 1..k /\ k <= k /\ ~(k <= k - 1)
      BY <1>1
    <2>2. r[k] = c[k] /\ c[k] = e
      BY <1>6, <1>9, <2>1
    <2>3. QED
      BY <2>2
  <1>12. ASSUME NEW i \in 1..Len(s) PROVE r[Moved(k, i)] = s[i]
    <2>1. CASE i < k
      <3>1. i \in 1..(Len(s) + 1) /\ i <= k /\ i \in 1..k /\ i <= k - 1 /\ i \in 1..(k - 1)
        BY <1>1, <2>1
      <3>2. r[i] = s[i]
        BY <1>3, <1>6, <1>9, <3>1
      <3>3. QED
        BY <2>1, <3>2 DEF Moved
    <2>2. CASE ~(i < k)
      <3>1. /\ i + 1 \in 1..(Len(s) + 1) /\ ~(i + 1 <= k)
            /\ i + 1 - k \in 1..(Len(s) - k + 1) /\ k + (i + 1 - k) - 1 = i
        BY <1>1, <2>2
      <3>2. r[i + 1] = b[i + 1 - k]
        BY <1>9, <3>1
      <3>3. b[i + 1 - k] = s[k + (i + 1 - k) - 1]
        BY <1>4, <3>1
      <3>4. r[i + 1] = s[i]
        BY <3>1, <3>2, <3>3
      <3>5. QED
        BY <2>2, <3>4 DEF Moved
    <2>3. QED
      BY <2>1, <2>2
  <1>13. QED
    BY <1>8, <1>9, <1>10, <1>11, <1>12 DEF r

-----------------------------------------------------------------------------
(* The invariant of the audited log                                          *)

\* In the initial state there is nothing.
LEMMA TraceInitial == TraceInit => TraceInv
  <1> SUFFICES ASSUME TraceInit PROVE TraceInv
    OBVIOUS
  <1>1. /\ \A S : <<>> \in Seq(S)
        /\ DOMAIN log = {} /\ DOMAIN rcpts = {}
        /\ \A w \in Writers : queue[w] = <<>> /\ stamped[w] = None /\ draft[w] = None
    BY EmptySeq DEF TraceInit
  <1>2. TraceTyped
    BY <1>1 DEF TraceInit, TraceTyped
  <1>3. Busy = {}
    BY <1>1 DEF Busy
  <1>4. Sequential /\ Linked /\ Judged
    BY <1>1, <1>3 DEF Sequential, Linked, Judged, StoredFor, Announces
  <1>5. QED
    BY <1>2, <1>4 DEF TraceInv

\* The verdicts of an audit.
LEMMA VerdictOfAudit ==
  ASSUME op = "audit"
  PROVE  Monitor = Audit /\ Audit \in {"CLEARED", "ISSUE", "UNKNOWN"}
  BY DEF Monitor, Audit

\* What a writer appends is of the types the operation reads.
LEMMA AnnouncedType ==
  ASSUME NEW r \in TraceReceipts, op = "costume" => r.module \in {"mind", "space"}
  PROVE  Announced(r) \in Seq(EventsRead) /\ (Announced(r) # <<>> => Len(Announced(r)) = 1)
  <1>1. CASE op = "audit"
    <2> DEFINE e == [type |-> "obligation.state", obl |-> r.obl, state |-> r.verdict]
    <2>1. Announced(r) = <<e>>
      BY <1>1 DEF Announced
    <2>2. e \in EventsRead
      BY <1>1 DEF EventsRead, StateEvents, TraceReceipts
    <2> HIDE DEF e
    <2>3. QED
      BY <2>1, <2>2
  <1>2. CASE op = "costume"
    <2> DEFINE e == [type |-> "receipt.written", module |-> r.module, obl |-> r.obl,
                     verdict |-> r.verdict, sourced |-> r.sourced]
    <2>1. Announced(r) = <<e>>
      BY <1>2 DEF Announced
    <2>2. e \in EventsRead
      BY <1>2 DEF EventsRead, WrittenEvents, TraceReceipts
    <2> HIDE DEF e
    <2>3. QED
      BY <2>1, <2>2
  <1>3. CASE op # "audit" /\ op # "costume"
    BY <1>3, EmptySeq DEF Announced
  <1>4. QED
    BY <1>1, <1>2, <1>3

\* The types of the events other than announcements, by the operation.
LEMMA InputTypes ==
  ASSUME NEW o \in DOMAIN Inputs, NEW e \in Inputs[o]
  PROVE  /\ e.type \notin {"obligation.state", "receipt.written"}
         /\ o = "frame" => e.type = "action.failed"
         /\ o = "redirect" => e.type = "action.attempted"
  <1>1. CASE o = "frame"
    BY <1>1 DEF Inputs, Events
  <1>2. CASE o = "redirect"
    BY <1>2 DEF Inputs, Events
  <1>3. CASE o = "audit"
    BY <1>3 DEF Inputs, Events, Bare
  <1>4. CASE o = "derive"
    BY <1>4 DEF Inputs, Events
  <1>5. CASE o = "self"
    BY <1>5 DEF Inputs, Events, Bare
  <1>6. CASE o = "boundary"
    BY <1>6 DEF Inputs, Events, Ided
  <1>7. CASE o = "oob"
    BY <1>7 DEF Inputs, Events, Bare
  <1>8. CASE o = "costume"
    BY <1>8 DEF Inputs, Events, Ided
  <1>9. CASE o = "explain"
    BY <1>9 DEF Inputs, Events
  <1>10. CASE o = "refresh"
    BY <1>10 DEF Inputs, Events, Bare
  <1>11. o \in {"frame", "redirect", "audit", "derive", "self", "boundary", "oob", "costume",
               "explain", "refresh"}
    BY DEF Inputs
  <1>12. QED
    BY <1>1, <1>2, <1>3, <1>4, <1>5, <1>6, <1>7, <1>8, <1>9, <1>10, <1>11

\* Only a receipt is announced as the state of an obligation.
LEMMA StateOfEvent ==
  ASSUME op \in Watchable, NEW e \in EventsRead, e.type = "obligation.state"
  PROVE  op = "audit" /\ e.state \in MonitorVerdicts
  <1>1. op \in DOMAIN Inputs
    BY TraceAssumption
  <1>2. e \notin Inputs[op]
    BY <1>1, InputTypes
  <1>3. e \notin WrittenEvents
    BY DEF WrittenEvents
  <1>4. QED
    BY <1>2, <1>3 DEF EventsRead, StateEvents

\* A module's receipt is none of the monitors.
LEMMA OthersReceipt ==
  ASSUME op \in Watchable, NEW r \in ReceiptsOf[op]
  PROVE  r \in TraceReceipts /\ r.module # "gauntlet"
  <1>1. op \in DOMAIN Inputs
    BY TraceAssumption
  <1>2. CASE op \notin {"audit", "derive", "costume"}
    BY <1>1, <1>2 DEF ReceiptsOf
  <1>3. CASE op \in {"audit", "derive", "costume"}
    <2>1. r \in [module : IF op = "audit" THEN {"mind"} ELSE {"mind", "space"}, obl : Marks,
           verdict : {"CLEARED", "ISSUE"},
           sourced : IF op = "costume" THEN BOOLEAN ELSE {FALSE}]
      BY <1>1, <1>3 DEF ReceiptsOf
    <2>2. r \in [module : {"mind", "space"}, obl : Marks, verdict : {"CLEARED", "ISSUE"},
                 sourced : BOOLEAN]
      BY <2>1
    <2>3. QED
      BY <2>2 DEF TraceReceipts, MonitorVerdicts
  <1>4. QED
    BY <1>2, <1>3

\* Without overlapping writers the event appended comes after all others.
LEMMA AppendedLast ==
  ASSUME TraceTyped, Sequential, NEW w \in Writers, AppendEvent(w), ~blurred'
  PROVE  log' = InsertAt(log, Len(log) + 1, stamped[w])
  <1>1. PICK k \in Places(stamped[w]) : log' = InsertAt(log, k, stamped[w])
    BY DEF AppendEvent
  <1>2. /\ log \in Seq(Stamps) /\ Len(log) \in Nat /\ DOMAIN log = 1..Len(log)
        /\ stamped[w] \in Stamps
    BY LenProperties DEF TraceTyped, AppendEvent
  <1>3. \A i \in DOMAIN log : log[i].at <= stamped[w].at /\ log[i].at # stamped[w].at
    BY DEF Sequential, AppendEvent
  <1>4. \A i \in DOMAIN log : log[i].at \in Nat /\ stamped[w].at \in Nat
    <2>1. \A i \in DOMAIN log : log[i] \in Stamps
      BY <1>2
    <2>2. QED
      BY <1>2, <2>1 DEF Stamps
  <1>5. k = Len(log) + 1
    <2>1. SUFFICES ASSUME k # Len(log) + 1 PROVE FALSE
      OBVIOUS
    <2>2. k \in 1..(Len(log) + 1) /\ \A i \in k..Len(log) : stamped[w].at <= log[i].at
      BY DEF Places
    <2>3. k \in k..Len(log) /\ k \in DOMAIN log
      BY <1>2, <2>1, <2>2
    <2>4. stamped[w].at <= log[k].at
      BY <2>2, <2>3
    <2>5. QED
      BY <1>3, <1>4, <2>3, <2>4
  <1>6. QED
    BY <1>1, <1>5

\* Every step keeps the types.
LEMMA TraceTypeKeeps ==
  ASSUME TraceTyped, NEW w \in Writers, WriterStep(w)
  PROVE  TraceTyped'
  <1>0. op' = op /\ EventsRead' = EventsRead /\ Stamps' = Stamps
    BY DEF WriterStep, Emit, StoreReceipt, RunMonitor, StoreVerdict, Stamp, AppendEvent, WriterDies,
           EventsRead, Stamps
  <1>1. ASSUME Emit(w) PROVE TraceTyped'
    <2>1. PICK e \in Inputs[op] : queue' = [queue EXCEPT ![w] = <<e>>]
      BY <1>1 DEF Emit
    <2>2. <<e>> \in Seq(EventsRead)
      BY DEF EventsRead
    <2>3. queue' \in [Writers -> Seq(EventsRead)] /\ blurred' \in BOOLEAN
      BY <1>1, <2>1, <2>2 DEF TraceTyped, Emit, Starts
    <2>4. QED
      BY <1>0, <1>1, <2>3 DEF TraceTyped, Emit
  <1>2. ASSUME StoreReceipt(w) PROVE TraceTyped'
    <2>1. PICK r \in ReceiptsOf[op] : rcpts' = Append(rcpts, r) /\ queue' = [queue EXCEPT ![w] = Announced(r)]
      BY <1>2 DEF StoreReceipt
    <2>2. r \in TraceReceipts /\ r.module # "gauntlet"
      BY OthersReceipt DEF TraceTyped
    <2>3. Announced(r) \in Seq(EventsRead)
      BY <2>2, AnnouncedType DEF TraceReceipts
    <2>4. queue' \in [Writers -> Seq(EventsRead)] /\ blurred' \in BOOLEAN
      BY <1>2, <2>1, <2>3 DEF TraceTyped, StoreReceipt, Starts
    <2>5. rcpts' \in Seq(TraceReceipts)
      BY <2>1, <2>2, AppendProperties DEF TraceTyped
    <2>6. QED
      BY <1>0, <1>2, <2>4, <2>5 DEF TraceTyped, StoreReceipt
  <1>3. ASSUME RunMonitor(w) PROVE TraceTyped'
    <2>1. PICK o \in Marks : draft' = [draft EXCEPT ![w] =
            [module |-> "gauntlet", obl |-> o, verdict |-> Monitor, sourced |-> FALSE]]
      BY <1>3 DEF RunMonitor
    <2>2. [module |-> "gauntlet", obl |-> o, verdict |-> Monitor, sourced |-> FALSE] \in TraceReceipts
      BY <1>3, VerdictOfAudit DEF RunMonitor, TraceReceipts, MonitorVerdicts
    <2>3. draft' \in [Writers -> TraceReceipts \cup {None}] /\ blurred' \in BOOLEAN
      BY <1>3, <2>1, <2>2 DEF TraceTyped, RunMonitor, Starts
    <2>4. QED
      BY <1>0, <1>3, <2>3 DEF TraceTyped, RunMonitor
  <1>4. ASSUME StoreVerdict(w) PROVE TraceTyped'
    <2>1. draft[w] \in TraceReceipts /\ op = "audit"
      BY <1>4 DEF StoreVerdict, TraceTyped
    <2>2. Announced(draft[w]) \in Seq(EventsRead)
      BY <2>1, AnnouncedType
    <2>3. rcpts' \in Seq(TraceReceipts)
      BY <1>4, <2>1, AppendProperties DEF TraceTyped, StoreVerdict
    <2>4. queue' \in [Writers -> Seq(EventsRead)] /\ draft' \in [Writers -> TraceReceipts \cup {None}]
      BY <1>4, <2>2 DEF TraceTyped, StoreVerdict
    <2>5. QED
      BY <1>0, <1>4, <2>1, <2>3, <2>4 DEF TraceTyped, StoreVerdict
  <1>5. ASSUME Stamp(w) PROVE TraceTyped'
    <2>1. PICK t \in {now, now + 1} :
            stamped' = [stamped EXCEPT ![w] = [at |-> t, event |-> Head(queue[w])]] /\ now' = t
      BY <1>5 DEF Stamp
    <2>2. t \in Nat
      BY <2>1 DEF TraceTyped
    <2>3. Head(queue[w]) \in EventsRead
      BY <1>5, HeadTailProperties DEF Stamp, TraceTyped
    <2>4. [at |-> t, event |-> Head(queue[w])] \in Stamps
      BY <2>2, <2>3 DEF Stamps
    <2>5. QED
      BY <1>0, <1>5, <2>1, <2>2, <2>4 DEF TraceTyped, Stamp
  <1>6. ASSUME AppendEvent(w) PROVE TraceTyped'
    <2>1. PICK k \in Places(stamped[w]) : log' = InsertAt(log, k, stamped[w])
      BY <1>6 DEF AppendEvent
    <2>2. k \in 1..(Len(log) + 1) /\ stamped[w] \in Stamps /\ log \in Seq(Stamps)
      BY <1>6 DEF AppendEvent, Places, TraceTyped
    <2>3. log' \in Seq(Stamps)
      BY <2>1, <2>2, InsertProperties
    <2>4. Tail(queue[w]) \in Seq(EventsRead)
      <3>1. CASE queue[w] = <<>>
        BY <3>1, EmptySeq DEF TraceTyped
      <3>2. CASE queue[w] # <<>>
        BY <3>2, HeadTailProperties DEF TraceTyped
      <3>3. QED
        BY <3>1, <3>2
    <2>5. queue' \in [Writers -> Seq(EventsRead)] /\ stamped' \in [Writers -> Stamps \cup {None}]
          /\ blurred' \in BOOLEAN
      BY <1>6, <2>4 DEF TraceTyped, AppendEvent
    <2>6. QED
      BY <1>0, <1>6, <2>3, <2>5 DEF TraceTyped, AppendEvent
  <1>7. ASSUME WriterDies(w) PROVE TraceTyped'
    BY <1>0, <1>7, EmptySeq DEF TraceTyped, WriterDies
  <1>8. QED
    BY <1>1, <1>2, <1>3, <1>4, <1>5, <1>6, <1>7 DEF WriterStep

\* The log grows by its last event, and the writer has nothing more to do.
LEMMA LogGrows ==
  ASSUME TraceTyped, Sequential, NEW w \in Writers, AppendEvent(w), ~blurred'
  PROVE  /\ DOMAIN log = 1..Len(log) /\ Len(log) \in Nat
         /\ DOMAIN log' = 1..(Len(log) + 1)
         /\ log'[Len(log) + 1] = stamped[w]
         /\ \A i \in 1..Len(log) : log'[i] = log[i]
         /\ stamped[w].event = Head(queue[w])
         /\ queue'[w] = <<>>
         /\ \A u \in Writers \ {w} : queue'[u] = queue[u]
  <1>1. /\ log \in Seq(Stamps) /\ Len(log) \in Nat /\ DOMAIN log = 1..Len(log)
        /\ stamped[w] \in Stamps
    BY LenProperties DEF TraceTyped, AppendEvent
  <1>2. log' = InsertAt(log, Len(log) + 1, stamped[w]) /\ Len(log) + 1 \in 1..(Len(log) + 1)
    BY <1>1, AppendedLast
  <1>3. /\ DOMAIN log' = 1..(Len(log) + 1) /\ log'[Len(log) + 1] = stamped[w]
        /\ \A i \in 1..Len(log) : log'[Moved(Len(log) + 1, i)] = log[i]
    BY <1>1, <1>2, InsertProperties
  <1>4. \A i \in 1..Len(log) : Moved(Len(log) + 1, i) = i
    BY <1>1 DEF Moved
  <1>5. /\ queue[w] \in Seq(EventsRead) /\ Len(queue[w]) = 1 /\ queue[w] # <<>>
        /\ stamped[w].event = Head(queue[w])
    BY DEF AppendEvent, Sequential, TraceTyped
  <1>6. Tail(queue[w]) \in Seq(EventsRead) /\ Len(Tail(queue[w])) = 0
    BY <1>5, HeadTailProperties
  <1>7. Tail(queue[w]) = <<>>
    BY <1>6, EmptySeq
  <1>8. QED
    BY <1>1, <1>3, <1>4, <1>5, <1>7 DEF AppendEvent, TraceTyped

\* A writer that starts finds nobody else at work.
LEMMA StartsAlone ==
  ASSUME TraceInv, NEW w \in Writers, Starts(w), ~blurred'
  PROVE  /\ ~blurred /\ Sequential
         /\ \A u \in Writers : queue[u] = <<>> /\ draft[u] = None /\ stamped[u] = None
  BY DEF Starts, Busy, TraceInv, Sequential

\* As long as nothing is blurred, one writer works at a time and the log is in order.
LEMMA SequentialKeeps ==
  ASSUME TraceInv, NEW w \in Writers, WriterStep(w), ~blurred'
  PROVE  Sequential' /\ Sequential /\ ~blurred
  <1>1. ~blurred /\ Sequential /\ TraceTyped
    <2>1. ~blurred
      <3>1. CASE Emit(w) \/ StoreReceipt(w) \/ RunMonitor(w)
        BY <3>1 DEF Emit, StoreReceipt, RunMonitor, Starts
      <3>2. CASE StoreVerdict(w) \/ Stamp(w) \/ AppendEvent(w) \/ WriterDies(w)
        BY <3>2 DEF StoreVerdict, Stamp, AppendEvent, WriterDies
      <3>3. QED
        BY <3>1, <3>2 DEF WriterStep
    <2>2. QED
      BY <2>1 DEF TraceInv
  <1>2. ASSUME Emit(w) PROVE Sequential'
    <2>1. PICK e \in Inputs[op] : queue' = [queue EXCEPT ![w] = <<e>>]
      BY <1>2 DEF Emit
    <2>2. \A u \in Writers : queue[u] = <<>> /\ draft[u] = None /\ stamped[u] = None
      BY <1>2, StartsAlone DEF Emit
    <2>3. \A u \in Writers : queue'[u] = IF u = w THEN <<e>> ELSE <<>>
      BY <1>1, <2>1, <2>2 DEF TraceTyped
    <2>4. QED
      BY <1>1, <1>2, <2>2, <2>3 DEF Sequential, Emit, Busy
  <1>3. ASSUME StoreReceipt(w) PROVE Sequential'
    <2>1. PICK r \in ReceiptsOf[op] : queue' = [queue EXCEPT ![w] = Announced(r)]
      BY <1>3 DEF StoreReceipt
    <2>2. \A u \in Writers : queue[u] = <<>> /\ draft[u] = None /\ stamped[u] = None
      BY <1>3, StartsAlone DEF StoreReceipt
    <2>3. r \in TraceReceipts /\ r.module # "gauntlet"
      BY <1>1, OthersReceipt DEF TraceTyped
    <2>5. Announced(r) # <<>> => Len(Announced(r)) = 1
      BY <2>3, AnnouncedType DEF TraceReceipts
    <2>6. \A u \in Writers : queue'[u] = IF u = w THEN Announced(r) ELSE <<>>
      BY <1>1, <2>1, <2>2 DEF TraceTyped
    <2>7. QED
      BY <1>1, <1>3, <2>2, <2>5, <2>6 DEF Sequential, StoreReceipt, Busy
  <1>4. ASSUME RunMonitor(w) PROVE Sequential'
    <2>1. \A u \in Writers : queue[u] = <<>> /\ draft[u] = None /\ stamped[u] = None
      BY <1>4, StartsAlone DEF RunMonitor
    <2>2. \A u \in Writers : u # w => draft'[u] = None
      BY <1>1, <1>4, <2>1 DEF TraceTyped, RunMonitor
    <2>3. QED
      BY <1>1, <1>4, <2>1, <2>2 DEF Sequential, RunMonitor, Busy
  <1>5. ASSUME StoreVerdict(w) PROVE Sequential'
    <2>1. draft[w] \in TraceReceipts /\ draft[w] # None /\ op = "audit" /\ queue[w] = <<>>
      BY <1>1, <1>5 DEF StoreVerdict, TraceTyped, Sequential
    <2>3. Announced(draft[w]) # <<>> => Len(Announced(draft[w])) = 1
      BY <2>1, AnnouncedType
    <2>4. \A u \in Writers : u # w => queue[u] = <<>> /\ draft[u] = None
      BY <1>1, <2>1 DEF Sequential, Busy
    <2>5. \A u \in Writers : /\ queue'[u] = IF u = w THEN Announced(draft[w]) ELSE <<>>
                             /\ draft'[u] = None /\ stamped'[u] = None
      BY <1>1, <1>5, <2>1, <2>4 DEF StoreVerdict, TraceTyped, Sequential
    <2>6. QED
      BY <1>1, <1>5, <2>3, <2>5 DEF Sequential, StoreVerdict, Busy
  <1>6. ASSUME Stamp(w) PROVE Sequential'
    <2>1. PICK t \in {now, now + 1} :
            stamped' = [stamped EXCEPT ![w] = [at |-> t, event |-> Head(queue[w])]] /\ now' = t
      BY <1>6 DEF Stamp
    <2>2. t \in Nat /\ now \in Nat /\ now <= t
      BY <1>1, <2>1 DEF TraceTyped
    <2>3. \A i \in DOMAIN log : log[i].at \in Nat
      <3>1. \A i \in DOMAIN log : log[i] \in Stamps
        BY <1>1 DEF TraceTyped
      <3>2. QED
        BY <3>1 DEF Stamps
    <2>4. \A i \in DOMAIN log : log[i].at <= t
      BY <1>1, <2>2, <2>3 DEF Sequential
    <2>5. \A u \in Writers : u # w => stamped[u] = None
      BY <1>1, <1>6 DEF Sequential, Busy, Stamp
    <2>6. \A u \in Writers : stamped'[u] # None =>
             u = w /\ stamped'[w].at = t /\ stamped'[w].event = Head(queue[w])
      BY <1>1, <2>1, <2>5 DEF TraceTyped
    <2>7. QED
      BY <1>1, <1>6, <2>1, <2>2, <2>4, <2>6 DEF Sequential, Stamp, Busy
  <1>7. ASSUME AppendEvent(w) PROVE Sequential'
    <2>1. queue[w] # <<>> /\ stamped[w].at <= now /\ draft[w] = None
      BY <1>1, <1>7 DEF Sequential, AppendEvent
    <2>2. \A u \in Writers : u # w => queue[u] = <<>> /\ draft[u] = None
      BY <1>1, <2>1 DEF Sequential, Busy
    <2>3. \A u \in Writers : queue'[u] = <<>> /\ draft'[u] = None /\ stamped'[u] = None
      BY <1>1, <1>7, <2>1, <2>2, LogGrows DEF AppendEvent, TraceTyped, Sequential
    <2>4. \A i \in DOMAIN log' : log'[i].at <= now
      <3>1. \A i \in DOMAIN log' : i \in 1..Len(log) \/ i = Len(log) + 1
        BY <1>1, <1>7, LogGrows
      <3>2. QED
        BY <1>1, <1>7, <2>1, <3>1, LogGrows DEF Sequential
    <2>5. QED
      BY <1>7, <2>3, <2>4 DEF Sequential, AppendEvent, Busy
  <1>8. QED
    BY <1>1, <1>2, <1>3, <1>4, <1>5, <1>6, <1>7 DEF WriterStep, WriterDies

-----------------------------------------------------------------------------
(* What is stored and what the log says                                      *)

\* A receipt is stored: its verdict is the last of its obligation, the others' stay.
LEMMA ReceiptAppended ==
  ASSUME rcpts \in Seq(TraceReceipts), NEW r \in TraceReceipts, rcpts' = Append(rcpts, r)
  PROVE  /\ DOMAIN rcpts = 1..Len(rcpts) /\ Len(rcpts) \in Nat
         /\ DOMAIN rcpts' = 1..(Len(rcpts) + 1) /\ rcpts'[Len(rcpts) + 1] = r
         /\ \A i \in 1..Len(rcpts) : rcpts'[i] = rcpts[i]
         /\ LastVerdict(r.obl, r.verdict)'
         /\ \A o : o # r.obl => StoredFor(o)' = StoredFor(o)
         /\ \A o, v : o # r.obl /\ LastVerdict(o, v) => LastVerdict(o, v)'
  <1>1. /\ DOMAIN rcpts = 1..Len(rcpts) /\ Len(rcpts) \in Nat
        /\ DOMAIN rcpts' = 1..(Len(rcpts) + 1) /\ rcpts'[Len(rcpts) + 1] = r
        /\ \A i \in 1..Len(rcpts) : rcpts'[i] = rcpts[i]
    <2>1. rcpts' \in Seq(TraceReceipts) /\ Len(rcpts') = Len(rcpts) + 1
      BY AppendProperties
    <2>2. QED
      BY <2>1, AppendProperties, LenProperties
  <1>2. LastVerdict(r.obl, r.verdict)'
    <2>1. Len(rcpts) + 1 \in DOMAIN rcpts' /\ \A j \in DOMAIN rcpts' : j <= Len(rcpts) + 1
      BY <1>1
    <2>2. QED
      BY <1>1, <2>1 DEF LastVerdict
  <1>3. ASSUME NEW o, o # r.obl PROVE StoredFor(o)' = StoredFor(o)
    <2>1. \A i \in DOMAIN rcpts' : i \in 1..Len(rcpts) \/ i = Len(rcpts) + 1
      BY <1>1
    <2>2. \A i \in 1..Len(rcpts) : i \in DOMAIN rcpts'
      BY <1>1
    <2>3. QED
      BY <1>1, <1>3, <2>1, <2>2 DEF StoredFor
  <1>4. ASSUME NEW o, NEW v, o # r.obl, LastVerdict(o, v) PROVE LastVerdict(o, v)'
    <2>1. PICK i \in DOMAIN rcpts :
            /\ rcpts[i].obl = o /\ rcpts[i].verdict = v
            /\ \A j \in DOMAIN rcpts : rcpts[j].obl = o => j <= i
      BY <1>4 DEF LastVerdict
    <2>2. i \in DOMAIN rcpts' /\ rcpts'[i] = rcpts[i]
      BY <1>1
    <2>3. \A j \in DOMAIN rcpts' : rcpts'[j].obl = o => j \in DOMAIN rcpts /\ rcpts[j].obl = o
      BY <1>1, <1>4
    <2>4. QED
      BY <2>1, <2>2, <2>3 DEF LastVerdict
  <1>5. QED
    BY <1>1, <1>2, <1>3, <1>4

\* Storing a receipt that is announced keeps what is stored and what is told linked.
LEMMA StoringKeepsLinked ==
  ASSUME TraceTyped, op = "audit", op' = op, Linked, NEW r \in TraceReceipts, NEW w \in Writers,
         \A u \in Writers : queue[u] = <<>>,
         rcpts' = Append(rcpts, r), queue' = [queue EXCEPT ![w] = Announced(r)], log' = log
  PROVE  Linked'
  <1> DEFINE e == [type |-> "obligation.state", obl |-> r.obl, state |-> r.verdict]
  <1>1. Announced(r) = <<e>> /\ e.type = "obligation.state" /\ e.obl = r.obl /\ e.state = r.verdict
    BY DEF Announced
  <1> HIDE DEF e
  <1>2. \A u \in Writers : queue'[u] = IF u = w THEN <<e>> ELSE <<>>
    BY <1>1 DEF TraceTyped
  <1>3. \A u \in Writers : \A o, v : Announces(u, o, v)' <=> u = w /\ o = r.obl /\ v = r.verdict
    BY <1>1, <1>2 DEF Announces
  <1>4. \A u \in Writers : \A o, v : ~Announces(u, o, v)
    BY DEF Announces
  <1>5. ASSUME NEW o \in Marks, StoredFor(o)'
        PROVE  \E v \in MonitorVerdicts :
                 LastVerdict(o, v)' /\ (ReadState(o, v)' \/ \E u \in Writers : Announces(u, o, v)')
    <2>1. CASE o = r.obl
      <3>1. LastVerdict(o, r.verdict)' /\ Announces(w, o, r.verdict)' /\ r.verdict \in MonitorVerdicts
        BY <1>3, <2>1, ReceiptAppended DEF TraceTyped, TraceReceipts
      <3>2. QED
        BY <3>1
    <2>2. CASE o # r.obl
      <3>1. StoredFor(o)
        BY <1>5, <2>2, ReceiptAppended DEF TraceTyped
      <3>2. PICK v \in MonitorVerdicts : LastVerdict(o, v) /\ ReadState(o, v)
        BY <1>4, <3>1 DEF Linked
      <3>3. LastVerdict(o, v)'
        BY <2>2, <3>2, ReceiptAppended DEF TraceTyped
      <3>4. ReadState(o, v)'
        BY <3>2 DEF ReadState, StatesOf, Typed, Event
      <3>5. QED
        BY <3>3, <3>4
    <2>3. QED
      BY <2>1, <2>2
  <1>6. \A u \in Writers, o \in Marks, v \in MonitorVerdicts :
          Announces(u, o, v)' => LastVerdict(o, v)'
    BY <1>3, ReceiptAppended DEF TraceTyped
  <1>7. QED
    BY <1>5, <1>6 DEF Linked

\* The event appended is what the log says of its obligation.
LEMMA AppendingKeepsLinked ==
  ASSUME TraceTyped, Sequential, Linked, NEW w \in Writers, AppendEvent(w), ~blurred'
  PROVE  Linked'
  <1>0. PICK n, e : n = Len(log) + 1 /\ e = Head(queue[w])
    OBVIOUS
  <1>1. /\ DOMAIN log = 1..Len(log) /\ Len(log) \in Nat
        /\ DOMAIN log' = 1..n /\ log'[n].event = e /\ n = Len(log) + 1
        /\ \A i \in 1..Len(log) : log'[i] = log[i]
    BY <1>0, LogGrows
  <1>2. /\ queue[w] # <<>> /\ rcpts' = rcpts
        /\ \A u \in Writers : u # w => queue[u] = <<>>
    BY DEF AppendEvent, Sequential, Busy
  <1>3. \A u \in Writers : queue'[u] = <<>>
    BY <1>2, LogGrows
  <1>4. \A o, v : StoredFor(o)' = StoredFor(o) /\ (LastVerdict(o, v) => LastVerdict(o, v)')
    BY <1>2 DEF StoredFor, LastVerdict
  <1>5. \A u \in Writers : \A o, v : ~Announces(u, o, v)'
    BY <1>3 DEF Announces
  <1>6. ASSUME NEW o, NEW v, Announces(w, o, v) PROVE ReadState(o, v)'
    <2>1. e.type = "obligation.state" /\ e.obl = o /\ e.state = v
      BY <1>0, <1>6 DEF Announces
    <2>2. n \in DOMAIN log' /\ \A j \in DOMAIN log' : j <= n
      BY <1>1
    <2>3. n \in StatesOf(o)' /\ Event(n)' = e
      BY <1>1, <2>1, <2>2 DEF StatesOf, Typed, Event
    <2>4. \A j \in StatesOf(o)' : j <= n
      BY <2>2 DEF StatesOf, Typed
    <2>5. QED
      BY <2>1, <2>3, <2>4 DEF ReadState
  <1>7. ASSUME NEW o, NEW v, ReadState(o, v), ~(e.type = "obligation.state" /\ e.obl = o)
        PROVE  ReadState(o, v)'
    <2>1. PICK i \in StatesOf(o) : Event(i).state = v /\ \A j \in StatesOf(o) : j <= i
      BY <1>7 DEF ReadState
    <2>2. \A j \in DOMAIN log' : j \in 1..Len(log) \/ j = n
      BY <1>1
    <2>3. \A j \in StatesOf(o)' : j \in StatesOf(o)
      BY <1>1, <1>7, <2>2 DEF StatesOf, Typed, Event
    <2>4. i \in StatesOf(o)' /\ Event(i)' = Event(i)
      BY <1>1, <2>1 DEF StatesOf, Typed, Event
    <2>5. QED
      BY <2>1, <2>3, <2>4 DEF ReadState, Event
  <1>8. ASSUME NEW o \in Marks, StoredFor(o)'
        PROVE  \E v \in MonitorVerdicts : LastVerdict(o, v)' /\ ReadState(o, v)'
    <2>1. PICK v \in MonitorVerdicts :
            LastVerdict(o, v) /\ (ReadState(o, v) \/ \E u \in Writers : Announces(u, o, v))
      BY <1>4, <1>8 DEF Linked
    <2>2. CASE \E u \in Writers : Announces(u, o, v)
      <3>1. Announces(w, o, v)
        BY <1>2, <2>2 DEF Announces
      <3>2. QED
        BY <1>4, <1>6, <2>1, <3>1
    <2>3. CASE ReadState(o, v)
      <3>1. CASE e.type = "obligation.state" /\ e.obl = o
        <4>1. e.state \in MonitorVerdicts /\ Announces(w, o, e.state)
          <5>1. e \in EventsRead
            BY <1>0, <1>2, HeadTailProperties DEF TraceTyped
          <5>2. QED
            BY <1>0, <1>2, <3>1, <5>1, StateOfEvent DEF Announces, TraceTyped
        <4>2. LastVerdict(o, e.state)
          BY <4>1 DEF Linked
        <4>3. QED
          BY <1>4, <1>6, <4>1, <4>2
      <3>2. CASE ~(e.type = "obligation.state" /\ e.obl = o)
        BY <1>4, <1>7, <2>1, <2>3, <3>2
      <3>3. QED
        BY <3>1, <3>2
    <2>4. QED
      BY <2>1, <2>2, <2>3
  <1>9. QED
    BY <1>5, <1>8 DEF Linked

\* As long as nothing is blurred, the log says what the receipts say, but for the event
\* still to be appended.
LEMMA LinkedKeeps ==
  ASSUME TraceInv, op = "audit", NEW w \in Writers, WriterStep(w), ~blurred'
  PROVE  Linked'
  <1>1. TraceTyped /\ Sequential /\ Linked /\ ~blurred
    BY SequentialKeeps DEF TraceInv
  <1>2. ASSUME Emit(w) PROVE Linked'
    <2>1. PICK e \in Inputs[op] : queue' = [queue EXCEPT ![w] = <<e>>]
      BY <1>2 DEF Emit
    <2>2. e.type # "obligation.state"
      BY <1>1, <2>1, TraceAssumption, InputTypes DEF TraceTyped
    <2>3. \A u \in Writers : queue[u] = <<>>
      BY <1>2, StartsAlone DEF Emit
    <2>4. \A u \in Writers : queue'[u] = IF u = w THEN <<e>> ELSE <<>>
      BY <1>1, <2>1, <2>3 DEF TraceTyped
    <2>5. \A u \in Writers : \A o, v : ~Announces(u, o, v) /\ ~Announces(u, o, v)'
      BY <2>2, <2>3, <2>4 DEF Announces
    <2>6. \A o, v : /\ StoredFor(o)' = StoredFor(o)
                    /\ LastVerdict(o, v)' = LastVerdict(o, v)
                    /\ ReadState(o, v)' = ReadState(o, v)
      BY <1>2 DEF Emit, StoredFor, LastVerdict, ReadState, StatesOf, Typed, Event
    <2>7. QED
      BY <1>1, <2>5, <2>6 DEF Linked
  <1>3. ASSUME StoreReceipt(w) PROVE Linked'
    <2>1. PICK r \in ReceiptsOf[op] :
            rcpts' = Append(rcpts, r) /\ queue' = [queue EXCEPT ![w] = Announced(r)]
      BY <1>3 DEF StoreReceipt
    <2>2. r \in TraceReceipts
      BY <1>1, OthersReceipt DEF TraceTyped
    <2>3. \A u \in Writers : queue[u] = <<>>
      BY <1>3, StartsAlone DEF StoreReceipt
    <2>4. log' = log /\ op' = op
      BY <1>3 DEF StoreReceipt
    <2>5. QED
      BY <1>1, <2>1, <2>2, <2>3, <2>4, StoringKeepsLinked
  <1>4. ASSUME StoreVerdict(w) PROVE Linked'
    <2>1. draft[w] \in TraceReceipts /\ draft[w] # None
      BY <1>1, <1>4 DEF StoreVerdict, TraceTyped
    <2>2. \A u \in Writers : queue[u] = <<>>
      BY <1>1, <2>1 DEF Sequential, Busy
    <2>3. /\ rcpts' = Append(rcpts, draft[w]) /\ queue' = [queue EXCEPT ![w] = Announced(draft[w])]
          /\ log' = log /\ op' = op
      BY <1>4 DEF StoreVerdict
    <2>4. QED
      BY <1>1, <2>1, <2>2, <2>3, StoringKeepsLinked
  <1>5. ASSUME AppendEvent(w) PROVE Linked'
    BY <1>1, <1>5, AppendingKeepsLinked
  <1>6. ASSUME RunMonitor(w) \/ Stamp(w) PROVE Linked'
    <2>1. UNCHANGED <<queue, rcpts, log>>
      BY <1>6 DEF RunMonitor, Stamp
    <2>2. \A u \in Writers : \A o, v : Announces(u, o, v)' = Announces(u, o, v)
      BY <2>1 DEF Announces
    <2>3. \A o, v : /\ StoredFor(o)' = StoredFor(o)
                    /\ LastVerdict(o, v)' = LastVerdict(o, v)
                    /\ ReadState(o, v)' = ReadState(o, v)
      BY <2>1 DEF StoredFor, LastVerdict, ReadState, StatesOf, Typed, Event
    <2>4. QED
      BY <1>1, <2>2, <2>3 DEF Linked
  <1>7. QED
    BY <1>2, <1>3, <1>4, <1>5, <1>6 DEF WriterStep, WriterDies

\* An audit that clears while nobody writes has read the last verdict of each
\* obligation, and read it CLEARED.
LEMMA ClearedAuditReads ==
  ASSUME TraceTyped, Linked, op = "audit", Audit = "CLEARED",
         \A u \in Writers : queue[u] = <<>>, NEW o \in Marks, StoredFor(o)
  PROVE  LastVerdict(o, "CLEARED")
  <1>1. \A u \in Writers : \A v : ~Announces(u, o, v)
    BY DEF Announces
  <1>2. PICK v \in MonitorVerdicts : LastVerdict(o, v) /\ ReadState(o, v)
    BY <1>1 DEF Linked
  <1>3. PICK i \in StatesOf(o) : Event(i).state = v /\ \A j \in StatesOf(o) : j <= i
    BY <1>2 DEF ReadState
  <1>4. StatesOf(o) \in SUBSET Nat
    BY LenProperties DEF StatesOf, Typed, TraceTyped
  <1>5. LatestState(o) = v
    BY <1>3, <1>4, MaxIs DEF LatestState
  <1>6. o \in Stated
    BY <1>3 DEF StatesOf, Stated, All
  <1>7. LatestState(o) = "CLEARED"
    BY <1>6 DEF Audit
  <1>8. QED
    BY <1>2, <1>5, <1>7

\* As long as nothing is blurred, an objection of the monitors is followed by a CLEARED
\* receipt only after somebody else's.
LEMMA JudgedKeeps ==
  ASSUME TraceInv, op = "audit", NEW w \in Writers, WriterStep(w), ~blurred'
  PROVE  Judged'
  <1>1. TraceTyped /\ Sequential /\ Linked /\ Judged /\ ~blurred
    BY SequentialKeeps DEF TraceInv
  <1>2. ASSUME UNCHANGED <<rcpts, draft>> PROVE Judged'
    BY <1>1, <1>2 DEF Judged, Objects, Overruled
  \* A receipt is stored: what it overrules stays overruled.
  <1>3. ASSUME NEW r \in TraceReceipts, rcpts' = Append(rcpts, r),
               \A u \in Writers : draft'[u] = None,
               r.module = "gauntlet" /\ r.verdict = "CLEARED" =>
                 \A i \in DOMAIN rcpts : Objects(i) => Overruled(i)
        PROVE  Judged'
    <2>1. /\ DOMAIN rcpts = 1..Len(rcpts) /\ Len(rcpts) \in Nat
          /\ DOMAIN rcpts' = 1..(Len(rcpts) + 1) /\ rcpts'[Len(rcpts) + 1] = r
          /\ \A i \in 1..Len(rcpts) : rcpts'[i] = rcpts[i]
      BY <1>1, <1>3, ReceiptAppended DEF TraceTyped
    <2>2. ASSUME NEW i \in DOMAIN rcpts, Overruled(i) PROVE Overruled(i)'
      <3>1. PICK j \in DOMAIN rcpts :
              j > i /\ rcpts[j].obl = rcpts[i].obl /\ rcpts[j].module # "gauntlet"
        BY <2>2 DEF Overruled
      <3>2. j \in DOMAIN rcpts' /\ rcpts'[j] = rcpts[j] /\ rcpts'[i] = rcpts[i]
        BY <2>1
      <3>3. QED
        BY <3>1, <3>2 DEF Overruled
    <2>3. ASSUME NEW i \in DOMAIN rcpts', NEW m \in DOMAIN rcpts', Objects(i)', m > i,
                 rcpts'[m].obl = rcpts'[i].obl, rcpts'[m].verdict = "CLEARED"
          PROVE  Overruled(i)'
      <3>1. i \in DOMAIN rcpts /\ rcpts'[i] = rcpts[i] /\ Objects(i)
        <4>1. i \in 1..Len(rcpts)
          BY <2>1, <2>3
        <4>2. QED
          BY <2>1, <2>3, <4>1 DEF Objects
      <3>2. CASE m \in 1..Len(rcpts)
        BY <1>1, <2>1, <2>2, <2>3, <3>1, <3>2 DEF Judged
      <3>3. CASE m = Len(rcpts) + 1 /\ r.module = "gauntlet"
        BY <1>3, <2>1, <2>2, <2>3, <3>1, <3>3
      <3>4. CASE m = Len(rcpts) + 1 /\ r.module # "gauntlet"
        BY <2>1, <2>3, <3>4 DEF Overruled
      <3>5. QED
        BY <2>1, <2>3, <3>2, <3>3, <3>4
    <2>4. QED
      BY <1>3, <2>3 DEF Judged
  <1>4. ASSUME StoreReceipt(w) PROVE Judged'
    <2>1. PICK r \in ReceiptsOf[op] : rcpts' = Append(rcpts, r)
      BY <1>4 DEF StoreReceipt
    <2>2. r \in TraceReceipts /\ r.module # "gauntlet"
      BY <1>1, OthersReceipt DEF TraceTyped
    <2>3. \A u \in Writers : draft'[u] = None
      BY <1>4, StartsAlone DEF StoreReceipt
    <2>4. QED
      BY <1>3, <2>1, <2>2, <2>3
  <1>5. ASSUME StoreVerdict(w) PROVE Judged'
    <2>1. draft[w] \in TraceReceipts /\ draft[w] # None
      BY <1>1, <1>5 DEF StoreVerdict, TraceTyped
    <2>2. \A u \in Writers : draft'[u] = None
      BY <1>1, <1>5, <2>1 DEF StoreVerdict, TraceTyped, Sequential, Busy
    <2>3. draft[w].verdict = "CLEARED" => \A i \in DOMAIN rcpts : Objects(i) => Overruled(i)
      BY <1>1, <2>1 DEF Judged
    <2>4. rcpts' = Append(rcpts, draft[w])
      BY <1>5 DEF StoreVerdict
    <2>5. QED
      BY <1>3, <2>1, <2>2, <2>3, <2>4
  \* The monitor's own verdict clears only what has been overruled.
  <1>6. ASSUME RunMonitor(w) PROVE Judged'
    <2>1. PICK p \in Marks : draft' = [draft EXCEPT ![w] =
            [module |-> "gauntlet", obl |-> p, verdict |-> Monitor, sourced |-> FALSE]]
      BY <1>6 DEF RunMonitor
    <2>2. \A u \in Writers : queue[u] = <<>> /\ draft[u] = None
      BY <1>6, StartsAlone DEF RunMonitor
    <2>3. rcpts' = rcpts
      BY <1>6 DEF RunMonitor
    <2>4. ASSUME Audit = "CLEARED", NEW i \in DOMAIN rcpts, Objects(i) PROVE Overruled(i)
      <3>1. rcpts[i].obl \in Marks /\ StoredFor(rcpts[i].obl) /\ DOMAIN rcpts \subseteq Nat
        <4>1. rcpts[i] \in TraceReceipts /\ rcpts \in Seq(TraceReceipts)
          BY <1>1, <2>4 DEF TraceTyped
        <4>2. QED
          BY <2>4, <4>1, LenProperties DEF TraceReceipts, StoredFor
      <3>2. PICK o : o = rcpts[i].obl
        OBVIOUS
      <3>3. LastVerdict(o, "CLEARED")
        BY <1>1, <2>2, <2>4, <3>1, <3>2, ClearedAuditReads
      <3>4. PICK m \in DOMAIN rcpts :
              /\ rcpts[m].obl = o /\ rcpts[m].verdict = "CLEARED"
              /\ \A j \in DOMAIN rcpts : rcpts[j].obl = o => j <= m
        BY <3>3 DEF LastVerdict
      <3>5. m > i
        BY <2>4, <3>1, <3>2, <3>4 DEF Objects
      <3>6. QED
        BY <1>1, <2>4, <3>2, <3>4, <3>5 DEF Judged
    <2>5. \A u \in Writers : draft'[u] # None => draft'[u].verdict = Audit
      BY <1>1, <2>1, <2>2, VerdictOfAudit DEF TraceTyped
    <2>6. \A i \in DOMAIN rcpts' : /\ i \in DOMAIN rcpts /\ (Objects(i)' => Objects(i))
                                   /\ (Overruled(i) => Overruled(i)')
      BY <2>3 DEF Objects, Overruled
    <2>7. ASSUME NEW u \in Writers, draft'[u] # None, draft'[u].verdict = "CLEARED",
                 NEW i \in DOMAIN rcpts', Objects(i)'
          PROVE  Overruled(i)'
      BY <2>4, <2>5, <2>6, <2>7
    <2>8. ASSUME NEW i \in DOMAIN rcpts', NEW m \in DOMAIN rcpts', Objects(i)', m > i,
                 rcpts'[m].obl = rcpts'[i].obl, rcpts'[m].verdict = "CLEARED"
          PROVE  Overruled(i)'
      BY <1>1, <2>3, <2>6, <2>8 DEF Judged
    <2>9. QED
      BY <2>7, <2>8 DEF Judged
  <1>7. ASSUME Emit(w) \/ Stamp(w) \/ AppendEvent(w) PROVE Judged'
    BY <1>2, <1>7 DEF Emit, Stamp, AppendEvent
  <1>8. QED
    BY <1>4, <1>5, <1>6, <1>7 DEF WriterStep, WriterDies

\* The invariant of the log holds in every reachable state, whichever operation is
\* watched, with overlapping writers and deaths.
THEOREM TraceInvariant == TraceSpec => []TraceInv
  <1>1. TraceInv /\ [TraceNext]_tvars => TraceInv'
    <2> SUFFICES ASSUME TraceInv, [TraceNext]_tvars PROVE TraceInv'
      OBVIOUS
    <2>1. ASSUME NEW w \in Writers, WriterStep(w) PROVE TraceInv'
      <3>1. TraceTyped' /\ op' = op
        BY <2>1, TraceTypeKeeps DEF TraceInv, WriterStep, Emit, StoreReceipt, RunMonitor,
             StoreVerdict, Stamp, AppendEvent, WriterDies
      <3>2. QED
        BY <2>1, <3>1, SequentialKeeps, LinkedKeeps, JudgedKeeps DEF TraceInv
    <2>2. CASE UNCHANGED tvars
      <3>1. TraceTyped' = TraceTyped
        BY <2>2 DEF tvars, TraceTyped, Stamps, EventsRead
      <3>2. Sequential' = Sequential
        BY <2>2 DEF tvars, Sequential, Busy
      <3>3. Judged' = Judged
        BY <2>2 DEF tvars, Judged, Objects, Overruled
      <3>4. Linked' = Linked
        BY <2>2 DEF tvars, Linked, StoredFor, LastVerdict, ReadState, Announces, StatesOf, Typed, Event
      <3>5. op' = op /\ blurred' = blurred
        BY <2>2 DEF tvars
      <3>6. QED
        BY <3>1, <3>2, <3>3, <3>4, <3>5 DEF TraceInv
    <2>3. QED
      BY <2>1, <2>2 DEF TraceNext
  <1>2. QED
    BY TraceInitial, <1>1, PTL DEF TraceSpec

\* An audit that clears is right about the receipts: each obligation's last receipt is
\* CLEARED, for any writers, marks and bounds.
THEOREM AuditMatches == TraceSpec => []ClearedAuditMatchesReceipts
  <1>1. TraceInv => ClearedAuditMatchesReceipts
    <2> SUFFICES ASSUME TraceInv, op = "audit", Audit = "CLEARED", ~blurred, Busy = {},
                        NEW r \in ToSet(rcpts)
                 PROVE  LastReceipt(r.obl).verdict = "CLEARED"
      BY DEF ClearedAuditMatchesReceipts
    <2>1. TraceTyped /\ Linked /\ \A u \in Writers : queue[u] = <<>>
      BY DEF TraceInv, Busy
    <2>2. PICK o : o = r.obl
      OBVIOUS
    <2>3. o \in Marks /\ StoredFor(o) /\ DOMAIN rcpts \subseteq Nat
      <3>1. PICK i \in DOMAIN rcpts : r = rcpts[i]
        BY DEF ToSet
      <3>2. rcpts[i] \in TraceReceipts /\ rcpts \in Seq(TraceReceipts)
        BY <2>1 DEF TraceTyped
      <3>3. QED
        BY <2>2, <3>1, <3>2, LenProperties DEF TraceReceipts, StoredFor
    <2>4. LastVerdict(o, "CLEARED")
      BY <2>1, <2>3, ClearedAuditReads
    <2> DEFINE P == {i \in DOMAIN rcpts : rcpts[i].obl = o}
    <2>5. PICK m \in P : rcpts[m].verdict = "CLEARED" /\ \A j \in P : j <= m
      BY <2>4 DEF LastVerdict
    <2>6. Max(P) = m
      BY <2>3, <2>5, MaxIs
    <2>7. QED
      BY <2>2, <2>5, <2>6 DEF LastReceipt
  <1>2. QED
    BY TraceInvariant, <1>1, PTL

\* An audit that was once not CLEARED clears again only after a receipt of somebody
\* else for the same obligation.
THEOREM AuditOwnVerdicts == TraceSpec => []AuditJudgesItself
  <1>1. TraceInv => AuditJudgesItself
    <2> SUFFICES ASSUME TraceInv, op = "audit", Audit = "CLEARED", ~blurred, Busy = {},
                        NEW i \in DOMAIN rcpts, Objects(i)
                 PROVE  \E j \in (i + 1)..Len(rcpts) :
                          rcpts[j].obl = rcpts[i].obl /\ rcpts[j].module # "gauntlet"
      BY DEF AuditJudgesItself, Objects
    <2>1. TraceTyped /\ Linked /\ Judged /\ \A u \in Writers : queue[u] = <<>>
      BY DEF TraceInv, Busy
    <2>2. PICK o : o = rcpts[i].obl
      OBVIOUS
    <2>3. o \in Marks /\ StoredFor(o) /\ DOMAIN rcpts = 1..Len(rcpts) /\ Len(rcpts) \in Nat
      <3>1. rcpts[i] \in TraceReceipts /\ rcpts \in Seq(TraceReceipts)
        BY <2>1 DEF TraceTyped
      <3>2. QED
        BY <2>2, <3>1, LenProperties DEF TraceReceipts, StoredFor
    <2>4. PICK m \in DOMAIN rcpts :
            /\ rcpts[m].obl = o /\ rcpts[m].verdict = "CLEARED"
            /\ \A j \in DOMAIN rcpts : rcpts[j].obl = o => j <= m
      BY <2>1, <2>3, ClearedAuditReads DEF LastVerdict
    <2>5. m > i
      BY <2>2, <2>3, <2>4 DEF Objects
    <2>6. Overruled(i)
      BY <2>1, <2>2, <2>4, <2>5 DEF Judged
    <2>7. QED
      BY <2>3, <2>6 DEF Overruled
  <1>2. QED
    BY TraceInvariant, <1>1, PTL

-----------------------------------------------------------------------------
(* An event inserted anywhere into the log                                   *)

\* Inserting moves positions and changes no other event.
LEMMA MovedOrder ==
  ASSUME NEW k \in Nat, NEW i \in Nat, NEW j \in Nat
  PROVE  /\ Moved(k, i) \in Nat /\ Moved(k, i) # k
         /\ Moved(k, i) <= Moved(k, j) <=> i <= j
         /\ Moved(k, i) = Moved(k, j) => i = j
  BY DEF Moved

\* Appending inserts the event at some position and keeps all others in their order.
LEMMA Inserted ==
  ASSUME TraceTyped, NEW w \in Writers, AppendEvent(w)
  PROVE  \E k \in 1..(Len(log) + 1) :
           /\ DOMAIN log = 1..Len(log) /\ Len(log) \in Nat
           /\ DOMAIN log' = 1..(Len(log) + 1)
           /\ Event(k)' = stamped[w].event
           /\ \A i \in DOMAIN log : Moved(k, i) \in DOMAIN log' /\ Event(Moved(k, i))' = Event(i)
           /\ \A j \in DOMAIN log' : j # k => \E i \in DOMAIN log : j = Moved(k, i)
  <1>1. PICK k \in Places(stamped[w]) : log' = InsertAt(log, k, stamped[w])
    BY DEF AppendEvent
  <1>2. /\ log \in Seq(Stamps) /\ Len(log) \in Nat /\ DOMAIN log = 1..Len(log)
        /\ stamped[w] \in Stamps /\ k \in 1..(Len(log) + 1)
    BY LenProperties DEF TraceTyped, AppendEvent, Places
  <1>3. /\ DOMAIN log' = 1..(Len(log) + 1) /\ log'[k] = stamped[w]
        /\ \A i \in 1..Len(log) : log'[Moved(k, i)] = log[i]
    BY <1>1, <1>2, InsertProperties
  <1>4. Event(k)' = stamped[w].event
    BY <1>3 DEF Event
  <1>5. ASSUME NEW i \in DOMAIN log
        PROVE  Moved(k, i) \in DOMAIN log' /\ Event(Moved(k, i))' = Event(i)
    <2>1. Moved(k, i) \in DOMAIN log'
      BY <1>2, <1>3 DEF Moved
    <2>2. QED
      BY <1>2, <1>3, <2>1 DEF Event
  <1>6. ASSUME NEW j \in DOMAIN log', j # k PROVE \E i \in DOMAIN log : j = Moved(k, i)
    <2>1. CASE j < k
      BY <1>2, <1>3, <2>1 DEF Moved
    <2>2. CASE j > k
      <3>1. j - 1 \in DOMAIN log /\ j = Moved(k, j - 1)
        BY <1>2, <1>3, <2>2 DEF Moved
      <3>2. QED
        BY <3>1
    <2>3. QED
      BY <1>2, <1>3, <1>6, <2>1, <2>2
  <1>7. QED
    BY <1>2, <1>3, <1>4, <1>5, <1>6

\* The events of a type: those there were, and the one inserted.
LEMMA AllInserted ==
  ASSUME TraceTyped, NEW w \in Writers, AppendEvent(w), NEW t
  PROVE  /\ All(t) \subseteq All(t)'
         /\ stamped[w].event.type # t => All(t)' = All(t) /\ Some(t)' = Some(t)
         /\ Some(t) => Some(t)'
  <1>1. PICK k \in 1..(Len(log) + 1) :
           /\ DOMAIN log = 1..Len(log) /\ Len(log) \in Nat
           /\ DOMAIN log' = 1..(Len(log) + 1)
           /\ Event(k)' = stamped[w].event
           /\ \A i \in DOMAIN log : Moved(k, i) \in DOMAIN log' /\ Event(Moved(k, i))' = Event(i)
           /\ \A j \in DOMAIN log' : j # k => \E i \in DOMAIN log : j = Moved(k, i)
    BY Inserted
  <1>2. \A i \in Typed(t) : Moved(k, i) \in Typed(t)' /\ Event(Moved(k, i))' = Event(i)
    BY <1>1 DEF Typed
  <1>3. stamped[w].event.type # t =>
          \A j \in Typed(t)' : \E i \in Typed(t) : j = Moved(k, i) /\ Event(j)' = Event(i)
    BY <1>1 DEF Typed
  <1>4. All(t) \subseteq All(t)'
    BY <1>2 DEF All
  <1>5. stamped[w].event.type # t => All(t)' \subseteq All(t)
    BY <1>3 DEF All
  <1>6. (Some(t) => Some(t)') /\ (stamped[w].event.type # t => (Some(t)' => Some(t)))
    BY <1>2, <1>3 DEF Some
  <1>7. QED
    BY <1>4, <1>5, <1>6 DEF Some

\* Q are the positions P after the insertion at k.
MovesTo(k, P, Q) ==
  (\A i \in P : Moved(k, i) \in Q) /\ (\A j \in Q : \E i \in P : j = Moved(k, i))
LEMMA MaxMoved ==
  ASSUME NEW k \in Nat, NEW P \in SUBSET Nat, NEW Q, MovesTo(k, P, Q),
         NEW m \in P, \A i \in P : i <= m
  PROVE  Max(P) = m /\ Max(Q) = Moved(k, m)
  <1>1. Max(P) = m
    BY MaxIs
  <1>2. Q \in SUBSET Nat /\ Moved(k, m) \in Q
    BY MovedOrder DEF MovesTo
  <1>3. \A j \in Q : j <= Moved(k, m)
    BY MovedOrder DEF MovesTo
  <1>4. Max(Q) = Moved(k, m)
    BY <1>2, <1>3, MaxIs
  <1>5. QED
    BY <1>1, <1>4

\* The state of an obligation, and the hash of an artifact, do not change by an event
\* of another type.
LEMMA LatestKept ==
  ASSUME TraceTyped, NEW w \in Writers, AppendEvent(w),
         stamped[w].event.type # "obligation.state", NEW o, StatesOf(o) # {}
  PROVE  LatestState(o)' = LatestState(o)
  <1>1. PICK k \in 1..(Len(log) + 1) :
           /\ DOMAIN log = 1..Len(log) /\ Len(log) \in Nat
           /\ DOMAIN log' = 1..(Len(log) + 1)
           /\ Event(k)' = stamped[w].event
           /\ \A i \in DOMAIN log : Moved(k, i) \in DOMAIN log' /\ Event(Moved(k, i))' = Event(i)
           /\ \A j \in DOMAIN log' : j # k => \E i \in DOMAIN log : j = Moved(k, i)
    BY Inserted
  <1>2. PICK P, Q : P = StatesOf(o) /\ Q = StatesOf(o)'
    OBVIOUS
  <1>3. P \in SUBSET (1..Len(log)) /\ P # {}
    BY <1>1, <1>2 DEF StatesOf, Typed
  <1>4. MovesTo(k, P, Q)
    BY <1>1, <1>2 DEF StatesOf, Typed, MovesTo
  <1>5. PICK m \in P : Max(P) = m /\ Max(Q) = Moved(k, m)
    <2>1. k \in Nat /\ P \in SUBSET Nat
      BY <1>1, <1>3
    <2>2. PICK m \in P : \A i \in P : i <= m
      BY <1>1, <1>3, Greatest
    <2>3. Max(P) = m /\ Max(Q) = Moved(k, m)
      BY <1>4, <2>1, <2>2, MaxMoved
    <2>4. QED
      BY <2>3
  <1>6. LatestState(o) = Event(m).state
    BY <1>2, <1>5 DEF LatestState
  <1>7. LatestState(o)' = log'[Moved(k, m)].event.state
    BY <1>2, <1>5 DEF LatestState, Event
  <1>8. log'[Moved(k, m)].event = Event(m)
    BY <1>1, <1>3 DEF Event
  <1>9. QED
    BY <1>6, <1>7, <1>8

LEMMA HashKept ==
  ASSUME TraceTyped, NEW w \in Writers, AppendEvent(w),
         stamped[w].event.type # "artifact.claim", NEW id
  PROVE  HashOf(id)' = HashOf(id)
  <1>1. PICK k \in 1..(Len(log) + 1) :
           /\ DOMAIN log = 1..Len(log) /\ Len(log) \in Nat
           /\ DOMAIN log' = 1..(Len(log) + 1)
           /\ Event(k)' = stamped[w].event
           /\ \A i \in DOMAIN log : Moved(k, i) \in DOMAIN log' /\ Event(Moved(k, i))' = Event(i)
           /\ \A j \in DOMAIN log' : j # k => \E i \in DOMAIN log : j = Moved(k, i)
    BY Inserted
  <1> DEFINE claims == {i \in Typed("artifact.claim") : Event(i).id = id}
  <1>2. PICK P, Q : P = claims /\ Q = claims'
    OBVIOUS
  <1>3. P \in SUBSET (1..Len(log))
    BY <1>1, <1>2 DEF Typed
  <1>4. MovesTo(k, P, Q)
    BY <1>1, <1>2 DEF Typed, MovesTo
  <1>5. /\ HashOf(id) = IF P = {} THEN None ELSE Event(Max(P)).hash
        /\ HashOf(id)' = IF Q = {} THEN None ELSE log'[Max(Q)].event.hash
    BY <1>2 DEF HashOf, Event
  <1>6. CASE P = {}
    BY <1>4, <1>5, <1>6 DEF MovesTo
  <1>7. CASE P # {}
    <2>1. PICK m \in P : Max(P) = m /\ Max(Q) = Moved(k, m)
      <3>1. k \in Nat /\ P \in SUBSET Nat
        BY <1>1, <1>3
      <3>2. PICK m \in P : \A i \in P : i <= m
        BY <1>1, <1>3, <1>7, Greatest
      <3>3. Max(P) = m /\ Max(Q) = Moved(k, m)
        BY <1>4, <3>1, <3>2, MaxMoved
      <3>4. QED
        BY <3>3
    <2>2. log'[Moved(k, m)].event = Event(m)
      BY <1>1, <1>3 DEF Event
    <2>3. QED
      BY <1>4, <1>5, <1>7, <2>1, <2>2 DEF MovesTo
  <1>8. QED
    BY <1>6, <1>7

\* An event adds to the number of its type.
LEMMA CountGrows ==
  ASSUME TraceTyped, NEW w \in Writers, AppendEvent(w), NEW t, t = stamped[w].event.type
  PROVE  Count(t)' > Count(t)
  <1>1. PICK k \in 1..(Len(log) + 1) :
           /\ DOMAIN log = 1..Len(log) /\ Len(log) \in Nat
           /\ DOMAIN log' = 1..(Len(log) + 1)
           /\ Event(k)' = stamped[w].event
           /\ \A i \in DOMAIN log : Moved(k, i) \in DOMAIN log' /\ Event(Moved(k, i))' = Event(i)
           /\ \A j \in DOMAIN log' : j # k => \E i \in DOMAIN log : j = Moved(k, i)
    BY Inserted
  <1>2. PICK P, Q, R : P = Typed(t) /\ R = Typed(t)' /\ Q = {Moved(k, i) : i \in P}
    OBVIOUS
  <1>3. P \in SUBSET (1..Len(log)) /\ IsFiniteSet(P)
    <2>1. P \in SUBSET (1..Len(log))
      BY <1>1, <1>2 DEF Typed
    <2>2. IsFiniteSet(1..Len(log))
      BY <1>1, FS_Interval
    <2>3. QED
      BY <2>1, <2>2, FS_Subset
  <1>4. R = Q \cup {k} /\ k \notin Q
    <2>1. k \notin Q
      BY <1>1, <1>2, <1>3, MovedOrder
    <2>2. k \in DOMAIN log' /\ k \in R
      BY <1>1, <1>2 DEF Typed
    <2>3. Q \subseteq R
      BY <1>1, <1>2 DEF Typed
    <2>4. R \subseteq Q \cup {k}
      BY <1>1, <1>2 DEF Typed
    <2>5. QED
      BY <2>1, <2>2, <2>3, <2>4
  <1> DEFINE f == [i \in P |-> Moved(k, i)]
  <1>5. f \in Bijection(P, Q)
    <2>1. \A i, j \in P : Moved(k, i) = Moved(k, j) => i = j
      BY <1>1, <1>3, MovedOrder
    <2>2. f \in Injection(P, Q)
      BY <1>2, <2>1 DEF Injection, IsInjective
    <2>3. f \in Surjection(P, Q)
      BY <1>2 DEF Surjection
    <2>4. QED
      BY <2>2, <2>3 DEF Bijection
  <1>6. IsFiniteSet(Q) /\ Cardinality(Q) = Cardinality(P)
    BY <1>3, <1>5, FS_Bijection DEF ExistsBijection
  <1>7. Cardinality(R) = Cardinality(P) + 1 /\ Cardinality(P) \in Nat
    BY <1>3, <1>4, <1>6, FS_AddElement, FS_CardinalityType
  <1>8. QED
    BY <1>2, <1>7 DEF Count

\* Only Derive reads the receipts.
LEMMA SameLog ==
  ASSUME log' = log
  PROVE  /\ Frame' = Frame /\ Redirect' = Redirect /\ Audit' = Audit /\ Self' = Self
         /\ Boundary' = Boundary /\ Oob' = Oob /\ Costume' = Costume /\ Explain' = Explain
         /\ Refresh' = Refresh
         /\ All("claim.adopted")' = All("claim.adopted")
  <1>1. /\ \A t : Typed(t)' = Typed(t) /\ Some(t)' = Some(t) /\ All(t)' = All(t)
        /\ \A t, n : Recent(t, n)' = Recent(t, n)
    BY DEF Typed, Some, All, Recent, Event
  <1>2. Stated' = Stated /\ \A o : LatestState(o)' = LatestState(o) /\ HashOf(o)' = HashOf(o)
    BY <1>1 DEF Stated, LatestState, StatesOf, HashOf, Event, Typed, All
  <1>3. Frame' = Frame /\ Redirect' = Redirect
    BY <1>1 DEF Frame, Redirect
  <1>4. Audit' = Audit /\ Explain' = Explain
    BY <1>1, <1>2 DEF Audit, Explain
  <1>5. Self' = Self
    BY DEF Self, Typed, Some, Event
  <1>6. Boundary' = Boundary /\ Oob' = Oob /\ Costume' = Costume /\ Refresh' = Refresh
    BY <1>1 DEF Boundary, Oob, Costume, Refresh
  <1>7. QED
    BY <1>1, <1>3, <1>4, <1>5, <1>6

\* An event that is no remedy of an operation leaves its ISSUE.
LEMMA IssueStays ==
  ASSUME TraceTyped, NEW w \in Writers, AppendEvent(w), Monitor = "ISSUE",
         stamped[w].event.type \notin Remedy[op]
  PROVE  Monitor' # "CLEARED"
  <1>0. op \in DOMAIN Inputs /\ op' = op /\ rcpts' = rcpts
    BY TraceAssumption DEF TraceTyped, AppendEvent
  <1>1. CASE op \in {"frame", "redirect"}
    <2>1. stamped[w].event \in Inputs[op]
      BY <1>1 DEF AppendEvent, TraceTyped, Stamps, EventsRead
    <2>2. QED
      BY <1>0, <1>1, <2>1, InputTypes DEF Remedy
  <1>2. CASE op = "audit"
    <2>1. stamped[w].event.type # "obligation.state" /\ Audit = "ISSUE" /\ Monitor' = Audit'
      BY <1>0, <1>2 DEF Remedy, Monitor
    <2>2. Stated' = Stated /\ (Some("release.attempted") => Some("release.attempted")')
      BY <2>1, AllInserted DEF Stated
    <2>3. Some("release.attempted") /\ \E o \in Stated : LatestState(o) # "CLEARED"
      BY <2>1 DEF Audit
    <2>4. \A o \in Stated : LatestState(o)' = LatestState(o)
      <3>1. ASSUME NEW o \in Stated PROVE StatesOf(o) # {}
        BY DEF Stated, All, StatesOf
      <3>2. QED
        BY <2>1, <3>1, LatestKept
    <2>5. QED
      BY <2>1, <2>2, <2>3, <2>4 DEF Audit
  <1>3. CASE op = "derive"
    <2>1. Derive = "ISSUE" /\ Monitor' = Derive'
      BY <1>0, <1>3 DEF Monitor
    <2>2. All("claim.adopted") \subseteq All("claim.adopted")'
      BY AllInserted
    <2>3. QED
      BY <1>0, <2>1, <2>2 DEF Derive
  <1>4. CASE op = "self"
    <2>1. Self = "ISSUE" /\ Monitor' = Self'
      BY <1>0, <1>4 DEF Monitor
    <2> DEFINE hits == {i \in Typed("evidence.attached") : Collides(Event(i)) # "CLEARED"}
    <2>2. hits # {}
      BY <2>1 DEF Self
    <2>3. hits' # {} /\ hits' \in SUBSET Nat
      <3>1. PICK k \in 1..(Len(log) + 1) :
           /\ DOMAIN log' = 1..(Len(log) + 1) /\ Len(log) \in Nat
           /\ \A i \in DOMAIN log : Moved(k, i) \in DOMAIN log' /\ Event(Moved(k, i))' = Event(i)
        BY Inserted
      <3>2. PICK i \in hits : TRUE
        BY <2>2
      <3>3. Moved(k, i) \in hits'
        BY <3>1, <3>2 DEF Typed, Collides
      <3>4. QED
        BY <3>1, <3>3 DEF Typed
    <2>4. PICK m : m = Min(hits') /\ m \in hits'
      BY <2>3, MinIn
    <2>5. Collides(Event(m))' # "CLEARED" /\ Collides(log'[m].event) # "CLEARED"
      BY <2>4 DEF Event, Collides
    <2>6. Some("evidence.attached")'
      BY <2>4 DEF Some
    <2>7. Self' = Collides(log'[m].event)
      BY <2>3, <2>4, <2>6 DEF Self, Event, Collides
    <2>8. QED
      BY <2>1, <2>5, <2>7
  <1>5. CASE op = "boundary"
    <2>1. /\ stamped[w].event.type # "contract.bound" /\ Boundary = "ISSUE" /\ Monitor' = Boundary'
      BY <1>0, <1>5 DEF Remedy, Monitor
    <2>2. /\ All("contract.bound")' = All("contract.bound")
          /\ All("handoff.started") \subseteq All("handoff.started")'
      BY <2>1, AllInserted
    <2>3. QED
      BY <2>1, <2>2 DEF Boundary
  <1>6. CASE op = "oob"
    BY <1>6 DEF Monitor, Oob
  <1>7. CASE op = "costume"
    <2>1. /\ stamped[w].event.type # "receipt.written" /\ Costume = "ISSUE" /\ Monitor' = Costume'
      BY <1>0, <1>7 DEF Remedy, Monitor
    <2>2. /\ All("receipt.written")' = All("receipt.written")
          /\ All("novelty.claim") \subseteq All("novelty.claim")'
      BY <2>1, AllInserted
    <2>3. QED
      BY <2>1, <2>2 DEF Costume
  <1>8. CASE op = "explain"
    <2>1. /\ stamped[w].event.type # "artifact.claim" /\ Explain = "ISSUE" /\ Monitor' = Explain'
      BY <1>0, <1>8 DEF Remedy, Monitor
    <2>2. All("explanation.claim") \subseteq All("explanation.claim")'
      BY AllInserted
    <2>3. \A id : HashOf(id)' = HashOf(id)
      BY <2>1, HashKept
    <2>4. PICK e \in All("explanation.claim") : HashOf(e.id) \notin {None, e.hash}
      BY <2>1 DEF Explain
    <2>5. e \in All("explanation.claim")' /\ HashOf(e.id)' \notin {None, e.hash}
      BY <2>2, <2>3, <2>4
    <2>6. QED
      BY <2>1, <2>5 DEF Explain
  <1>9. CASE op = "refresh"
    <2>1. Refresh = "ISSUE" /\ Monitor' = Refresh'
      BY <1>0, <1>9 DEF Monitor
    <2>2. QED
      BY <2>1, AllInserted DEF Refresh
  <1>10. op \in {"frame", "redirect", "audit", "derive", "self", "boundary", "oob", "costume",
               "explain", "refresh"}
    BY <1>0 DEF Inputs
  <1>11. QED
    BY <1>1, <1>2, <1>3, <1>4, <1>5, <1>6, <1>7, <1>8, <1>9, <1>10

\* Without an event, only a derivation of Mind takes an ISSUE back.
LEMMA DerivationClears ==
  ASSUME TraceTyped, op' = op, log' = log, Monitor = "ISSUE", Monitor' = "CLEARED",
         NEW r \in TraceReceipts, rcpts' = Append(rcpts, r)
  PROVE  op = "derive" /\ Len(rcpts') > Len(rcpts) /\ Last(rcpts').module = "mind"
  <1>1. op = "derive"
    <2>1. op \in DOMAIN Inputs
      BY TraceAssumption DEF TraceTyped
    <2>2. op \in {"frame", "redirect", "audit", "derive", "self", "boundary", "oob", "costume",
                  "explain", "refresh"}
      BY <2>1 DEF Inputs
    <2>3. QED
      BY <2>2, SameLog DEF Monitor
  <1>2. Derive = "ISSUE" /\ Derive' = "CLEARED"
    BY <1>1 DEF Monitor
  <1>3. /\ Len(rcpts) \in Nat /\ Len(rcpts') = Len(rcpts) + 1 /\ rcpts'[Len(rcpts) + 1] = r
        /\ DOMAIN rcpts = 1..Len(rcpts) /\ DOMAIN rcpts' = 1..(Len(rcpts) + 1)
        /\ \A i \in 1..Len(rcpts) : rcpts'[i] = rcpts[i]
    BY AppendProperties, LenProperties DEF TraceTyped
  <1>4. ASSUME r.module # "mind" PROVE FALSE
    <2> DEFINE M == {x \in ToSet(rcpts) : x.module = "mind" /\ x.verdict = "CLEARED"}
    <2>1. ToSet(rcpts') = ToSet(rcpts) \cup {r}
      <3>1. \A i \in DOMAIN rcpts' : rcpts'[i] \in ToSet(rcpts) \cup {r}
        <4>1. \A i \in DOMAIN rcpts' : i \in 1..Len(rcpts) \/ i = Len(rcpts) + 1
          BY <1>3
        <4>2. QED
          BY <1>3, <4>1 DEF ToSet
      <3>2. \A i \in DOMAIN rcpts : rcpts[i] \in ToSet(rcpts')
        <4>1. \A i \in DOMAIN rcpts : i \in DOMAIN rcpts'
          BY <1>3
        <4>2. QED
          BY <1>3, <4>1 DEF ToSet
      <3>3. r \in ToSet(rcpts')
        <4>1. Len(rcpts) + 1 \in DOMAIN rcpts'
          BY <1>3
        <4>2. QED
          BY <1>3, <4>1 DEF ToSet
      <3>4. QED
        BY <3>1, <3>2, <3>3 DEF ToSet
    <2>2. M' = M
      BY <1>4, <2>1
    <2>3. Derive' = Derive
      BY <2>2, SameLog DEF Derive
    <2>4. QED
      BY <1>2, <2>3
  <1>5. QED
    BY <1>1, <1>3, <1>4 DEF Last

\* What a step must have done that turned ISSUE into CLEARED.
LEMMA IssueStep ==
  ASSUME TraceTyped, NEW w \in Writers, WriterStep(w), Monitor = "ISSUE", Monitor' = "CLEARED"
  PROVE  \/ \E t \in Remedy[op] : Count(t)' > Count(t)
         \/ op = "derive" /\ Len(rcpts') > Len(rcpts) /\ Last(rcpts').module = "mind"
  <1>1. CASE AppendEvent(w)
    <2>1. PICK t : t = stamped[w].event.type
      OBVIOUS
    <2>2. t \in Remedy[op]
      BY <1>1, <2>1, IssueStays
    <2>3. Count(t)' > Count(t)
      BY <1>1, <2>1, CountGrows
    <2>4. QED
      BY <2>2, <2>3
  <1>2. CASE StoreReceipt(w)
    <2>1. PICK r \in ReceiptsOf[op] : rcpts' = Append(rcpts, r)
      BY <1>2 DEF StoreReceipt
    <2>2. r \in TraceReceipts
      BY OthersReceipt DEF TraceTyped
    <2>3. op' = op /\ log' = log
      BY <1>2 DEF StoreReceipt
    <2>4. QED
      BY <2>1, <2>2, <2>3, DerivationClears
  <1>3. CASE StoreVerdict(w)
    <2>1. draft[w] \in TraceReceipts /\ rcpts' = Append(rcpts, draft[w]) /\ op' = op /\ log' = log
      BY <1>3 DEF StoreVerdict, TraceTyped
    <2>2. QED
      BY <2>1, DerivationClears
  <1>4. CASE UNCHANGED <<op, log, rcpts>>
    <2>1. Derive' = Derive
      BY <1>4, SameLog DEF Derive
    <2>2. Monitor' = Monitor
      BY <1>4, <2>1, SameLog DEF Monitor
    <2>3. QED
      BY <2>2
  <1>5. QED
    BY <1>1, <1>2, <1>3, <1>4 DEF WriterStep, Emit, RunMonitor, Stamp, WriterDies

\* A monitor takes an ISSUE back only on the evidence that answers it, wherever in the
\* log a late event lands.
THEOREM IssueRemedied == TraceSpec => IssueNeedsRemedy
  <1>1. ASSUME TraceInv, [TraceNext]_tvars
        PROVE  [ Monitor = "ISSUE" /\ Monitor' = "CLEARED" =>
                   \/ \E t \in Remedy[op] : Count(t)' > Count(t)
                   \/ op = "derive" /\ Len(rcpts') > Len(rcpts) /\ Last(rcpts').module = "mind" ]_tvars
    BY <1>1, IssueStep DEF TraceInv, TraceNext
  <1>2. QED
    BY TraceInvariant, <1>1, PTL DEF TraceSpec, IssueNeedsRemedy

-----------------------------------------------------------------------------
(* BoundaryMonitor                                                           *)

BoundarySpec == BoundaryInit /\ [][BoundaryNext]_bvars

\* Incidents that can be blocked, the ledger states, and the questions to the judge.
Whats == {Incident(o, p, ActionLoop(c)) : o \in {"frame", "costume"}, p \in Prints, c \in Tails}
Turned == [what : Whats, turn : Nat]
Saved == [turn : Nat, history : Seq(Prints), incidents : SUBSET Turned, unavailable : BOOLEAN]
Asked == [op : {"frame", "costume"}, loop : {ActionLoop(c) : c \in Tails}, what : Whats]

BoundaryTyped ==
  /\ bstate \in Saved
  /\ bpc \in [Hooks -> {"idle", "judge", "save", "block"}]
  /\ mine \in [Hooks -> Saved]
  /\ case \in [Hooks -> Asked \cup {NoCase}]
  /\ \A h \in Hooks : bpc[h] \in {"judge", "block"} => case[h] \in Asked
  /\ blocks \in Seq(Turned)
  /\ mixed \in {0, 1}

\* The incidents of a state are of different turns, none of which is to come.
Dated(s) ==
  /\ \A x \in s.incidents : x.turn \in 1..s.turn
  /\ \A x, y \in s.incidents : x.turn = y.turn => x = y
\* A block is in the ledger, or so old that its refractory turns are over.
Remembers(s, b) ==
  \/ \E x \in s.incidents : x.what = b.what /\ b.turn <= x.turn
  \/ s.turn - b.turn >= Ledger
AllRemembered(s) == \A i \in DOMAIN blocks : blocks[i].turn < s.turn /\ Remembers(s, blocks[i])
\* No block of the incident is within the refractory turns of state s.
Rested(s, what) ==
  \A i \in DOMAIN blocks : blocks[i].what = what => s.turn - blocks[i].turn > Refractory

\* What holds as long as the evaluations follow one another.
OneByOne ==
  /\ \A g, h \in Hooks : bpc[g] # "idle" /\ bpc[h] # "idle" => g = h
  /\ Dated(bstate)
  /\ \A i \in DOMAIN blocks : blocks[i].turn \in 1..bstate.turn /\ Remembers(bstate, blocks[i])
  /\ \A h \in Hooks : bpc[h] # "idle" =>
       /\ mine[h].turn = bstate.turn + 1
       /\ Dated(mine[h])
       /\ AllRemembered(mine[h])
       /\ bpc[h] = "judge" => \A x \in mine[h].incidents : x.turn < mine[h].turn
       /\ bpc[h] \in {"judge", "block"} => Rested(mine[h], case[h].what)
       /\ bpc[h] = "block" =>
            \E x \in mine[h].incidents : x.what = case[h].what /\ x.turn = mine[h].turn

BoundaryInv == BoundaryTyped /\ (mixed = 0 => OneByOne /\ BlocksAreSpaced)

-----------------------------------------------------------------------------
(* The ledger of incidents                                                   *)

\* Incidents of different turns up to the last are no more than the turns.
LEMMA LaterIncidents ==
  ASSUME NEW S, NEW t \in Nat, NEW last \in Nat, t <= last,
         \A y \in S : y.turn \in (t + 1)..last,
         \A y, z \in S : y.turn = z.turn => y = z
  PROVE  Cardinality(S) <= last - t /\ Cardinality(S) \in Nat
  <1> DEFINE f == [y \in S |-> y.turn]
  <1>1. f \in Injection(S, (t + 1)..last)
    BY DEF Injection, IsInjective
  <1>2. IsFiniteSet((t + 1)..last) /\ Cardinality((t + 1)..last) = last - t
    <2>1. t + 1 \in Int /\ last \in Int
      OBVIOUS
    <2>2. Cardinality((t + 1)..last) = IF t + 1 > last THEN 0 ELSE last - (t + 1) + 1
      BY <2>1, FS_Interval
    <2>3. IsFiniteSet((t + 1)..last)
      BY <2>1, FS_Interval
    <2>4. QED
      BY <2>2, <2>3
  <1>3. IsFiniteSet(S) /\ Cardinality(S) <= last - t
    BY <1>1, <1>2, FS_Injection
  <1>4. QED
    BY <1>3, FS_CardinalityType

\* Blocking an incident in state s keeps the ledger's promises to the blocks.
LEMMA BlockedKeeps ==
  ASSUME BoundaryTyped, NEW s \in Saved, NEW what \in Whats, s.turn > 0,
         Dated(s), AllRemembered(s), \A x \in s.incidents : x.turn < s.turn
  PROVE  LET b == Blocked(s, what)
         IN  /\ b \in Saved /\ b.turn = s.turn
             /\ Dated(b) /\ AllRemembered(b)
             /\ \E x \in b.incidents : x.what = what /\ x.turn = s.turn
  <1> DEFINE new == [what |-> what, turn |-> s.turn]
             all == {x \in s.incidents : x.what # what} \cup {new}
             b == Blocked(s, what)
  <1>1. all \subseteq Turned
    BY DEF Saved, Turned
  <1>2. Pruned(all) \subseteq all
    BY DEF Pruned
  <1>3. b \in Saved /\ b.turn = s.turn /\ b.incidents = Pruned(all)
    BY <1>1, <1>2 DEF Blocked, Saved
  <1>4. /\ \A x \in all : x.turn \in 1..s.turn
        /\ \A x, y \in all : x.turn = y.turn => x = y
    BY DEF Dated, Saved, Turned
  <1>5. Dated(b)
    BY <1>2, <1>3, <1>4 DEF Dated
  <1>6. new \in Pruned(all)
    <2>1. {y \in all : y.turn > new.turn} = {}
      BY <1>4 DEF Saved
    <2>2. Cardinality({}) = 0
      BY FS_EmptySet
    <2>3. Cardinality({y \in all : y.turn > new.turn}) < Ledger
      BY <2>1, <2>2, BoundaryAssumption
    <2>4. QED
      BY <2>3 DEF Pruned
  <1>7. AllRemembered(b)
    <2> SUFFICES ASSUME NEW i \in DOMAIN blocks
                 PROVE  Remembers(b, blocks[i])
      BY <1>3 DEF AllRemembered
    <2>0. blocks[i] \in Turned /\ blocks[i].turn < s.turn /\ Remembers(s, blocks[i])
      BY ElementOfSeq DEF AllRemembered, BoundaryTyped
    <2>1. CASE s.turn - blocks[i].turn >= Ledger
      BY <1>3, <2>1 DEF Remembers
    <2>2. CASE blocks[i].what = what
      <3>1. new \in b.incidents /\ new.what = blocks[i].what /\ blocks[i].turn <= new.turn
        BY <1>3, <1>6, <2>0, <2>2 DEF Turned, Saved
      <3> HIDE DEF new, b
      <3>2. QED
        BY <3>1 DEF Remembers
    <2>3. CASE blocks[i].what # what /\ ~(s.turn - blocks[i].turn >= Ledger)
      <3>1. PICK x \in all : x.what = blocks[i].what /\ blocks[i].turn <= x.turn
        BY <2>0, <2>3 DEF Remembers
      <3>2. x \in Turned /\ x.turn \in 1..s.turn
        BY <1>1, <1>4, <3>1
      <3> DEFINE later == {y \in all : y.turn > x.turn}
      <3>3. \A y \in later : y.turn \in (x.turn + 1)..s.turn
        BY <1>1, <1>4, <3>2 DEF Saved, Turned
      <3>4. Cardinality(later) <= s.turn - x.turn /\ Cardinality(later) \in Nat
        <4>1. \A y, z \in later : y.turn = z.turn => y = z
          BY <1>4
        <4> HIDE DEF later
        <4>2. QED
          BY <3>2, <3>3, <4>1, LaterIncidents DEF Saved, Turned
      <3>5. Cardinality(later) < Ledger
        BY <2>0, <2>3, <3>1, <3>2, <3>4, BoundaryAssumption DEF Saved, Turned
      <3>6. x \in Pruned(all)
        BY <3>1, <3>5 DEF Pruned
      <3>7. QED
        BY <1>3, <3>1, <3>6 DEF Remembers
    <2>4. QED
      BY <2>1, <2>2, <2>3
  <1>8. QED
    BY <1>3, <1>5, <1>6, <1>7

\* What is not suppressed has rested.
LEMMA UnsuppressedRested ==
  ASSUME BoundaryTyped, NEW s \in Saved, NEW what, AllRemembered(s), ~Suppressed(s, what),
         s.incidents \subseteq Turned
  PROVE  Rested(s, what)
  <1> SUFFICES ASSUME NEW i \in DOMAIN blocks, blocks[i].what = what
               PROVE  s.turn - blocks[i].turn > Refractory
    BY DEF Rested
  <1>1. blocks[i] \in Turned /\ Remembers(s, blocks[i])
    BY ElementOfSeq DEF AllRemembered, BoundaryTyped
  <1>2. QED
    BY <1>1, BoundaryAssumption DEF Remembers, Suppressed, Turned, Saved

-----------------------------------------------------------------------------
LEMMA BoundaryInitial == BoundaryInit => BoundaryInv
  <1> SUFFICES ASSUME BoundaryInit PROVE BoundaryInv
    OBVIOUS
  <1>1. Empty \in Saved
    BY DEF Empty, Saved, NoIncidents
  <1>2. BoundaryTyped
    BY <1>1 DEF BoundaryInit, BoundaryTyped
  <1>3. OneByOne /\ BlocksAreSpaced
    BY DEF BoundaryInit, OneByOne, BlocksAreSpaced, Dated, Empty, NoIncidents
  <1>4. QED
    BY <1>2, <1>3 DEF BoundaryInv

\* An evaluation begins, or is over at once.
LEMMA EvaluateKeeps ==
  ASSUME BoundaryInv, NEW h \in Hooks, Evaluate(h)
  PROVE  BoundaryInv'
  <1>1. PICK print \in Prints, words \in Words, tail \in Tails :
          LET loop == ActionLoop(tail)
              previous == Lastly(bstate.history, 2)
              s == [bstate EXCEPT !.turn = @ + 1, !.history = Append(previous, print)]
              kind == Op(print, words, previous, loop)
              incident == Incident(kind, print, loop)
          IN  \/ /\ kind = None
                 /\ mine' = [mine EXCEPT ![h] = [s EXCEPT !.unavailable = FALSE]]
                 /\ bpc' = [bpc EXCEPT ![h] = "save"]
                 /\ UNCHANGED case
              \/ /\ kind # None /\ Suppressed(s, incident)
                 /\ mine' = [mine EXCEPT ![h] = s]
                 /\ bpc' = [bpc EXCEPT ![h] = "save"]
                 /\ UNCHANGED case
              \/ /\ kind # None /\ ~Suppressed(s, incident)
                 /\ mine' = [mine EXCEPT ![h] = s]
                 /\ bpc' = [bpc EXCEPT ![h] = "judge"]
                 /\ case' = [case EXCEPT ![h] = [op |-> kind, loop |-> loop, what |-> incident]]
    BY DEF Evaluate
  <1> DEFINE loop == ActionLoop(tail)
             previous == Lastly(bstate.history, 2)
             s == [bstate EXCEPT !.turn = @ + 1, !.history = Append(previous, print)]
             kind == Op(print, words, previous, loop)
             incident == Incident(kind, print, loop)
  <1>2. UNCHANGED <<bstate, blocks>> /\ bpc[h] = "idle"
    BY DEF Evaluate
  <1>3. kind # None => kind \in {"frame", "costume"}
    BY DEF Op, Stage1
  <1>4. kind # None => incident \in Whats
    BY <1>3 DEF Whats
  <1>5. previous \in Seq(Prints)
    <2>1. bstate.history \in Seq(Prints)
      BY DEF BoundaryInv, BoundaryTyped, Saved
    <2>2. PICK q \in Seq(Prints) : q = bstate.history
      BY <2>1
    <2>3. Len(q) > 2 => SubSeq(q, Len(q) - 2 + 1, Len(q)) \in Seq(Prints)
      BY SubSeqProperties, ElementOfSeq, LenProperties
    <2>4. QED
      BY <2>2, <2>3, LenProperties DEF Lastly
  <1>6. PICK past \in Seq(Prints) : past = Append(previous, print)
    BY <1>5, AppendProperties
  <1>7. s \in Saved /\ s.turn = bstate.turn + 1 /\ s.incidents = bstate.incidents
    <2>1. PICK b \in Saved : b = bstate
      BY DEF BoundaryInv, BoundaryTyped
    <2>2. s = [b EXCEPT !.turn = b.turn + 1, !.history = past]
      BY <1>6, <2>1
    <2> HIDE DEF s
    <2>3. s.turn = b.turn + 1 /\ s.incidents = b.incidents
      BY <2>2 DEF Saved
    <2>4. s \in Saved
      <3>0. [b EXCEPT !.turn = b.turn + 1] \in Saved
        BY DEF Saved
      <3>1. PICK c \in Saved : c = [b EXCEPT !.turn = b.turn + 1]
        BY <3>0
      <3>2. s = [c EXCEPT !.history = past]
        BY <2>2, <3>1
      <3>3. QED
        BY <3>1, <3>2 DEF Saved
    <2>5. QED
      BY <2>1, <2>3, <2>4
  <1> DEFINE t == mine'[h]
  <1> HIDE DEF s, kind, incident, loop, previous
  <1>8. /\ t \in Saved /\ t.turn = bstate.turn + 1 /\ t.incidents = bstate.incidents
        /\ \A k \in Hooks : mine'[k] = IF k = h THEN t ELSE mine[k]
        /\ mine' \in [Hooks -> Saved]
    <2>1. PICK u \in Saved : u = s
      BY <1>7
    <2>2. [u EXCEPT !.unavailable = FALSE] \in Saved
      BY DEF Saved
    <2>3. [u EXCEPT !.unavailable = FALSE].turn = u.turn
          /\ [u EXCEPT !.unavailable = FALSE].incidents = u.incidents
      BY DEF Saved
    <2>4. \E v \in {u, [u EXCEPT !.unavailable = FALSE]} : mine' = [mine EXCEPT ![h] = v]
      BY <1>1, <2>1 DEF s, kind, incident, loop, previous
    <2>5. PICK v \in Saved : /\ mine' = [mine EXCEPT ![h] = v]
                             /\ v.turn = u.turn /\ v.incidents = u.incidents
      BY <2>2, <2>3, <2>4
    <2>6. t = v /\ \A k \in Hooks : mine'[k] = IF k = h THEN t ELSE mine[k]
      BY <2>5 DEF BoundaryInv, BoundaryTyped, t
    <2>7. QED
      BY <1>7, <2>1, <2>5, <2>6 DEF BoundaryInv, BoundaryTyped
  <1> HIDE DEF t
  <1>9. \/ /\ bpc' = [bpc EXCEPT ![h] = "save"]
           /\ UNCHANGED case
        \/ /\ bpc' = [bpc EXCEPT ![h] = "judge"]
           /\ kind # None /\ ~Suppressed(s, incident)
           /\ case' = [case EXCEPT ![h] = [op |-> kind, loop |-> loop, what |-> incident]]
    BY <1>1 DEF s, kind, incident, loop, previous
  <1>10. BoundaryTyped'
    <2>1. kind # None => [op |-> kind, loop |-> loop, what |-> incident] \in Asked
      BY <1>3, <1>4 DEF Asked, loop
    <2>2. mixed' \in {0, 1}
      BY DEF Evaluate, BoundaryInv, BoundaryTyped
    <2>3. case' \in [Hooks -> Asked \cup {NoCase}]
          /\ \A k \in Hooks : bpc'[k] \in {"judge", "block"} => case'[k] \in Asked
      BY <1>9, <2>1 DEF BoundaryInv, BoundaryTyped
    <2>4. bpc' \in [Hooks -> {"idle", "judge", "save", "block"}]
      BY <1>9 DEF BoundaryInv, BoundaryTyped
    <2>5. QED
      BY <1>2, <1>8, <2>2, <2>3, <2>4 DEF BoundaryInv, BoundaryTyped
  <1>11. ASSUME mixed' = 0 PROVE (OneByOne /\ BlocksAreSpaced)'
    <2>1. mixed = 0 /\ \A k \in Hooks : bpc[k] = "idle"
      BY <1>11 DEF Evaluate, Evaluating
    <2>2. OneByOne /\ BlocksAreSpaced
      BY <2>1 DEF BoundaryInv
    <2>3. \A k \in Hooks : bpc'[k] # "idle" => k = h
      BY <1>9, <2>1 DEF BoundaryInv, BoundaryTyped
    <2>4. Dated(t) /\ \A x \in t.incidents : x.turn < t.turn
      BY <1>8, <2>2 DEF OneByOne, Dated, Saved, BoundaryInv, BoundaryTyped
    <2>5. AllRemembered(t)
      <3> SUFFICES ASSUME NEW i \in DOMAIN blocks
                   PROVE  blocks[i].turn < t.turn /\ Remembers(t, blocks[i])
        BY DEF AllRemembered
      <3>1. blocks[i] \in Turned
        BY ElementOfSeq DEF BoundaryInv, BoundaryTyped
      <3>2. blocks[i].turn \in 1..bstate.turn /\ Remembers(bstate, blocks[i])
        BY <2>2 DEF OneByOne
      <3>3. bstate.turn \in Nat
        BY DEF BoundaryInv, BoundaryTyped, Saved
      <3>4. QED
        BY <1>8, <3>1, <3>2, <3>3, BoundaryAssumption DEF Remembers, Turned
    <2>6. bpc'[h] \in {"judge", "block"} => Rested(t, case'[h].what)
      <3>1. SUFFICES ASSUME bpc'[h] \in {"judge", "block"} PROVE Rested(t, case'[h].what)
        OBVIOUS
      <3>2. ~Suppressed(s, incident) /\ case'[h].what = incident
        BY <1>9, <3>1 DEF BoundaryInv, BoundaryTyped
      <3>3. ~Suppressed(t, incident)
        BY <1>7, <1>8, <3>2 DEF Suppressed
      <3>4. QED
        BY <1>8, <2>5, <3>2, <3>3, UnsuppressedRested DEF BoundaryInv, Saved
    <2>7. bpc'[h] # "block"
      BY <1>9 DEF BoundaryInv, BoundaryTyped
    <2>8. BlocksAreSpaced'
      BY <1>2, <1>11, <2>1, <2>2 DEF BlocksAreSpaced
    <2>9. OneByOne'
      BY <1>2, <1>8, <2>2, <2>3, <2>4, <2>5, <2>6, <2>7
      DEF OneByOne, Dated, AllRemembered, Remembers, Rested
    <2>10. QED
      BY <2>8, <2>9
  <1>12. QED
    BY <1>10, <1>11 DEF BoundaryInv

\* The judge answers.
LEMMA JudgeKeeps ==
  ASSUME BoundaryInv, NEW h \in Hooks, JudgeAnswers(h)
  PROVE  BoundaryInv'
  <1>1. /\ bpc[h] = "judge" /\ UNCHANGED <<bstate, case, blocks, mixed>>
        /\ mine[h] \in Saved /\ case[h] \in Asked
    BY DEF JudgeAnswers, BoundaryInv, BoundaryTyped
  <1>2. PICK m \in Saved : m = mine[h]
    BY <1>1
  <1>3. PICK t : /\ mine' = [mine EXCEPT ![h] = t]
                 /\ \/ t = Blocked(m, case[h].what) /\ bpc' = [bpc EXCEPT ![h] = "block"]
                    \/ /\ t \in Saved /\ t.turn = m.turn /\ t.incidents = m.incidents
                       /\ bpc' = [bpc EXCEPT ![h] = "save"]
    <2>1. \A v \in BOOLEAN : /\ [m EXCEPT !.unavailable = v] \in Saved
                             /\ [m EXCEPT !.unavailable = v].turn = m.turn
                             /\ [m EXCEPT !.unavailable = v].incidents = m.incidents
      BY DEF Saved
    <2>2. \/ /\ mine' = [mine EXCEPT ![h] = Blocked(m, case[h].what)]
             /\ bpc' = [bpc EXCEPT ![h] = "block"]
          \/ \E v \in BOOLEAN : /\ mine' = [mine EXCEPT ![h] = [m EXCEPT !.unavailable = v]]
                                /\ bpc' = [bpc EXCEPT ![h] = "save"]
      BY <1>2 DEF JudgeAnswers
    <2>3. QED
      BY <2>1, <2>2
  <1>4. t \in Saved
    <2>1. ASSUME t = Blocked(m, case[h].what) PROVE t \in Saved
      <3> DEFINE all == Pruned({x \in m.incidents : x.what # case[h].what}
                               \cup {[what |-> case[h].what, turn |-> m.turn]})
      <3>1. all \subseteq Turned
        BY <1>1 DEF Pruned, Saved, Turned, Asked
      <3>2. t = [m EXCEPT !.incidents = all, !.unavailable = FALSE]
        BY <2>1 DEF Blocked
      <3> HIDE DEF all
      <3>3. QED
        BY <3>1, <3>2 DEF Saved
    <2>2. QED
      BY <1>3, <2>1
  <1>5. /\ \A k \in Hooks : mine'[k] = IF k = h THEN t ELSE mine[k]
        /\ \A k \in Hooks : k # h => bpc'[k] = bpc[k]
        /\ BoundaryTyped'
    BY <1>1, <1>3, <1>4 DEF BoundaryInv, BoundaryTyped
  <1>6. ASSUME mixed = 0 PROVE (OneByOne /\ BlocksAreSpaced)'
    <2>1. OneByOne /\ BlocksAreSpaced
      BY <1>6 DEF BoundaryInv
    <2>2. /\ m.turn = bstate.turn + 1 /\ Dated(m) /\ AllRemembered(m)
          /\ \A x \in m.incidents : x.turn < m.turn
          /\ Rested(m, case[h].what)
      BY <1>1, <1>2, <2>1 DEF OneByOne
    <2>3. /\ t.turn = m.turn /\ Dated(t) /\ AllRemembered(t)
          /\ bpc'[h] = "block" => \E x \in t.incidents : x.what = case[h].what /\ x.turn = t.turn
          /\ bpc'[h] \in {"block", "save"}
      <3>1. CASE t = Blocked(m, case[h].what) /\ bpc' = [bpc EXCEPT ![h] = "block"]
        <4>1. m.turn > 0
          BY <2>2 DEF BoundaryInv, BoundaryTyped, Saved
        <4>2. QED
          BY <1>1, <2>2, <3>1, <4>1, BlockedKeeps DEF BoundaryInv, BoundaryTyped, Asked
      <3>2. CASE t.turn = m.turn /\ t.incidents = m.incidents /\ bpc' = [bpc EXCEPT ![h] = "save"]
        BY <2>2, <3>2 DEF Dated, AllRemembered, Remembers, BoundaryInv, BoundaryTyped
      <3>3. QED
        BY <1>3, <3>1, <3>2
    <2>4. Rested(t, case[h].what)
      BY <2>2, <2>3 DEF Rested
    <2>5. \A k \in Hooks : bpc'[k] # "idle" => k = h
      BY <1>1, <1>5, <2>1 DEF OneByOne
    <2>6. OneByOne'
      BY <1>1, <1>5, <2>1, <2>2, <2>3, <2>4, <2>5
      DEF OneByOne, Dated, AllRemembered, Remembers, Rested
    <2>7. BlocksAreSpaced'
      BY <1>1, <2>1 DEF BlocksAreSpaced
    <2>8. QED
      BY <2>6, <2>7
  <1>7. QED
    BY <1>1, <1>5, <1>6 DEF BoundaryInv

\* The state is saved, and a block shown.
LEMMA SaveKeeps ==
  ASSUME BoundaryInv, NEW h \in Hooks, SaveState(h)
  PROVE  BoundaryInv'
  <1> DEFINE new == [what |-> case[h].what, turn |-> mine[h].turn]
  <1>1. /\ bpc[h] \in {"save", "block"} /\ bstate' = mine[h] /\ mixed' = mixed
        /\ \A k \in Hooks : bpc'[k] = IF k = h THEN "idle" ELSE bpc[k]
        /\ \A k \in Hooks : k # h => mine'[k] = mine[k] /\ case'[k] = case[k]
    BY DEF SaveState, BoundaryInv, BoundaryTyped
  <1>2. bpc[h] = "block" => new \in Turned
    BY DEF BoundaryInv, BoundaryTyped, Asked, Saved, Turned
  <1>3. /\ blocks' \in Seq(Turned)
        /\ bpc[h] # "block" => blocks' = blocks
        /\ bpc[h] = "block" => /\ Len(blocks') = Len(blocks) + 1
                               /\ \A i \in 1..Len(blocks) : blocks'[i] = blocks[i]
                               /\ blocks'[Len(blocks) + 1] = new
    BY <1>2, AppendProperties DEF SaveState, BoundaryInv, BoundaryTyped
  <1> HIDE DEF new
  <1>4. BoundaryTyped'
    <2>1. Empty \in Saved
      BY DEF Empty, Saved, NoIncidents
    <2>2. /\ mine' \in [Hooks -> Saved] /\ case' \in [Hooks -> Asked \cup {NoCase}]
          /\ bpc' \in [Hooks -> {"idle", "judge", "save", "block"}] /\ bstate' \in Saved
      BY <2>1 DEF SaveState, BoundaryInv, BoundaryTyped
    <2>3. QED
      BY <1>1, <1>3, <2>2 DEF BoundaryInv, BoundaryTyped
  <1>5. ASSUME mixed = 0 PROVE (OneByOne /\ BlocksAreSpaced)'
    <2>1. OneByOne /\ BlocksAreSpaced
      BY <1>5 DEF BoundaryInv
    <2>2. \A k \in Hooks : bpc'[k] = "idle"
      BY <1>1, <2>1 DEF OneByOne
    <2>3. /\ mine[h].turn = bstate.turn + 1 /\ Dated(mine[h]) /\ AllRemembered(mine[h])
          /\ bpc[h] = "block" =>
               /\ Rested(mine[h], case[h].what)
               /\ \E x \in mine[h].incidents : x.what = case[h].what /\ x.turn = mine[h].turn
      BY <1>1, <2>1 DEF OneByOne
    <2>4. blocks \in Seq(Turned) /\ mine[h].turn \in Nat /\ bstate.turn \in Nat
      BY DEF BoundaryInv, BoundaryTyped, Saved
    <2>5. \A i \in 1..Len(blocks) :
            /\ blocks[i] \in Turned
            /\ blocks[i].turn \in 1..mine[h].turn /\ Remembers(mine[h], blocks[i])
      <3> SUFFICES ASSUME NEW i \in 1..Len(blocks)
                   PROVE  /\ blocks[i] \in Turned
                          /\ blocks[i].turn \in 1..mine[h].turn /\ Remembers(mine[h], blocks[i])
        OBVIOUS
      <3>1. i \in DOMAIN blocks /\ blocks[i] \in Turned
        BY <2>4, ElementOfSeq, LenProperties
      <3>2. blocks[i].turn \in 1..bstate.turn
        BY <2>1, <3>1 DEF OneByOne
      <3>3. QED
        BY <2>3, <2>4, <3>1, <3>2 DEF AllRemembered
    <2>6. \A i \in DOMAIN blocks' :
            blocks'[i].turn \in 1..mine[h].turn /\ Remembers(mine[h], blocks'[i])
      <3>1. CASE bpc[h] = "block"
        <4>1. new.turn \in 1..mine[h].turn /\ Remembers(mine[h], new)
          BY <2>3, <2>4, <3>1 DEF Remembers, new
        <4>2. DOMAIN blocks' = 1..(Len(blocks) + 1)
          BY <1>3, <3>1, LenProperties
        <4>3. QED
          BY <1>3, <2>4, <2>5, <3>1, <4>1, <4>2, LenProperties
      <3>2. CASE bpc[h] # "block"
        BY <1>3, <2>4, <2>5, <3>2, LenProperties
      <3>3. QED
        BY <3>1, <3>2
    <2>7. BlocksAreSpaced'
      <3>1. CASE bpc[h] = "block"
        <4>1. DOMAIN blocks' = 1..(Len(blocks) + 1) /\ DOMAIN blocks = 1..Len(blocks)
              /\ Len(blocks) \in Nat
          BY <1>3, <2>4, <3>1, LenProperties
        <4>2. \A i \in 1..Len(blocks) : blocks[i].what = new.what => new.turn - blocks[i].turn > Refractory
          BY <2>3, <3>1, <4>1 DEF Rested, new
        <4>3. \A i, j \in 1..(Len(blocks) + 1) :
                i < j => i \in 1..Len(blocks) /\ (j \in 1..Len(blocks) \/ j = Len(blocks) + 1)
          BY <4>1
        <4>4. SUFFICES ASSUME NEW i \in 1..(Len(blocks) + 1), NEW j \in 1..(Len(blocks) + 1),
                              i < j, blocks'[i].what = blocks'[j].what
                       PROVE  blocks'[j].turn - blocks'[i].turn > Refractory
          BY <4>1 DEF BlocksAreSpaced
        <4>5. CASE j \in 1..Len(blocks)
          <5>1. i \in 1..Len(blocks)
            BY <4>3, <4>4
          <5>2. QED
            BY <1>3, <1>5, <2>1, <3>1, <4>1, <4>4, <4>5, <5>1 DEF BlocksAreSpaced
        <4>6. CASE j = Len(blocks) + 1
          BY <1>3, <3>1, <4>2, <4>3, <4>4, <4>6
        <4>7. QED
          BY <4>3, <4>4, <4>5, <4>6
      <3>2. CASE bpc[h] # "block"
        BY <1>1, <1>3, <2>1, <3>2 DEF BlocksAreSpaced
      <3>3. QED
        BY <3>1, <3>2
    <2>8. OneByOne'
      BY <1>1, <2>2, <2>3, <2>6 DEF OneByOne, Dated, Remembers
    <2>9. QED
      BY <2>7, <2>8
  <1>6. QED
    BY <1>1, <1>4, <1>5 DEF BoundaryInv

\* A hook is killed, or the state is reset.
LEMMA EndsKeeps ==
  ASSUME BoundaryInv, NEW h \in Hooks, HookKilled(h)
  PROVE  BoundaryInv'
  <1>1. Empty \in Saved
    BY DEF Empty, Saved, NoIncidents
  <1>2. BoundaryTyped'
    BY <1>1 DEF HookKilled, BoundaryInv, BoundaryTyped
  <1>3. mixed = 0 => OneByOne' /\ BlocksAreSpaced'
    <2> SUFFICES ASSUME mixed = 0 PROVE OneByOne' /\ BlocksAreSpaced'
      OBVIOUS
    <2>1. OneByOne /\ BlocksAreSpaced /\ UNCHANGED <<bstate, blocks, mixed>>
      BY DEF HookKilled, BoundaryInv
    <2>2. \A k \in Hooks : bpc'[k] = "idle"
      BY <2>1 DEF HookKilled, OneByOne, BoundaryInv, BoundaryTyped
    <2>3. QED
      BY <2>1, <2>2 DEF OneByOne, Dated, Remembers, BlocksAreSpaced
  <1>4. QED
    BY <1>2, <1>3 DEF HookKilled, BoundaryInv

LEMMA ResetKeeps ==
  ASSUME BoundaryInv, ResetBoundary
  PROVE  BoundaryInv'
  <1>1. Empty \in Saved
    BY DEF Empty, Saved, NoIncidents
  <1>2. BoundaryTyped'
    BY <1>1 DEF ResetBoundary, BoundaryInv, BoundaryTyped
  <1>3. mixed' = 0 => OneByOne' /\ BlocksAreSpaced'
    <2> SUFFICES ASSUME mixed' = 0 PROVE OneByOne' /\ BlocksAreSpaced'
      OBVIOUS
    <2>1. \A k \in Hooks : bpc'[k] = "idle"
      BY DEF ResetBoundary, Evaluating
    <2>2. blocks' = <<>> /\ bstate'.incidents = {}
      BY DEF ResetBoundary, Empty, NoIncidents
    <2>3. QED
      BY <2>1, <2>2 DEF OneByOne, Dated, BlocksAreSpaced
  <1>4. QED
    BY <1>2, <1>3 DEF BoundaryInv

\* The invariant of the boundary monitor, overlapping evaluations and kills included.
THEOREM BoundaryInvariant == BoundarySpec => []BoundaryInv
  <1>1. BoundaryInv /\ [BoundaryNext]_bvars => BoundaryInv'
    <2> SUFFICES ASSUME BoundaryInv, [BoundaryNext]_bvars PROVE BoundaryInv'
      OBVIOUS
    <2>1. CASE BoundaryNext
      BY <2>1, EvaluateKeeps, JudgeKeeps, SaveKeeps, EndsKeeps, ResetKeeps DEF BoundaryNext
    <2>2. CASE UNCHANGED bvars
      BY <2>2 DEF bvars, BoundaryInv, BoundaryTyped, OneByOne, BlocksAreSpaced, Dated,
                  AllRemembered, Remembers, Rested
    <2>3. QED
      BY <2>1, <2>2
  <1>2. QED
    BY BoundaryInitial, <1>1, PTL DEF BoundarySpec

\* While evaluations follow one another, one incident does not block twice within its
\* refractory turns, for any turns, prints and ledger at least that long.
THEOREM BlocksSpaced == BoundarySpec => []BlocksAreSpaced
  <1>1. BoundaryInv => BlocksAreSpaced
    BY DEF BoundaryInv, BlocksAreSpaced
  <1>2. QED
    BY BoundaryInvariant, <1>1, PTL

-----------------------------------------------------------------------------
(* AuthorityWatch                                                            *)

WatchSpec == WatchInit /\ [][WatchNext]_wvars

\* An agent that reads the files of a snapshot, and one that has compared.
Readers == [at : {"read"}, end : {"store", "compare"}, before : States \cup {None},
            unread : SUBSET Governing, state : States]
Judges == [at : {"silent", "emit", "ask"}, before : States \cup {None},
           now : States \cup {None}]

WatchTyped ==
  /\ world \in States
  /\ shots \subseteq States
  /\ base \in shots \cup {None}
  /\ agent \in [Agents -> {Idle, [at |-> "committed"]} \cup Readers \cup Judges]

\* What an agent compares with is a snapshot that was stored.
FromShot(k) ==
  /\ k.at = "read" => k.before \in shots \cup {None}
  /\ k.at = "read" /\ k.end = "compare" => k.before # None
  /\ k.at = "silent" /\ k.before # None =>
       k.before \in shots /\ k.now \in States /\ Diff(k.before, k.now) = {}
Compared == \A a \in Agents : FromShot(agent[a])

WatchInv == WatchTyped /\ Compared

\* States without a difference have the same files and, where both know it, head.
LEMMA SameWorld ==
  ASSUME NEW s \in States, NEW t \in States, Diff(s, t) = {}
  PROVE  /\ s.files = t.files
         /\ s.head = t.head \/ None \in {s.head, t.head}
  <1>1. \A f \in Governing : s.files[f] = t.files[f]
    BY DEF Diff
  <1>2. s.files = t.files
    BY <1>1 DEF States
  <1>3. QED
    BY <1>2 DEF Diff

LEMMA WatchInitial == WatchInit => WatchInv
  <1> SUFFICES ASSUME WatchInit PROVE WatchInv
    OBVIOUS
  <1>1. world \in States
    BY DEF WatchInit, States
  <1>2. WatchTyped
    BY <1>1 DEF WatchInit, WatchTyped
  <1>3. Compared
    BY DEF WatchInit, Compared, FromShot, Idle
  <1>4. QED
    BY <1>2, <1>3 DEF WatchInv

\* A step that moves one agent and stores nothing.
LEMMA AgentMoves ==
  ASSUME WatchInv, NEW a \in Agents,
         NEW k \in {Idle, [at |-> "committed"]} \cup Readers \cup Judges,
         To(a, k), FromShot(k), UNCHANGED <<base, shots>>, world' \in States
  PROVE  WatchInv'
  <1>1. WatchTyped'
    BY DEF WatchInv, WatchTyped, To
  <1>2. \A b \in Agents : agent'[b] = IF b = a THEN k ELSE agent[b]
    BY DEF WatchInv, WatchTyped, To
  <1>3. \A b \in Agents : FromShot(agent'[b])
    BY <1>2 DEF WatchInv, Compared
  <1>4. Compared'
    BY <1>3 DEF Compared, FromShot
  <1>5. QED
    BY <1>1, <1>4 DEF WatchInv

\* Every step of an agent keeps the invariant.
LEMMA WatchStepKeeps ==
  ASSUME WatchInv, NEW a \in Agents, WatchStep(a)
  PROVE  WatchInv'
  <1> USE DEF WatchInv
  <1>0. /\ agent[a] \in {Idle, [at |-> "committed"]} \cup Readers \cup Judges
        /\ FromShot(agent[a]) /\ Idle.at = "idle"
    BY DEF WatchTyped, Compared, Idle
  <1>1. CASE SnapshotBegin(a)
    <2>1. PICK h \in {world.head, None} :
            To(a, [at |-> "read", end |-> "store", before |-> None, unread |-> Governing,
                   state |-> [head |-> h, files |-> [f \in Governing |-> None]]])
      BY <1>1 DEF SnapshotBegin, BuildHead
    <2> DEFINE s == [head |-> h, files |-> [f \in Governing |-> None]]
               k == [at |-> "read", end |-> "store", before |-> None, unread |-> Governing,
                     state |-> s]
    <2>2. s \in States
      BY DEF WatchTyped, States
    <2>3. k \in Readers
      BY <2>2 DEF Readers
    <2>4. FromShot(k)
      BY DEF FromShot
    <2>5. QED
      BY <1>1, <2>1, <2>3, <2>4, AgentMoves DEF SnapshotBegin, WatchTyped
  <1>2. CASE BuildFile(a)
    <2>1. PICK f \in agent[a].unread :
            To(a, [agent[a] EXCEPT !.unread = @ \ {f}, !.state.files[f] = world.files[f]])
      BY <1>2 DEF BuildFile
    <2> DEFINE k == [agent[a] EXCEPT !.unread = @ \ {f}, !.state.files[f] = world.files[f]]
    <2>2. agent[a] \in Readers
      BY <1>0, <1>2 DEF BuildFile, Judges
    <2>3. PICK s : s = [agent[a].state EXCEPT !.files[f] = world.files[f]]
      OBVIOUS
    <2>4. s \in States
      BY <2>2, <2>3 DEF WatchTyped, States, Readers
    <2>5. PICK r \in Readers : r = agent[a]
      BY <2>2
    <2>6. k = [r EXCEPT !.unread = r.unread \ {f}, !.state = s]
      BY <2>3, <2>5
    <2> HIDE DEF k
    <2>7. /\ k.at = r.at /\ k.end = r.end /\ k.before = r.before
          /\ k \in Readers
      BY <2>4, <2>6 DEF Readers
    <2>8. FromShot(k)
      BY <1>0, <2>5, <2>7 DEF FromShot, Readers
    <2> USE DEF k
    <2>9. QED
      BY <1>2, <2>1, <2>7, <2>8, AgentMoves DEF BuildFile, WatchTyped
  <1>3. CASE SnapshotStore(a)
    <2>1. agent[a] \in Readers
      BY <1>0, <1>3 DEF SnapshotStore, HasBuilt, Judges
    <2>2. agent[a].state \in States
      BY <2>1 DEF Readers
    <2>3. \A b \in Agents : agent'[b] = IF b = a THEN Idle ELSE agent[b]
      BY <1>3 DEF SnapshotStore, To, WatchTyped
    <2>4. WatchTyped'
      BY <1>3, <2>2 DEF SnapshotStore, WatchTyped, To
    <2>5. shots \subseteq shots'
      BY <1>3 DEF SnapshotStore
    <2>6. Compared'
      BY <1>0, <2>3, <2>5 DEF Compared, FromShot
    <2>7. QED
      BY <2>4, <2>6
  <1>4. CASE CheckBegin(a)
    <2>1. CASE base = None
      <3> DEFINE k == [at |-> "silent", before |-> None, now |-> None]
      <3>1. k \in Judges /\ FromShot(k)
        BY DEF Judges, FromShot
      <3>2. QED
        BY <1>4, <2>1, <3>1, AgentMoves DEF CheckBegin, WatchTyped
    <2>2. CASE base # None
      <3>1. PICK h \in {world.head, None} :
              To(a, [at |-> "read", end |-> "compare", before |-> base, unread |-> Governing,
                     state |-> [head |-> h, files |-> [f \in Governing |-> None]]])
        BY <1>4, <2>2 DEF CheckBegin, BuildHead
      <3> DEFINE s == [head |-> h, files |-> [f \in Governing |-> None]]
                 k == [at |-> "read", end |-> "compare", before |-> base,
                       unread |-> Governing, state |-> s]
      <3>2. s \in States
        BY DEF WatchTyped, States
      <3>3. k \in Readers
        BY <3>2 DEF Readers, WatchTyped
      <3>4. FromShot(k)
        BY <2>2 DEF FromShot, WatchTyped
      <3>5. QED
        BY <1>4, <3>1, <3>3, <3>4, AgentMoves DEF CheckBegin, WatchTyped
    <2>3. QED
      BY <2>1, <2>2
  <1>5. CASE CheckCompare(a)
    <2> DEFINE answer == IF Diff(agent[a].before, agent[a].state) = {} THEN "silent" ELSE "emit"
               k == [at |-> answer, before |-> agent[a].before, now |-> agent[a].state]
    <2>1. agent[a] \in Readers /\ agent[a].end = "compare"
      BY <1>0, <1>5 DEF CheckCompare, HasBuilt, Judges
    <2>2. k \in Judges
      BY <2>1 DEF Readers, Judges
    <2>3. FromShot(k)
      BY <1>0, <2>1 DEF FromShot, Readers
    <2>4. QED
      BY <1>5, <2>2, <2>3, AgentMoves DEF CheckCompare, WatchTyped
  <1>6. CASE EmitDrift(a)
    <2> DEFINE k == [agent[a] EXCEPT !.at = "ask"]
    <2>1. agent[a] \in Judges
      BY <1>0, <1>6 DEF EmitDrift, Readers
    <2>2. k \in Judges /\ k.at = "ask"
      BY <2>1 DEF Judges
    <2>3. FromShot(k)
      BY <2>2 DEF FromShot
    <2>4. QED
      BY <1>6, <2>2, <2>3, AgentMoves DEF EmitDrift, WatchTyped
  <1>7. CASE Write(a) \/ HookEnds(a) \/ GitCommit(a)
    <2>1. world' \in States /\ UNCHANGED <<base, shots>>
      <3>1. CASE Write(a)
        BY <3>1 DEF Write, WatchTyped, States
      <3>2. CASE HookEnds(a)
        BY <3>2 DEF HookEnds, WatchTyped
      <3>3. CASE GitCommit(a)
        BY <3>3 DEF GitCommit, WatchTyped, States
      <3>4. QED
        BY <1>7, <3>1, <3>2, <3>3
    <2>2. \E k \in {Idle, [at |-> "committed"], agent[a]} : To(a, k) \/ (k = agent[a] /\ UNCHANGED agent)
      BY <1>7 DEF Write, HookEnds, GitCommit
    <2>3. PICK k \in {Idle, [at |-> "committed"], agent[a]} : To(a, k)
      BY <2>2 DEF To, WatchTyped
    <2>4. FromShot(k)
      BY <1>0, <2>3 DEF FromShot
    <2>5. QED
      BY <1>0, <2>1, <2>3, <2>4, AgentMoves
  <1>8. QED
    BY <1>1, <1>2, <1>3, <1>4, <1>5, <1>6, <1>7 DEF WatchStep

\* What is compared was stored, whatever the world and the other agents do meanwhile.
THEOREM WatchInvariant == WatchSpec => []WatchInv
  <1>1. WatchInv /\ [WatchNext]_wvars => WatchInv'
    <2> SUFFICES ASSUME WatchInv, [WatchNext]_wvars PROVE WatchInv'
      OBVIOUS
    <2>1. CASE ChangeWorld
      BY <2>1 DEF ChangeWorld, WatchInv, WatchTyped, Compared, FromShot, States
    <2>2. CASE \E a \in Agents : WatchStep(a)
      BY <2>2, WatchStepKeeps
    <2>3. CASE UNCHANGED wvars
      BY <2>3 DEF wvars, WatchInv, WatchTyped, Compared, FromShot
    <2>4. QED
      BY <2>1, <2>2, <2>3 DEF WatchNext
  <1>2. QED
    BY WatchInitial, <1>1, PTL DEF WatchSpec

\* A check stays silent only about a state equal to a stored snapshot, for any agents,
\* files and commits.
THEOREM SilenceEarned == WatchSpec => []SilenceIsEarned
  <1>1. WatchInv => SilenceIsEarned
    BY SameWorld DEF WatchInv, WatchTyped, Compared, FromShot, SilenceIsEarned
  <1>2. QED
    BY WatchInvariant, <1>1, PTL

-----------------------------------------------------------------------------
(* AdaptationBridge                                                          *)

AdaptSpec == AdaptInit /\ [][AdaptNext]_avars

\* Receipts of module foil, and prompts that returned.
Records ==
  [obl : Obligations \cup {None}, task : Tasks \cup {None},
   verdict : {"CLEARED", "UNKNOWN", "UNAVAILABLE"}, action : {"prompt", "redteam", "snapshot"},
   prompt : Prompts \cup {None}]
Returned == [task : Tasks \cup {None}, prompt : Prompts]

AdaptTyped ==
  /\ active \in Tasks \cup {None}
  /\ obls \in [Tasks -> SUBSET Obligations]
  /\ records \in Seq(Records)
  /\ sess \in [Sessions -> PromptCalls \cup RouteCalls \cup {None}]
  /\ handled \in Seq(Returned)
  /\ crossed \in BOOLEAN

\* A session that writes the adaptations of task t; the last receipt of task t and
\* obligation o is a prompt's that clears it; the last prompt under t asked for o.
WritesFor(s, t) == sess[s] # None /\ sess[s].at = "write" /\ sess[s].task = t
OfTask(r, t, o) == r.task = t /\ r.obl = o
ClearedLast(t, o) ==
  \E i \in DOMAIN records :
    /\ OfTask(records[i], t, o) /\ records[i].action = "prompt" /\ records[i].verdict = "CLEARED"
    /\ \A k \in DOMAIN records : k > i => ~OfTask(records[k], t, o)
AskedLast(t, o) ==
  \E j \in DOMAIN handled :
    /\ handled[j].task = t /\ Asks(handled[j].prompt, o)
    /\ \A k \in DOMAIN handled : handled[k].task = t => k <= j

\* A prompt writes about obligations its task has.
Owned ==
  /\ \A i \in DOMAIN records : records[i].action = "prompt" =>
       /\ records[i].task \in Tasks
       /\ records[i].obl \in obls[records[i].task] \cap FoilOwned
  /\ \A s \in Sessions : sess[s] # None /\ sess[s].at = "write" /\ sess[s].todo # {} =>
       sess[s].task \in Tasks /\ sess[s].todo \subseteq obls[sess[s].task] \cap FoilOwned

\* As long as calls do not overlap, what a prompt cleared is what the last prompt of
\* the task asked for, or what the prompt that is writing has still to write.
Answered(t, o) ==
  /\ AskedLast(t, o) \/ \E s \in Sessions : WritesFor(s, t)
  /\ \A s \in Sessions : WritesFor(s, t) => o \in sess[s].todo \/ Asks(sess[s].prompt, o)
Answers ==
  /\ \A s, q \in Sessions : sess[s] # None /\ sess[q] # None => s = q
  /\ \A t \in Tasks, o \in Obligations : ClearedLast(t, o) => Answered(t, o)

AdaptInv == AdaptTyped /\ Owned /\ (~crossed => Answers)

-----------------------------------------------------------------------------
LEMMA AdaptInitial == AdaptInit => AdaptInv
  <1> SUFFICES ASSUME AdaptInit PROVE AdaptInv
    OBVIOUS
  <1>1. DOMAIN records = {} /\ \A s \in Sessions : sess[s] = None
    BY DEF AdaptInit
  <1>2. AdaptTyped
    BY EmptySeq DEF AdaptInit, AdaptTyped
  <1>3. Owned /\ Answers
    BY <1>1 DEF Owned, Answers, ClearedLast
  <1>4. QED
    BY <1>2, <1>3 DEF AdaptInv

\* The store's owner of an obligation is a task.
LEMMA TaskOfType ==
  ASSUME NEW t \in Tasks \cup {None}, NEW o
  PROVE  TaskOf(t, o) \in Tasks \cup {None}
  <1>1. CASE Owner(o) # {}
    <2>1. (CHOOSE u \in Owner(o) : TRUE) \in Owner(o)
      BY <1>1
    <2>2. QED
      BY <2>1 DEF TaskOf, Owner
  <1>2. CASE Owner(o) = {}
    BY <1>2 DEF TaskOf
  <1>3. QED
    BY <1>1, <1>2

\* A call begins: no prompt was writing, or calls overlap.
LEMMA CallKeeps ==
  ASSUME AdaptInv, NEW s \in Sessions, NEW c \in PromptCalls \cup RouteCalls, Call(s, c),
         c.at # "write", UNCHANGED <<active, obls, records, handled>>
  PROVE  AdaptInv'
  <1>1. \A q \in Sessions : sess'[q] = IF q = s THEN c ELSE sess[q]
    BY DEF Call, AdaptInv, AdaptTyped
  <1>2. AdaptTyped'
    BY DEF Call, AdaptInv, AdaptTyped
  <1>3. Owned'
    BY <1>1 DEF AdaptInv, Owned
  <1>4. ~crossed' => Answers'
    <2> SUFFICES ASSUME ~crossed' PROVE Answers'
      OBVIOUS
    <2>1. Answers /\ \A q \in Sessions : sess[q] = None
      BY DEF Call, Calling, AdaptInv
    <2>2. \A q \in Sessions : \A t : ~WritesFor(q, t)'
      BY <1>1, <2>1 DEF WritesFor
    <2>3. \A q \in Sessions : \A t : ~WritesFor(q, t)
      BY <2>1 DEF WritesFor
    <2>4. ASSUME NEW t \in Tasks, NEW o \in Obligations, ClearedLast(t, o)' PROVE AskedLast(t, o)'
      <3>1. ClearedLast(t, o)
        BY <2>4 DEF ClearedLast
      <3>2. AskedLast(t, o)
        BY <2>1, <2>3, <3>1 DEF Answers, Answered
      <3>3. QED
        BY <3>2 DEF AskedLast
    <2>5. \A a, b \in Sessions : sess'[a] # None /\ sess'[b] # None => a = b
      BY <1>1, <2>1
    <2>6. ASSUME NEW t \in Tasks, NEW o \in Obligations, ClearedLast(t, o)' PROVE Answered(t, o)'
      BY <2>2, <2>4, <2>6 DEF Answered
    <2>7. QED
      BY <2>5, <2>6 DEF Answers
  <1>5. QED
    BY <1>2, <1>3, <1>4 DEF AdaptInv

\* A prompt reads the obligations it will write about.
LEMMA ReadKeeps ==
  ASSUME AdaptInv, NEW s \in Sessions, ReadObligations(s)
  PROVE  AdaptInv'
  <1> DEFINE todo == IF sess[s].task = None THEN {} ELSE obls[sess[s].task] \cap FoilOwned
             c == [sess[s] EXCEPT !.at = "write", !.todo = todo]
  <1>1. sess[s] \in PromptCalls
    BY DEF ReadObligations, AdaptInv, AdaptTyped, RouteCalls
  <1>2. PICK k \in PromptCalls : k = sess[s]
    BY <1>1
  <1>3. todo \in SUBSET Obligations
    BY <1>1 DEF PromptCalls, AdaptInv, AdaptTyped
  <1>4. PICK l : l = [k EXCEPT !.at = "write", !.todo = todo]
    OBVIOUS
  <1>5. /\ l.at = "write" /\ l.todo = todo /\ l.task = k.task /\ l.prompt = k.prompt
        /\ l \in PromptCalls
    BY <1>3, <1>4 DEF PromptCalls
  <1>6. /\ \A q \in Sessions : sess'[q] = IF q = s THEN l ELSE sess[q]
        /\ UNCHANGED <<active, obls, records, handled, crossed, calls>> /\ sess[s] # None
    BY <1>2, <1>4 DEF ReadObligations, AdaptInv, AdaptTyped
  <1>7. AdaptTyped'
    BY <1>2, <1>4, <1>5 DEF ReadObligations, AdaptInv, AdaptTyped
  <1>8. todo # {} => k.task \in Tasks /\ todo \subseteq obls[k.task] \cap FoilOwned
    BY <1>2 DEF PromptCalls
  <1> HIDE DEF todo
  <1>9. Owned'
    BY <1>5, <1>6, <1>8 DEF AdaptInv, Owned
  <1>10. ASSUME ~crossed PROVE Answers'
    <2>1. Answers
      BY <1>10 DEF AdaptInv
    <2>2. l # None
      BY <1>5, BridgeAssumption
    <2>3. \A q \in Sessions : sess'[q] # None => q = s
      BY <1>6, <2>1 DEF Answers
    <2>4. ASSUME NEW o \in Obligations, ClearedLast(k.task, o) PROVE o \in todo
      BY <1>2, <2>4, BridgeAssumption DEF ClearedLast, OfTask, AdaptInv, Owned, todo
    <2>5. \A q \in Sessions : \A t : WritesFor(q, t)' => q = s /\ t = k.task
      BY <1>5, <1>6, <2>3 DEF WritesFor
    <2>6. WritesFor(s, k.task)'
      BY <1>5, <1>6, <2>2 DEF WritesFor
    <2>7. \A q \in Sessions : \A t : ~WritesFor(q, t)
      BY <1>6, <2>1 DEF WritesFor, Answers, ReadObligations
    <2>8. ASSUME NEW t \in Tasks, NEW o \in Obligations, ClearedLast(t, o)' PROVE Answered(t, o)'
      <3>1. ClearedLast(t, o)
        BY <1>6, <2>8 DEF ClearedLast
      <3>2. AskedLast(t, o)
        BY <2>1, <2>7, <3>1 DEF Answers, Answered
      <3>3. AskedLast(t, o)'
        BY <1>6, <3>2 DEF AskedLast
      <3>4. ASSUME NEW q \in Sessions, WritesFor(q, t)' PROVE o \in sess'[q].todo
        BY <1>5, <1>6, <2>4, <2>5, <3>1, <3>4
      <3>5. QED
        BY <3>3, <3>4 DEF Answered
    <2>9. \A a, b \in Sessions : sess'[a] # None /\ sess'[b] # None => a = b
      BY <2>3
    <2>10. QED
      BY <2>8, <2>9 DEF Answers
  <1>11. QED
    BY <1>6, <1>7, <1>9, <1>10 DEF AdaptInv

\* A receipt is appended: of those before it, the last cleared ones were so before.
LEMMA AppendedRecord ==
  ASSUME AdaptTyped, NEW r \in Records, records' = Append(records, r)
  PROVE  /\ records' \in Seq(Records)
         /\ DOMAIN records' = DOMAIN records \cup {Len(records) + 1}
         /\ Len(records) + 1 \notin DOMAIN records
         /\ records'[Len(records) + 1] = r
         /\ \A i \in DOMAIN records : records'[i] = records[i]
         /\ \A t, o : ClearedLast(t, o)' =>
              \/ ClearedLast(t, o) /\ ~OfTask(r, t, o)
              \/ OfTask(r, t, o) /\ r.action = "prompt" /\ r.verdict = "CLEARED"
  <1>1. records \in Seq(Records) /\ DOMAIN records = 1..Len(records) /\ Len(records) \in Nat
    BY LenProperties DEF AdaptTyped
  <1>2. /\ records' \in Seq(Records) /\ Len(records') = Len(records) + 1
        /\ \A i \in 1..Len(records) : records'[i] = records[i]
        /\ records'[Len(records) + 1] = r
    BY <1>1, AppendProperties
  <1>3. DOMAIN records' = 1..(Len(records) + 1)
    BY <1>2, LenProperties
  <1>4. DOMAIN records' = DOMAIN records \cup {Len(records) + 1}
    BY <1>1, <1>3
  <1>5. Len(records) + 1 \notin DOMAIN records
    BY <1>1
  <1>6. ASSUME NEW t, NEW o, ClearedLast(t, o)'
        PROVE  \/ ClearedLast(t, o) /\ ~OfTask(r, t, o)
               \/ OfTask(r, t, o) /\ r.action = "prompt" /\ r.verdict = "CLEARED"
    <2>1. PICK i \in DOMAIN records' :
            /\ OfTask(records'[i], t, o) /\ records'[i].action = "prompt"
            /\ records'[i].verdict = "CLEARED"
            /\ \A k \in DOMAIN records' : k > i => ~OfTask(records'[k], t, o)
      BY <1>6 DEF ClearedLast, OfTask
    <2>2. CASE i = Len(records) + 1
      BY <1>2, <2>1, <2>2
    <2>3. CASE i \in 1..Len(records)
      <3>1. Len(records) + 1 > i /\ i \in DOMAIN records
        BY <1>1, <2>3
      <3>2. ~OfTask(r, t, o)
        BY <1>2, <1>4, <2>1, <3>1
      <3>3. \A k \in DOMAIN records : k > i => ~OfTask(records[k], t, o)
        BY <1>1, <1>2, <1>4, <2>1
      <3>4. ClearedLast(t, o)
        BY <1>2, <2>1, <2>3, <3>1, <3>3 DEF ClearedLast
      <3>5. QED
        BY <3>2, <3>4
    <2>4. QED
      BY <1>1, <1>4, <2>1, <2>2, <2>3
  <1>7. QED
    BY <1>1, <1>2, <1>4, <1>5, <1>6

\* A prompt writes one of its receipts.
LEMMA RecordKeeps ==
  ASSUME AdaptInv, NEW s \in Sessions, RecordAdaptation(s)
  PROVE  AdaptInv'
  <1>1. sess[s] \in PromptCalls /\ sess[s] # None /\ sess[s].at = "write"
    BY DEF RecordAdaptation, AdaptInv, AdaptTyped, RouteCalls
  <1>2. PICK k \in PromptCalls : k = sess[s]
    BY <1>1
  <1>3. PICK o \in k.todo :
          /\ records' = Append(records,
               [obl |-> o, task |-> k.task, verdict |-> Verdict(k.prompt, o),
                action |-> "prompt", prompt |-> k.prompt])
          /\ sess' = [sess EXCEPT ![s].todo = @ \ {o}]
    BY <1>2 DEF RecordAdaptation
  <1> DEFINE r == [obl |-> o, task |-> k.task, verdict |-> Verdict(k.prompt, o),
                   action |-> "prompt", prompt |-> k.prompt]
  <1>4. PICK l : l = [k EXCEPT !.todo = k.todo \ {o}]
    OBVIOUS
  <1>5. /\ l.at = k.at /\ l.todo = k.todo \ {o} /\ l.task = k.task /\ l.prompt = k.prompt
        /\ l \in PromptCalls
    BY <1>4 DEF PromptCalls
  <1>6. /\ \A q \in Sessions : sess'[q] = IF q = s THEN l ELSE sess[q]
        /\ sess' \in [Sessions -> PromptCalls \cup RouteCalls \cup {None}]
        /\ UNCHANGED <<active, obls, handled, crossed, calls>>
    BY <1>2, <1>3, <1>4, <1>5 DEF RecordAdaptation, AdaptInv, AdaptTyped
  <1>7. k.task \in Tasks /\ o \in obls[k.task] \cap FoilOwned
    BY <1>1, <1>2 DEF AdaptInv, Owned
  <1>8. r \in Records
    BY <1>7, BridgeAssumption DEF Records, Verdict, PromptCalls
  <1>9. /\ records' \in Seq(Records)
        /\ DOMAIN records' = DOMAIN records \cup {Len(records) + 1}
        /\ records'[Len(records) + 1] = r
        /\ \A i \in DOMAIN records : records'[i] = records[i]
        /\ \A t \in Tasks, p \in Obligations : ClearedLast(t, p)' =>
             \/ ClearedLast(t, p) /\ ~OfTask(r, t, p)
             \/ OfTask(r, t, p) /\ Asks(k.prompt, p)
    <2>1. \A t, p : OfTask(r, t, p) /\ r.verdict = "CLEARED" => Asks(k.prompt, p)
      BY DEF OfTask, Verdict
    <2> HIDE DEF r
    <2>2. records' = Append(records, r)
      BY <1>3 DEF r
    <2>3. QED
      BY <1>8, <2>1, <2>2, AppendedRecord DEF AdaptInv
  <1>10. r.obl = o /\ r.task = k.task /\ r.action = "prompt"
    OBVIOUS
  <1> HIDE DEF r
  <1>11. AdaptTyped'
    BY <1>6, <1>9 DEF AdaptInv, AdaptTyped
  <1>12. Owned'
    <2>1. ASSUME NEW i \in DOMAIN records', records'[i].action = "prompt"
          PROVE  records'[i].task \in Tasks /\ records'[i].obl \in obls[records'[i].task] \cap FoilOwned
      <3>1. CASE i \in DOMAIN records
        BY <1>9, <2>1, <3>1 DEF AdaptInv, Owned
      <3>2. CASE i = Len(records) + 1
        BY <1>7, <1>9, <1>10, <3>2
      <3>3. QED
        BY <1>9, <2>1, <3>1, <3>2
    <2>2. k.todo # {} /\ k.todo \subseteq obls[k.task] \cap FoilOwned
      BY <1>1, <1>2 DEF AdaptInv, Owned
    <2>3. ASSUME NEW q \in Sessions, sess'[q] # None, sess'[q].at = "write", sess'[q].todo # {}
          PROVE  sess'[q].task \in Tasks /\ sess'[q].todo \subseteq obls[sess'[q].task] \cap FoilOwned
      <3>1. CASE q = s
        BY <1>5, <1>6, <1>7, <2>2, <3>1
      <3>2. CASE q # s
        BY <1>6, <2>3, <3>2 DEF AdaptInv, Owned
      <3>3. QED
        BY <3>1, <3>2
    <2>4. QED
      BY <1>6, <2>1, <2>3 DEF Owned
  <1>13. ASSUME ~crossed PROVE Answers'
    <2>1. Answers
      BY <1>13 DEF AdaptInv
    <2>2. l # None
      BY <1>5, BridgeAssumption
    <2>3. \A q \in Sessions : sess'[q] # None => q = s
      BY <1>1, <1>6, <2>1 DEF Answers
    <2>4. WritesFor(s, k.task) /\ WritesFor(s, k.task)'
      BY <1>1, <1>2, <1>5, <1>6, <2>2 DEF WritesFor
    <2>5. \A q \in Sessions : \A t : WritesFor(q, t)' => q = s /\ t = k.task
      BY <1>5, <1>6, <2>3 DEF WritesFor
    <2>6. \A q \in Sessions : \A t : WritesFor(q, t) => q = s /\ t = k.task
      BY <1>1, <1>2, <2>1 DEF WritesFor, Answers
    <2>7. ASSUME NEW t \in Tasks, NEW p \in Obligations, ClearedLast(t, p)' PROVE Answered(t, p)'
      <3>1. AskedLast(t, p) <=> AskedLast(t, p)'
        BY <1>6 DEF AskedLast
      <3>2. CASE OfTask(r, t, p) /\ Asks(k.prompt, p)
        <4>1. t = k.task
          BY <1>10, <3>2 DEF OfTask
        <4>2. QED
          BY <1>5, <1>6, <2>4, <2>5, <3>2, <4>1 DEF Answered
      <3>3. CASE ClearedLast(t, p) /\ ~OfTask(r, t, p)
        <4>1. Answered(t, p)
          BY <2>1, <3>3 DEF Answers
        <4>2. CASE t = k.task
          <5>1. p # o
            BY <1>10, <3>3, <4>2 DEF OfTask
          <5>2. p \in k.todo \/ Asks(k.prompt, p)
            BY <1>2, <2>4, <4>1, <4>2 DEF Answered
          <5>3. p \in sess'[s].todo \/ Asks(sess'[s].prompt, p)
            BY <1>5, <1>6, <5>1, <5>2 DEF Asks
          <5>4. QED
            BY <2>4, <2>5, <4>2, <5>3 DEF Answered
        <4>3. CASE t # k.task
          BY <2>5, <2>6, <3>1, <4>1, <4>3 DEF Answered
        <4>4. QED
          BY <4>2, <4>3
      <3>4. QED
        BY <1>9, <2>7, <3>2, <3>3
    <2>8. \A a, b \in Sessions : sess'[a] # None /\ sess'[b] # None => a = b
      BY <2>3
    <2>9. QED
      BY <2>7, <2>8 DEF Answers
  <1>14. QED
    BY <1>6, <1>11, <1>12, <1>13 DEF AdaptInv

\* A prompt returns: from here it is the last of its task.
LEMMA ReturnKeeps ==
  ASSUME AdaptInv, NEW s \in Sessions, PromptReturns(s)
  PROVE  AdaptInv'
  <1>1. sess[s] \in PromptCalls /\ sess[s] # None /\ sess[s].at = "write" /\ sess[s].todo = {}
    BY DEF PromptReturns, AdaptInv, AdaptTyped, RouteCalls
  <1>2. PICK k \in PromptCalls : k = sess[s]
    BY <1>1
  <1> DEFINE h == [task |-> k.task, prompt |-> k.prompt]
  <1>3. /\ handled' = Append(handled, h) /\ UNCHANGED <<active, obls, records, crossed, calls>>
        /\ \A q \in Sessions : sess'[q] = IF q = s THEN None ELSE sess[q]
    BY <1>2 DEF PromptReturns, AdaptInv, AdaptTyped
  <1>4. h \in Returned /\ h.task = k.task /\ h.prompt = k.prompt
    BY DEF Returned, PromptCalls
  <1> HIDE DEF h
  <1>5. /\ handled' \in Seq(Returned) /\ DOMAIN handled = 1..Len(handled) /\ Len(handled) \in Nat
        /\ DOMAIN handled' = 1..(Len(handled) + 1)
        /\ handled'[Len(handled) + 1] = h
        /\ \A j \in 1..Len(handled) : handled'[j] = handled[j]
    BY <1>3, <1>4, AppendProperties, LenProperties DEF AdaptInv, AdaptTyped
  <1>6. AdaptTyped'
    BY <1>5 DEF PromptReturns, AdaptInv, AdaptTyped
  <1>7. Owned'
    BY <1>3 DEF AdaptInv, Owned
  <1>8. ASSUME ~crossed PROVE Answers'
    <2>1. Answers
      BY <1>8 DEF AdaptInv
    <2>2. \A q \in Sessions : sess'[q] = None
      BY <1>1, <1>3, <2>1 DEF Answers
    <2>3. \A q \in Sessions : \A t : WritesFor(q, t) => q = s /\ t = k.task
      BY <1>1, <1>2, <2>1 DEF WritesFor, Answers
    <2>4. WritesFor(s, k.task)
      BY <1>1, <1>2 DEF WritesFor
    <2>5. ASSUME NEW o, Asks(k.prompt, o) PROVE AskedLast(k.task, o)'
      <3>1. Len(handled) + 1 \in DOMAIN handled' /\ \A j \in DOMAIN handled' : j <= Len(handled) + 1
        BY <1>5
      <3>2. QED
        BY <1>4, <1>5, <2>5, <3>1 DEF AskedLast
    <2>6. ASSUME NEW t, NEW o, t # k.task, AskedLast(t, o) PROVE AskedLast(t, o)'
      <3>1. PICK j \in DOMAIN handled : /\ handled[j].task = t /\ Asks(handled[j].prompt, o)
                                        /\ \A l \in DOMAIN handled : handled[l].task = t => l <= j
        BY <2>6 DEF AskedLast
      <3>2. \A l \in DOMAIN handled' : handled'[l].task = t => l \in DOMAIN handled
        BY <1>4, <1>5, <2>6
      <3>3. j \in DOMAIN handled' /\ handled'[j] = handled[j]
        BY <1>5
      <3>4. QED
        BY <1>5, <3>1, <3>2, <3>3 DEF AskedLast
    <2>7. ASSUME NEW t \in Tasks, NEW o \in Obligations, ClearedLast(t, o)' PROVE Answered(t, o)'
      <3>1. ClearedLast(t, o)
        BY <1>3, <2>7 DEF ClearedLast
      <3>2. Answered(t, o)
        BY <2>1, <3>1 DEF Answers
      <3>3. CASE t = k.task
        <4>1. o \in sess[s].todo \/ Asks(sess[s].prompt, o)
          BY <2>4, <3>2, <3>3 DEF Answered
        <4>2. AskedLast(t, o)'
          BY <1>1, <1>2, <2>5, <3>3, <4>1
        <4>3. QED
          BY <2>2, <4>2 DEF Answered, WritesFor
      <3>4. CASE t # k.task
        <4>1. AskedLast(t, o)
          BY <2>3, <3>2, <3>4 DEF Answered
        <4>2. QED
          BY <2>2, <2>6, <3>4, <4>1 DEF Answered, WritesFor
      <3>5. QED
        BY <3>3, <3>4
    <2>8. QED
      BY <2>2, <2>7 DEF Answers
  <1>9. QED
    BY <1>3, <1>6, <1>7, <1>8 DEF AdaptInv

\* A receipt no prompt writes, by a call that was no prompt's.
LEMMA OtherRecordKeeps ==
  ASSUME AdaptInv, NEW r \in Records, r.action # "prompt", records' = Append(records, r),
         UNCHANGED <<active, obls, handled>>, crossed' \in BOOLEAN, crossed => crossed',
         NEW s \in Sessions, sess[s] # None => sess[s].at # "write",
         sess' = sess \/ sess' = [sess EXCEPT ![s] = None]
  PROVE  AdaptInv'
  <1>1. /\ records' \in Seq(Records)
        /\ DOMAIN records' = DOMAIN records \cup {Len(records) + 1}
        /\ records'[Len(records) + 1] = r
        /\ \A i \in DOMAIN records : records'[i] = records[i]
        /\ \A t, o : ClearedLast(t, o)' => ClearedLast(t, o)
    BY AppendedRecord DEF AdaptInv
  <1>2. \A q \in Sessions : sess'[q] # None => sess'[q] = sess[q]
    BY DEF AdaptInv, AdaptTyped
  <1>3. \A q \in Sessions : \A t : WritesFor(q, t)' <=> WritesFor(q, t)
    BY <1>2 DEF WritesFor, AdaptInv, AdaptTyped
  <1>4. AdaptTyped'
    BY <1>1 DEF AdaptInv, AdaptTyped
  <1>5. Owned'
    BY <1>1, <1>2 DEF AdaptInv, Owned
  <1>6. ASSUME ~crossed' PROVE Answers'
    <2>1. Answers
      BY <1>6 DEF AdaptInv
    <2>2. ASSUME NEW t \in Tasks, NEW o \in Obligations, ClearedLast(t, o)' PROVE Answered(t, o)'
      <3>1. Answered(t, o)
        BY <1>1, <2>1, <2>2 DEF Answers
      <3>2. AskedLast(t, o) <=> AskedLast(t, o)'
        BY DEF AskedLast
      <3>3. \A q \in Sessions : WritesFor(q, t) => sess'[q] = sess[q]
        BY <1>2, <1>3 DEF WritesFor
      <3>4. QED
        BY <1>3, <3>1, <3>2, <3>3 DEF Answered
    <2>3. \A a, b \in Sessions : sess'[a] # None /\ sess'[b] # None => a = b
      BY <1>2, <2>1 DEF Answers
    <2>4. QED
      BY <2>2, <2>3 DEF Answers
  <1>7. QED
    BY <1>4, <1>5, <1>6 DEF AdaptInv

\* The other calls write receipts no prompt answers for; a call fails; tasks move on.
LEMMA RouteKeeps ==
  ASSUME AdaptInv, NEW s \in Sessions, RecordRouting(s)
  PROVE  AdaptInv'
  <1>1. sess[s] \in RouteCalls
    BY DEF RecordRouting, AdaptInv, AdaptTyped, PromptCalls
  <1>2. PICK available \in BOOLEAN, o \in Obligations \cup {None} :
          records' = Append(records,
            [obl |-> o, task |-> TaskOf(sess[s].task, o), verdict |-> RouteVerdict(available, o),
             action |-> "redteam", prompt |-> None])
    BY <1>1 DEF RecordRouting, RouteCalls, Candidates, AdaptInv, AdaptTyped
  <1> DEFINE r == [obl |-> o, task |-> TaskOf(sess[s].task, o),
                   verdict |-> RouteVerdict(available, o), action |-> "redteam", prompt |-> None]
  <1>3. TaskOf(sess[s].task, o) \in Tasks \cup {None}
    BY <1>1, TaskOfType DEF RouteCalls
  <1>4. RouteVerdict(available, o) \in {"CLEARED", "UNKNOWN", "UNAVAILABLE"}
    BY DEF RouteVerdict
  <1>5. r \in Records /\ r.action # "prompt"
    BY <1>3, <1>4 DEF Records
  <1> HIDE DEF r
  <1>6. records' = Append(records, r) /\ crossed' = crossed /\ sess[s].at # "write"
        /\ sess' = [sess EXCEPT ![s] = None] /\ UNCHANGED <<active, obls, handled>>
    BY <1>2 DEF RecordRouting, r
  <1>7. QED
    BY <1>5, <1>6, OtherRecordKeeps DEF AdaptInv, AdaptTyped

LEMMA SnapshotKeeps ==
  ASSUME AdaptInv, NEW s \in Sessions, Snapshot(s)
  PROVE  AdaptInv'
  <1>1. PICK o \in Obligations, v \in {"UNKNOWN", "UNAVAILABLE"} :
          records' = Append(records, [obl |-> o, task |-> TaskOf(None, o), verdict |-> v,
                                      action |-> "snapshot", prompt |-> None])
    BY DEF Snapshot
  <1> DEFINE r == [obl |-> o, task |-> TaskOf(None, o), verdict |-> v,
                   action |-> "snapshot", prompt |-> None]
  <1>2. r \in Records /\ r.action # "prompt"
    BY TaskOfType DEF Records
  <1> HIDE DEF r
  <1>3. /\ records' = Append(records, r) /\ UNCHANGED <<active, obls, handled, sess>>
        /\ crossed' = (crossed \/ Calling # {}) /\ sess[s] = None
    BY <1>1 DEF Snapshot, r
  <1>4. crossed' \in BOOLEAN /\ (crossed => crossed')
    BY <1>3 DEF AdaptInv, AdaptTyped
  <1>5. QED
    BY <1>2, <1>3, <1>4, OtherRecordKeeps

LEMMA FailsKeeps ==
  ASSUME AdaptInv, NEW s \in Sessions, BridgeFails(s)
  PROVE  AdaptInv'
  BY DEF BridgeFails, AdaptInv, AdaptTyped, Owned

LEMMA RuntimeKeeps ==
  ASSUME AdaptInv, Activate \/ Oblige
  PROVE  AdaptInv'
  <1>1. UNCHANGED <<records, sess, handled, crossed>>
    BY DEF Activate, Oblige
  <1>2. AdaptTyped' /\ \A t \in Tasks : obls[t] \subseteq obls'[t]
    BY DEF Activate, Oblige, AdaptInv, AdaptTyped
  <1>3. Owned'
    BY <1>1, <1>2 DEF AdaptInv, Owned
  <1>4. Answers => Answers'
    BY <1>1 DEF Answers, Answered, ClearedLast, AskedLast, WritesFor
  <1>5. QED
    BY <1>1, <1>2, <1>3, <1>4 DEF AdaptInv

\* The invariant of the bridge, overlapping calls and deaths included.
THEOREM AdaptInvariant == AdaptSpec => []AdaptInv
  <1>1. AdaptInv /\ [AdaptNext]_avars => AdaptInv'
    <2> SUFFICES ASSUME AdaptInv, [AdaptNext]_avars PROVE AdaptInv'
      OBVIOUS
    <2>1. ASSUME NEW s \in Sessions, SubmitPrompt(s) PROVE AdaptInv'
      <3>1. PICK prompt \in Prompts :
              Call(s, [at |-> "prompt", prompt |-> prompt, task |-> active, todo |-> {}])
        BY <2>1 DEF SubmitPrompt
      <3> DEFINE c == [at |-> "prompt", prompt |-> prompt, task |-> active, todo |-> {}]
      <3>2. c \in PromptCalls /\ c.at # "write"
        BY DEF PromptCalls, AdaptInv, AdaptTyped
      <3>3. QED
        BY <2>1, <3>1, <3>2, CallKeeps DEF SubmitPrompt
    <2>2. ASSUME NEW s \in Sessions, RouteRedteam(s) PROVE AdaptInv'
      <3>1. PICK o \in Obligations \cup {None} : Call(s, [at |-> "route", obl |-> o, task |-> active])
        BY <2>2 DEF RouteRedteam
      <3> DEFINE c == [at |-> "route", obl |-> o, task |-> active]
      <3>2. c \in RouteCalls /\ c.at # "write"
        BY DEF RouteCalls, AdaptInv, AdaptTyped
      <3>3. QED
        BY <2>2, <3>1, <3>2, CallKeeps DEF RouteRedteam
    <2>3. CASE AdaptNext
      BY <2>1, <2>2, <2>3, ReadKeeps, RecordKeeps, ReturnKeeps, RouteKeeps, SnapshotKeeps,
         FailsKeeps, RuntimeKeeps DEF AdaptNext, BridgeStep
    <2>4. CASE UNCHANGED avars
      BY <2>4 DEF avars, AdaptInv, AdaptTyped, Owned, Answers, Answered, ClearedLast, AskedLast, WritesFor
    <2>5. QED
      BY <2>3, <2>4
  <1>2. QED
    BY AdaptInitial, <1>1, PTL DEF AdaptSpec

\* An obligation a prompt cleared is one the last prompt of its task asked for, as long
\* as no calls overlapped, for any tasks, obligations and sessions.
THEOREM ClearedByLast == AdaptSpec => []ClearedByTheLastPrompt
  <1>1. AdaptInv => ClearedByTheLastPrompt
    <2> SUFFICES ASSUME AdaptInv, ~crossed, Calling = {}, NEW t \in Tasks, NEW o \in Obligations,
                        NEW i \in DOMAIN records, IsLast(i, Counting(t, o)),
                        records[i].verdict = "CLEARED", records[i].action = "prompt"
                 PROVE  \E j \in DOMAIN handled :
                          /\ IsLast(j, PromptsUnder(t))
                          /\ handled[j].prompt.alias \/ o \in handled[j].prompt.named
      BY DEF ClearedByTheLastPrompt
    <2>1. DOMAIN records \subseteq Nat /\ DOMAIN handled \subseteq Nat
      BY LenProperties DEF AdaptInv, AdaptTyped
    <2>2. records[i].obl = o /\ records[i].task = t /\ o \in FoilOwned /\ o \in obls[t]
      BY DEF IsLast, Counting, Counts
    <2>3. ClearedLast(t, o)
      BY <2>1, <2>2 DEF ClearedLast, OfTask, IsLast, Counting, Counts
    <2>4. AskedLast(t, o)
      BY <2>3 DEF AdaptInv, Answers, Answered, WritesFor, Calling
    <2>5. QED
      BY <2>4 DEF AskedLast, IsLast, PromptsUnder, Asks
  <1>2. QED
    BY AdaptInvariant, <1>1, PTL
=============================================================================
