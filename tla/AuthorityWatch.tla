--------------------------- MODULE AuthorityWatch ---------------------------
(***************************************************************************)
(* The stale-authority monitor of tools/gauntlet_monitor.py and the gates  *)
(* of tools/gauntlet_hook.py: a snapshot of the governing files and of the *)
(* git head is stored at the start of a session and after a commit; before *)
(* a write or a git synchronisation the present state is compared with it, *)
(* and a difference asks the user. Sessions and other people change the    *)
(* files in between; nothing is locked.                                    *)
(***************************************************************************)
EXTENDS Integers, Sequences, FiniteSets, SequencesExt, Absence

CONSTANTS
  Agents,      \* sessions whose hooks run
  Governing, Contents, Commits,
  MaxChanges,  \* bound: changes of a file or of the head
  MaxHooks     \* bound: hooks begun

ASSUME WatchAssumption ==
  /\ None \notin Contents \cup Commits
  /\ Commits # {}
  /\ MaxChanges \in Nat /\ MaxHooks \in Nat

VARIABLES
  world,    \* the governing files and the head as they are
  base,     \* gauntlet_monitor.json, or None
  agent,    \* agent[a]: the hook a is in, with what it has read
  logged,   \* drifts emitted as authority.changed
  shots,    \* history: the states snapshots have stored
  changes, hooks

wvars == <<world, base, agent, logged, shots, changes, hooks>>

\* A missing file is None; a head git does not tell is None.
States == [head : Commits \cup {None}, files : [Governing -> Contents \cup {None}]]
Idle == [at |-> "idle"]

\* diff_state: an unknown head is no change; a file created or deleted is one.
Diff_SkipAbsent(before, after) ==
  {f \in Governing : None \notin {before.files[f], after.files[f]}
                     /\ before.files[f] # after.files[f]}
Diff(before, after) ==
  {f \in Governing : before.files[f] # after.files[f]}
    \cup (IF None \notin {before.head, after.head} /\ before.head # after.head
          THEN {"HEAD"} ELSE {})

WatchInit ==
  /\ world \in [head : Commits, files : [Governing -> Contents \cup {None}]]
  /\ base = None
  /\ agent = [a \in Agents |-> Idle]
  /\ logged = <<>>
  /\ shots = {}
  /\ changes = 0 /\ hooks = 0

\* Anyone edits, creates or deletes a governing file, or moves the head.
ChangeWorld ==
  /\ changes < MaxChanges /\ changes' = changes + 1
  /\ \/ \E f \in Governing, c \in Contents \cup {None} :
          /\ c # world.files[f]
          /\ world' = [world EXCEPT !.files[f] = c]
     \/ \E c \in Commits \ {world.head} : world' = [world EXCEPT !.head = c]
  /\ UNCHANGED <<base, agent, logged, shots, hooks>>

To(a, state) == agent' = [agent EXCEPT ![a] = state]

\* build_state asks git for the head, which may fail or time out, and then reads
\* the files one after the other. What is built is for end, "store" or "compare".
BuildHead(a, end, before) ==
  \E h \in {world.head, None} :
    To(a, [at |-> "read", end |-> end, before |-> before, unread |-> Governing,
           state |-> [head |-> h, files |-> [f \in Governing |-> None]]])
BuildFile(a) ==
  /\ agent[a].at = "read"
  /\ \E f \in agent[a].unread :
       To(a, [agent[a] EXCEPT !.unread = @ \ {f}, !.state.files[f] = world.files[f]])
  /\ UNCHANGED <<world, base, logged, shots, changes, hooks>>
HasBuilt(a, end) == agent[a].at = "read" /\ agent[a].unread = {} /\ agent[a].end = end

\* snapshot: session start, a new task, or after the git commit of post_tool.
SnapshotBegin(a) ==
  /\ agent[a].at \in {"idle", "committed"}
  /\ agent[a].at = "idle" => hooks < MaxHooks
  /\ hooks' = hooks + (IF agent[a].at = "idle" THEN 1 ELSE 0)
  /\ BuildHead(a, "store", None)
  /\ UNCHANGED <<world, base, logged, shots, changes>>
SnapshotStore(a) ==
  /\ HasBuilt(a, "store")
  /\ base' = agent[a].state
  /\ shots' = shots \cup {agent[a].state}
  /\ To(a, Idle)
  /\ UNCHANGED <<world, logged, changes, hooks>>

\* check, before a write or a git pull, fetch, merge, rebase or push: the
\* snapshot is read first, the world afterwards. No snapshot is no drift.
CheckBegin(a) ==
  /\ agent[a].at = "idle"
  /\ hooks < MaxHooks /\ hooks' = hooks + 1
  /\ IF base = None THEN To(a, [at |-> "silent", before |-> None, now |-> None])
     ELSE BuildHead(a, "compare", base)
  /\ UNCHANGED <<world, base, logged, shots, changes>>
CheckCompare(a) ==
  /\ HasBuilt(a, "compare")
  /\ To(a, [at |-> IF Diff(agent[a].before, agent[a].state) = {} THEN "silent" ELSE "emit",
            before |-> agent[a].before, now |-> agent[a].state])
  /\ UNCHANGED <<world, base, logged, shots, changes, hooks>>
\* The event is written before the question is printed.
EmitDrift(a) ==
  /\ agent[a].at = "emit"
  /\ logged' = Append(logged, Diff(agent[a].before, agent[a].now))
  /\ To(a, [agent[a] EXCEPT !.at = "ask"])
  /\ UNCHANGED <<world, base, shots, changes, hooks>>

\* The write goes ahead, asked or not; the user may also refuse.
Write(a) ==
  /\ agent[a].at \in {"silent", "ask"}
  /\ \/ UNCHANGED <<world, changes>>
     \/ /\ changes < MaxChanges /\ changes' = changes + 1
        /\ \E f \in Governing, c \in Contents : world' = [world EXCEPT !.files[f] = c]
  /\ To(a, Idle)
  /\ UNCHANGED <<base, logged, shots, hooks>>

\* git commit: the evidence-ledger gate of pre_tool lets it pass or denies it, and
\* post_tool takes a snapshot, whatever drift there was.
GitCommit(a) ==
  /\ agent[a].at = "idle"
  /\ hooks < MaxHooks /\ hooks' = hooks + 1
  /\ \E passes \in BOOLEAN :
       \/ /\ ~passes
          /\ UNCHANGED <<world, agent, changes>>
       \/ /\ passes
          /\ changes < MaxChanges /\ changes' = changes + 1
          /\ \E c \in Commits \ {world.head} : world' = [world EXCEPT !.head = c]
          /\ To(a, [at |-> "committed"])
  /\ UNCHANGED <<base, logged, shots>>

\* A hook is killed or times out; the tool call goes ahead without an answer.
HookEnds(a) ==
  /\ agent[a].at \in {"read", "emit", "committed"}
  /\ To(a, Idle)
  /\ UNCHANGED <<world, base, logged, shots, changes, hooks>>

WatchStep(a) ==
  \/ SnapshotBegin(a) \/ BuildFile(a) \/ SnapshotStore(a) \/ CheckBegin(a) \/ CheckCompare(a)
  \/ EmitDrift(a) \/ Write(a) \/ GitCommit(a) \/ HookEnds(a)
WatchNext == ChangeWorld \/ \E a \in Agents : WatchStep(a)

-----------------------------------------------------------------------------
(* Properties *)

\* A write that is not asked about meets what some snapshot stored: once there is
\* one, all the governing files as the hook read them, and the head if git told it
\* both times, are those of a single snapshot, although each was read at a moment
\* of its own and snapshots may overtake each other.
SilenceIsEarned ==
  \A a \in Agents : agent[a].at = "silent" /\ agent[a].before # None =>
    \E s \in shots :
      /\ s.files = agent[a].now.files
      /\ s.head = agent[a].now.head \/ None \in {s.head, agent[a].now.head}
=============================================================================
