------------------------------ MODULE FoilStore ------------------------------
(***************************************************************************)
(* The profile files and the pointer to the active one, as the command     *)
(* lines of foil_profile, foil_assessment, foil_calibration, foil_layer2   *)
(* and the prompt hook of foil_hook use them: every command loads the      *)
(* file, changes its copy and writes the copy back, under no lock. A write *)
(* replaces the file as a whole.                                           *)
(***************************************************************************)
EXTENDS FoilCalibration

CONSTANTS
  Names,       \* profile names
  Default,     \* the name bootstrap_active uses
  Clients,     \* processes
  Attempts,    \* what the observe command is told
  Reports,     \* scored item sequences
  Seeds,       \* of layer 2 sessions
  Initial,     \* the contents a profile file may start with
  MaxClock,    \* bound: ticks of the clock
  MaxCommands  \* bound: commands begun

\* A probe of the history, and a profile. What a v1 file saw was seen by clock 0.
Ids == (Kinds \X Nat) \cup ({"layer2"} \X Seeds \X Facets \X Nat)
Probes == [id : Ids, facet : Facets, source : Sources]
FacetCounts == [DOMAIN NewFacet -> Nat]
Profiles ==
  [schema : {"v2"}, rows : [Domains -> Rows(Observations) \cup {None}],
   probes : Seq(Probes), facets : [Facets -> FacetCounts]]
LegacyProfiles ==
  [schema : {"v1"},
   rows : [Domains -> {r \in Rows(LegacyObservations) : r.seen \in {0, None}} \cup {None}],
   probes : Seq(Probes), facets : [Facets -> FacetCounts]]

\* No number of a probe is past the count of its kind.
Numbered(p) ==
  \A k \in DOMAIN p.probes :
    p.probes[k].id[1] \in Kinds => p.probes[k].id[2] <= Count(p, p.probes[k].id[1])

\* The weight of an observation only decays. Layer 2's ids are no kind's, and a
\* command's own steps are no domain's. No write was lost before the start.
ASSUME StoreAssumption ==
  /\ Default \in Names /\ None \notin Names /\ None \notin Domains \cup Facets
  /\ Kept \in Nat \ {0} /\ HistoryCap \in Nat \ {0}
  /\ MaxClock \in Nat /\ MaxCommands \in Nat
  /\ \A t \in Tiers : \A a \in 0..MaxClock : Weight(t, a) \in 0..Weight(t, 0)
  /\ Attempts \subseteq Attempted
  /\ Reports \subseteq Seq(Scored)
  /\ "layer2" \notin Kinds /\ {"save", "activate"} \cap Domains = {}
  /\ Initial \subseteq {NewProfile} \cup LegacyProfiles
  /\ \A p \in Initial : Full(p) \/ Numbered(p)
  /\ None \notin LoadBearing \cup Profiles \cup LegacyProfiles
  /\ None \notin Rows(Observations) \cup Rows(LegacyObservations)

VARIABLES
  disk,     \* disk[n]: the file of profile n, or None
  pointer,  \* active_profile, or None
  client,   \* client[c]: the command c runs, or None
  plans,    \* plans[n]: probe ids that plans of n propose
  lossy,    \* history: lossy[n], a copy of n was written over another's write
  clock, commands

svars == <<disk, pointer, client, plans, lossy, clock, commands>>

StoreInit ==
  /\ disk \in [Names -> Initial \cup {None}]
  /\ pointer = None
  /\ client = [c \in Clients |-> None]
  /\ plans = [n \in Names |-> {}]
  /\ lossy = [n \in Names |-> FALSE]
  /\ clock = 0 /\ commands = 0

-----------------------------------------------------------------------------
(* Beginning a command: read the file, compute the copy                     *)

\* fresh: the copy does not come from the file. stale: the file changed since.
Begin(c, n, copy, fresh, steps) ==
  /\ client[c] = None
  /\ commands < MaxCommands
  /\ commands' = commands + 1
  /\ client' = [client EXCEPT ![c] =
       [name |-> n, copy |-> copy, fresh |-> fresh, stale |-> FALSE, steps |-> steps]]
  /\ UNCHANGED <<disk, pointer, plans, lossy, clock>>

Edit(c, n, copy) == disk[n] # None /\ Begin(c, n, copy, FALSE, <<"save">>)
Read(n) == Loaded(disk[n], clock)

\* init: whatever the name held is replaced.
InitProfile(c) == \E n \in Names, steps \in {<<"save">>, <<"save", "activate">>} :
  Begin(c, n, NewProfile, TRUE, steps)
SetDomain(c) == \E n \in Names, d \in Domains :
  Edit(c, n, EnsureDomain(Read(n), d, TRUE))
ObserveCmd(c) == \E n \in Names, d \in Domains, a \in Attempts :
  Edit(c, n, Observe(Read(n), d, a, clock))
Assess(c) == \E n \in Names, d \in Domains, items \in Reports :
  Edit(c, n, ApplyAssessment(Read(n), d, items, clock))
Layer2(c) == \E n \in Names, f \in Facets, seed \in Seeds, items \in Reports :
  Edit(c, n, ApplyLayer2(Read(n), f, seed, items, clock))
\* The probe comes from a plan, which may be an old one; who types an id no plan
\* gave is not followed.
RecordProbe(c) ==
  \E n \in Names : \E id \in plans[n] :
  \E f \in Facets, d \in Domains \cup {None}, a \in Attempts :
    /\ disk[n] # None
    /\ ~Recorded(Read(n), id)
    /\ Edit(c, n, Record(Read(n), [id |-> id, facet |-> f, domain |-> d, right |-> a.right,
              label |-> a.label, verified |-> a.verified, source |-> a.source], clock))

\* prompt(): bootstrap_active makes a default profile when no pointer is there,
\* without a look at the file; then the domains the prompt is about are marked.
Prompt(c) ==
  /\ \E d \in Domains :
       IF pointer = None
       THEN Begin(c, Default, NewProfile, TRUE, <<"save", "activate", d, "save">>)
       ELSE Edit(c, pointer, MarkRelevance(Read(pointer), d))

\* activate: the profile must exist.
ActivateCmd == \E n \in Names :
  /\ disk[n] # None
  /\ pointer # n
  /\ pointer' = n
  /\ UNCHANGED <<disk, client, plans, lossy, clock, commands>>

\* calibration start: a plan leaves the profile as it is.
Plan == \E n \in Names, kind \in Kinds :
  /\ disk[n] # None
  /\ plans' = [plans EXCEPT ![n] = @ \cup {PlannedId(Read(n), kind)}]
  /\ plans' # plans
  /\ UNCHANGED <<disk, pointer, client, lossy, clock, commands>>

-----------------------------------------------------------------------------
(* Finishing it                                                             *)

Doing(c, s) == client[c] # None /\ Head(client[c].steps) = s
Done(k) == IF Len(k.steps) = 1 THEN None ELSE [k EXCEPT !.steps = Tail(@)]

Save(c) ==
  /\ Doing(c, "save")
  /\ LET me == client[c]
     IN  /\ disk' = [disk EXCEPT ![me.name] = me.copy]
         /\ lossy' = [lossy EXCEPT ![me.name] =
                        @ \/ (disk[me.name] # None /\ (me.stale \/ me.fresh))]
         /\ client' = [k \in Clients |->
              IF k = c THEN Done([me EXCEPT !.stale = FALSE, !.fresh = FALSE])
              ELSE IF client[k] # None /\ client[k].name = me.name
                   THEN [client[k] EXCEPT !.stale = TRUE] ELSE client[k]]
  /\ UNCHANGED <<pointer, plans, clock, commands>>
Point(c) ==
  /\ Doing(c, "activate")
  /\ pointer' = client[c].name
  /\ client' = [client EXCEPT ![c] = Done(client[c])]
  /\ UNCHANGED <<disk, plans, lossy, clock, commands>>
Mark(c) == \E d \in Domains :
  /\ Doing(c, d)
  /\ LET me == client[c]
     IN  client' = [client EXCEPT ![c] = [Done(me) EXCEPT !.copy = MarkRelevance(me.copy, d)]]
  /\ UNCHANGED <<disk, pointer, plans, lossy, clock, commands>>

Die(c) ==
  /\ client[c] # None
  /\ client' = [client EXCEPT ![c] = None]
  /\ UNCHANGED <<disk, pointer, plans, lossy, clock, commands>>
Tick ==
  /\ clock < MaxClock
  /\ clock' = clock + 1
  /\ UNCHANGED <<disk, pointer, client, plans, lossy, commands>>

StoreNext ==
  \/ \E c \in Clients :
       \/ InitProfile(c) \/ SetDomain(c) \/ ObserveCmd(c) \/ Assess(c) \/ Layer2(c)
       \/ RecordProbe(c) \/ Prompt(c)
       \/ Save(c) \/ Point(c) \/ Mark(c) \/ Die(c)
  \/ ActivateCmd \/ Plan \/ Tick

-----------------------------------------------------------------------------
(* Properties                                                               *)

Own(e) == e.source \notin ScreenSources /\ Admissible(e)

\* The domain lines of a prompt claim a strength or a gap only from enough work that
\* was checked, unaided and the person's own, some of it fresh when the row was last
\* classified: neither screens nor a v1 profile nor the row's counters can make one.
\* (derive_tier, migrate_v1_to_v2, observe, summarize, _domain_lines)
DomainClaimsAreEarned ==
  \A n \in Names : disk[n] # None => \A line \in DomainLines(Read(n), clock) :
    line[2] \in LoadBearing =>
      LET row == Read(n).rows[line[1]]
          own == {k \in DOMAIN row.obs : row.obs[k].right # None /\ Own(row.obs[k])}
      IN  /\ Cardinality(own) * Weight("REAL_WORK", 0) >= Least
          /\ \E k \in own : \/ None \in {row.seen, row.obs[k].time}
                             \/ row.seen - row.obs[k].time <= Horizon

\* The domain lines never claim a strength or a gap from work that is all stale by
\* now: "Stale-only evidence never becomes a gap or a strength, at any volume"
\* (skills/foil/SKILL.md). But the line prints the class of the last observation.
ClaimsAreFresh ==
  \A n \in Names : disk[n] # None => \A line \in DomainLines(Read(n), clock) :
    line[2] \in LoadBearing => ~StaleOnly(Read(n).rows[line[1]].obs, clock)

\* The facet lines claim a strength or a gap only where some probe of the facet was
\* not a screen's: screen evidence "can never on its own produce" one
\* (skills/foil/SKILL.md). A history at its cap no longer tells.
FacetClaimsAreOwnWork ==
  \A n \in Names : disk[n] # None => \A line \in FacetLines(Read(n)) :
    line[2] \in LoadBearing =>
      \/ Full(disk[n])
      \/ \E k \in DOMAIN disk[n].probes :
           disk[n].probes[k].facet = line[1] /\ disk[n].probes[k].source \notin ScreenSources

\* q continues p: what p had learnt is in q, except the observations the cap cut.
Continues(p, q) ==
  /\ \A d \in Domains : p.rows[d] # None =>
       /\ q.rows[d] # None
       /\ p.rows[d].declared => q.rows[d].declared
       /\ p.rows[d].mentioned => q.rows[d].mentioned
       /\ \A m \in Counters : q.rows[d].count[m] >= p.rows[d].count[m]
       /\ \E k \in 0..Len(p.rows[d].obs) :
            /\ IsPrefix(SubSeq(p.rows[d].obs, k + 1, Len(p.rows[d].obs)), q.rows[d].obs)
            /\ k > 0 => Len(q.rows[d].obs) = Kept
  /\ \A f \in Facets : \A m \in DOMAIN NewFacet : q.facets[f][m] >= p.facets[f][m]

\* A write that nobody's write overlapped keeps what the file had learnt. Only
\* init, the bootstrap of a missing pointer and an overlapped command may lose
\* evidence. (save, bootstrap_active, load)
NothingLostAlone ==
  [][\A n \in Names : (disk[n] # None /\ disk'[n] # disk[n]) =>
       \E c \in Clients :
         /\ Doing(c, "save") /\ client[c].name = n /\ disk'[n] = client[c].copy
         /\ client[c].stale \/ client[c].fresh \/ Continues(Read(n), disk'[n])]_svars

\* A probe that a plan proposes now can be recorded, until the history is full or
\* a write was lost, where every id recorded came from a plan: the number of an id
\* is how many the history holds. An id typed by hand may be the next plan's.
\* (_probe_id, record)
PlanIsRecordable ==
  \A n \in Names, kind \in Kinds :
    (disk[n] # None /\ Recorded(Read(n), PlannedId(Read(n), kind))) =>
      Full(disk[n]) \/ lossy[n]
=============================================================================
