---------------------------- MODULE CloudMonitor ----------------------------
(***************************************************************************)
(* scripts/cloud_progress_monitor.py across its scheduled executions: each *)
(* one starts from the newest published snapshot, reads what a bounded     *)
(* number of requests allows, saves after every step and publishes what it *)
(* saved last, however it ends.  Meanwhile the observed runs progress and  *)
(* the inventory of the working branch changes.  A workflow concurrency    *)
(* group admits one execution at a time.                                   *)
(*                                                                         *)
(* A remote read has the outcomes the code tells apart: an answer, an      *)
(* error, or the end of the request, time or signal budget (Cut).  A row   *)
(* of a snapshot is its observation state, the pinned item it was read     *)
(* under and the situation of the run that was read (0: none).             *)
(* A definition marked Variant is a plausible bug, there to show that a    *)
(* property notices it; no specification uses it.                          *)
(***************************************************************************)
EXTENDS CloudVerdict

CONSTANTS
  Life,            (* run -> sequence of situations it goes through        *)
  Existing,        (* runs that exist at the start                         *)
  Inventories,     (* commit of the working branch -> its inventory        *)
  Bootstrap,       (* inventory of the checked-out monitor source          *)
  ActiveStatuses,  (* sequence of the statuses discovery asks for          *)
  RECENT,          (* 16 in the code: newest unread runs get priority      *)
  QUOTA,           (* 16 in the code: cached history re-read per execution *)
  SLICE            (* 2 in the code: priority rows per historical row      *)

Runs == DOMAIN Life

(* An inventory pins each run once; anything else is refused.              *)
check_config(config) ==
  /\ IsFiniteSet(config.pins) /\ config.selectors \in Seq(Range(config.selectors))
  /\ \A x, y \in config.pins : x.run \in Runs /\ (x.run = y.run => x = y)

ASSUME MonitorAssumption ==
  /\ Runs \subseteq Nat \ {0} /\ IsFiniteSet(Runs)
  /\ \A r \in Runs : Len(Life[r]) \in Nat
  /\ Inventories \in Seq(Range(Inventories)) /\ Inventories # <<>>
  /\ \A config \in Range(Inventories) \cup {Bootstrap} : check_config(config)
  /\ ActiveStatuses \in Seq(STRING)
  /\ QUOTA \in Nat \ {0} /\ SLICE \in Nat \ {0} /\ RECENT \in Nat

VARIABLES
  live,       (* situation each run is in, 0 while it does not exist       *)
  head,       (* commit at the head of the working branch                  *)
  published,  (* newest snapshot a later execution accepts, or NoSnap      *)
  phase,      (* what the execution is doing, "idle" between executions    *)
  k,          (* loop index of the phase: selector, status or order entry  *)
  loaded,     (* previous_snapshot returned the published snapshot         *)
  selected,   (* items selected: pinned, then found by a selector          *)
  active,     (* runs discovery found active                               *)
  order,      (* observation order: run and whether it is historical       *)
  history,    (* the historical runs, rotated to the cursor                *)
  snap,       (* result.json as saved last                                 *)
  since       (* history variable: situations when the execution started   *)

work == <<phase, k, loaded, selected, active, order, history, snap, since>>
vars == <<live, head, published, work>>

NoSnap  == [rows |-> <<>>]
Situation(r, e) == Life[r][e]

(* A commit without the document: the bootstrap inventory is used.         *)
NoInventory    == [pins |-> {}, selectors |-> <<>>]
load_config(c) == IF c = 0 \/ Inventories[c] = NoInventory THEN Bootstrap
                  ELSE Inventories[c]
Config         == load_config(snap.head)

previous == IF loaded THEN published ELSE NoSnap

unseen_row(x) == [obs |-> "UNOBSERVED", item |-> x, ev |-> 0, changed |-> "unknown"]

(* Variant: the item of the row is not compared with the one selected.     *)
cached_row_by_id(x, prev) ==
  IF x.run \in DOMAIN prev.rows /\ prev.rows[x.run].obs # "UNOBSERVED"
  THEN [prev.rows[x.run] EXCEPT !.obs = "CACHED", !.changed = "unknown", !.item = x]
  ELSE unseen_row(x)

(* A row really read before, under the very same item, may be reused.      *)
cached_row(x, prev) ==
  IF /\ x.run \in DOMAIN prev.rows
     /\ prev.rows[x.run].item = x
     /\ prev.rows[x.run].obs \in {"CURRENT", "CACHED", "REFRESH_ERROR"}
  THEN [prev.rows[x.run] EXCEPT !.obs = "CACHED", !.changed = "unknown"]
  ELSE unseen_row(x)

by_run(items) ==
  [r \in {x.run : x \in items} |-> CHOOSE x \in items : x.run = r]

initial_snapshot(config, commit) ==
  [rows |-> [r \in DOMAIN by_run(config.pins) |-> unseen_row(by_run(config.pins)[r])],
   head |-> commit, prev_head |-> 0, errors |-> {}, missing |-> FALSE, selectors |-> FALSE, discovery |-> FALSE,
   untracked |-> FALSE, cursor |-> 0, failed |-> FALSE, finished |-> FALSE]

-----------------------------------------------------------------------------
(* finalize_snapshot: what a saved snapshot claims.                        *)

RowStatus(row) ==
  IF row.ev = 0 THEN "unobserved" ELSE Situation(row.item.run, row.ev).run.status

RowVerdict(row) ==
  IF row.ev = 0 THEN "UNOBSERVED_CURRENT"
  ELSE LET s == Situation(row.item.run, row.ev)
       IN  Verdict(row.item, s.run, s.jobs, s.releases)

Observed(s) == {s.rows[r].obs : r \in DOMAIN s.rows}

(* Variant: a row that failed to refresh does not make it partial.         *)
partial_unread_only(s) == "UNOBSERVED" \in Observed(s) \/ ~s.selectors \/ ~s.discovery

partial(s) ==
  \/ Observed(s) \cap {"UNOBSERVED", "REFRESH_ERROR"} # {}
  \/ s.errors # {} \/ s.untracked \/ ~s.selectors \/ ~s.discovery

problem_runs(s) == {r \in DOMAIN s.rows : Problem(RowVerdict(s.rows[r]))}

Status(s) ==
  CASE s.failed                                   -> "MONITOR_ERROR"
    [] ~s.failed /\ partial(s)                    -> "PARTIAL_OBSERVATION"
    [] ~s.failed /\ ~partial(s) /\ (problem_runs(s) # {} \/ s.missing) ->
         "ATTENTION_REQUIRED"
    [] OTHER -> IF "CACHED" \in Observed(s) THEN "OBSERVED_WITH_CACHED_HISTORY"
                ELSE "OBSERVED_NO_CURRENT_FAILURE"

observation_complete(s) ==
  /\ ~s.failed /\ s.selectors /\ s.discovery /\ ~s.untracked /\ s.errors = {}
  /\ Observed(s) \subseteq {"CURRENT"}

routine_unchanged(s) ==
  /\ observation_complete(s) /\ s.prev_head = s.head
  /\ \A r \in DOMAIN s.rows : s.rows[r].changed = "no"

-----------------------------------------------------------------------------
(* observation_order.                                                      *)

(* The members of S in the order in which before[s] all come before s.     *)
InOrder(S, before) ==
  [i \in 1 .. Cardinality(S) |-> CHOOSE s \in S : Cardinality(before[s]) = i - 1]

Ascending(S) == InOrder(S, [r \in S |-> {q \in S : q < r}])

Item(r)  == CHOOSE x \in selected : x.run = r
Selected == {x.run : x \in selected}

recent == {r \in Selected : Cardinality({q \in Selected : q > r}) < RECENT}

Priority ==
  {r \in Selected :
     \/ r \in active \/ Item(r).selection = "latest_workflow"
     \/ RowStatus(snap.rows[r]) \notin {"completed", "unobserved"}
     \/ r \in recent /\ snap.rows[r].obs = "UNOBSERVED"}

Rank(r) == (IF r \in active THEN 0 ELSE 2)
           + (IF RowStatus(snap.rows[r]) \in {"completed", "unobserved"} THEN 1 ELSE 0)

PrioritySeq ==
  InOrder(Priority, [r \in Priority |->
    {q \in Priority : Rank(q) < Rank(r) \/ (Rank(q) = Rank(r) /\ q > r)}])

(* Variant: every execution starts at the oldest run.                      *)
HistoryFromStart(cursor) == Ascending(Selected \ Priority)

(* History in the order of the run numbers, from the cursor on.            *)
HistoryFrom(cursor) ==
  LET past  == Selected \ Priority
      ahead == {r \in past : r >= cursor}
  IN  IF cursor = 0 \/ ahead = {} THEN Ascending(past)
      ELSE Ascending(ahead) \o Ascending(past \ ahead)

(* Every unread run of the history, and a quota of the cached ones.        *)
Eligible(h) ==
  LET cached(i) == snap.rows[h[i]].obs = "CACHED"
      kept == {i \in DOMAIN h : ~cached(i) \/
                 Cardinality({j \in 1 .. i : cached(j)}) <= QUOTA}
  IN  [i \in DOMAIN Ascending(kept) |-> h[Ascending(kept)[i]]]

(* SLICE rows of priority work alternate with one row of history.          *)
ObservationOrder(h) ==
  LET p == PrioritySeq
      e == Eligible(h)
      places  == ((DOMAIN p) \X {FALSE}) \cup ((DOMAIN e) \X {TRUE})
      turn(x) == IF x[2] THEN x[1] ELSE ((x[1] - 1) \div SLICE) + 1
      sooner(x, y) ==
        \/ turn(x) < turn(y)
        \/ turn(x) = turn(y) /\ (IF x[2] = y[2] THEN x[1] < y[1] ELSE y[2])
      line == InOrder(places, [y \in places |-> {x \in places : sooner(x, y)}])
  IN  [i \in DOMAIN line |->
        <<IF line[i][2] THEN e[line[i][1]] ELSE p[line[i][1]], line[i][2]>>]

-----------------------------------------------------------------------------
(* The world: runs appear and progress, the inventory is replaced.         *)

Init ==
  /\ live = [r \in Runs |-> IF r \in Existing THEN 1 ELSE 0] /\ head = 1 /\ published = NoSnap
  /\ phase = "idle" /\ k = 0 /\ loaded = FALSE /\ selected = {} /\ active = {}
  /\ order = <<>> /\ history = <<>> /\ snap = NoSnap
  /\ since = [r \in Runs |-> 0]

RunAdvances ==
  /\ \E r \in Runs : live[r] < Len(Life[r]) /\ live' = [live EXCEPT ![r] = @ + 1]
  /\ UNCHANGED <<head, published, work>>

InventoryCommitted ==
  /\ head < Len(Inventories) /\ head' = head + 1
  /\ UNCHANGED <<live, published, work>>

Now(r) == Situation(r, live[r])
Exist  == {r \in Runs : live[r] > 0}

-----------------------------------------------------------------------------
(* One execution.  Every action is one read and the save that follows it.  *)

(* Errors are told apart as far as the code does.                          *)
Phase(e)   == IF e \in {"selecting", "active_discovery"} THEN e ELSE "other"
Save(s)    == snap' = s
Erred(e)   == [snap EXCEPT !.errors = @ \cup {Phase(e)}]
Stop(s)    == Save(s) /\ phase' = "publish" /\ k' = 0
                      /\ UNCHANGED <<loaded, selected, active, order, history, since>>
World      == UNCHANGED <<live, head, published>>
Kept       == UNCHANGED <<selected, active, order, history, since>>

(* main, before the first read.                                            *)
Start ==
  /\ phase = "idle"
  /\ phase' = "loading_inventory"
  /\ Save(initial_snapshot(Bootstrap, 0)) /\ since' = live
  /\ UNCHANGED <<k, loaded, selected, active, order, history>> /\ World

LoadInventory ==
  /\ phase = "loading_inventory"
  /\ \/ /\ phase' = "loading_previous_snapshot"
        /\ Save(initial_snapshot(load_config(head), head))
        /\ UNCHANGED <<k, loaded>> /\ Kept
     \/ Stop([Erred(phase) EXCEPT !.failed = TRUE])
  /\ World

(* An absent, expired or refused snapshot is no error; a lookup that fails *)
(* or runs out of its own budget is recorded, and the observation goes on. *)
LoadPrevious ==
  /\ phase = "loading_previous_snapshot"
  /\ \/ /\ published # NoSnap /\ loaded' = TRUE
        /\ Save([snap EXCEPT
                   !.rows = [r \in DOMAIN @ |-> cached_row(by_run(Config.pins)[r], published)],
                   !.prev_head = published.head])
     \/ loaded' = FALSE /\ UNCHANGED snap
     \/ loaded' = FALSE /\ Save(Erred(phase))
  /\ selected' = Config.pins
  /\ phase' = "selecting" /\ k' = 1
  /\ UNCHANGED <<active, order, history, since>> /\ World

Candidates(sel) ==
  {r \in Exist : /\ Now(r).run.workflow = sel.workflow
                 /\ sel.event \in {"any", Now(r).run.event}}

(* The newest candidate joins the selection unless it is already in it.    *)
Select ==
  /\ phase = "selecting" /\ k <= Len(Config.selectors)
  /\ LET sel == Config.selectors[k]
         c   == Candidates(sel)
         new == CHOOSE r \in c : \A q \in c : q <= r
         x   == [run |-> new, head |-> Now(new).run.head, branch |-> Now(new).run.branch,
                 production_jobs |-> sel.production_jobs, selection |-> "latest_workflow"]
     IN  \/ /\ c = {}
            /\ Save([snap EXCEPT !.missing = @ \/ ~sel.optional])
            /\ UNCHANGED selected
         \/ /\ c # {} /\ new \in Selected
            /\ UNCHANGED <<snap, selected>>
         \/ /\ c # {} /\ new \notin Selected
            /\ selected' = selected \cup {x}
            /\ Save([snap EXCEPT !.rows = [r \in DOMAIN @ \cup {new} |->
                        IF r = new THEN cached_row(x, previous) ELSE snap.rows[r]]])
         \/ Save(Erred(phase)) /\ UNCHANGED selected
  /\ k' = k + 1
  /\ UNCHANGED <<phase, loaded, active, order, history, since>> /\ World

SelectorsDone ==
  /\ phase = "selecting" /\ k > Len(Config.selectors)
  /\ phase' = "active_discovery" /\ k' = 1 /\ active' = {}
  /\ Save([snap EXCEPT !.selectors = phase \notin snap.errors])
  /\ UNCHANGED <<loaded, selected, order, history, since>> /\ World

Matches(r) == Now(r).run.head = Item(r).head /\ Now(r).run.branch = Item(r).branch

(* discover_active, one status: all its runs, or those of the pages read   *)
(* before an error or the second full page.                                *)
Discover ==
  /\ phase = "active_discovery" /\ k <= Len(ActiveStatuses)
  /\ LET listed == {r \in Exist : Now(r).run.status = ActiveStatuses[k]}
     IN  \E seen \in SUBSET listed, whole \in BOOLEAN :
           /\ whole => seen = listed
           /\ active' = active \cup {r \in seen \cap Selected : Matches(r)}
           /\ LET mismatch == \E r \in seen \cap Selected : ~Matches(r)
                  wrong    == IF mismatch \/ ~whole THEN {phase} ELSE {}
              IN  Save([snap EXCEPT !.errors = @ \cup wrong,
                                    !.untracked = @ \/ seen \ Selected # {}])
  /\ k' = k + 1
  /\ UNCHANGED <<phase, loaded, selected, order, history, since>> /\ World

(* The order is fixed and the cursor set to the head of the history.       *)
DiscoveryDone ==
  /\ phase = "active_discovery" /\ k > Len(ActiveStatuses)
  /\ phase' = "observing" /\ k' = 1
  /\ history' = HistoryFrom(IF loaded THEN published.cursor ELSE 0)
  /\ order' = ObservationOrder(history')
  /\ Save([snap EXCEPT !.discovery = phase \notin snap.errors,
                       !.cursor = IF history' = <<>> THEN 0 ELSE history'[1]])
  /\ UNCHANGED <<loaded, selected, active, since>> /\ World

NextInHistory(r) ==
  LET i == CHOOSE j \in DOMAIN history : history[j] = r
  IN  history[(i % Len(history)) + 1]

(* Variant: a run with no earlier row counts as unchanged.                 *)
CurrentNewIsOld(r) ==
  [obs |-> "CURRENT", item |-> Item(r), ev |-> live[r],
   changed |-> IF cached_row(Item(r), previous).ev \in {0, live[r]} THEN "no" ELSE "yes"]

Current(r) ==
  LET x == Item(r)
  IN  [obs |-> "CURRENT", item |-> x, ev |-> live[r],
       changed |-> IF cached_row(x, previous).ev = live[r] THEN "no" ELSE "yes"]

(* Variant: a row whose refresh failed loses what was read before.         *)
UnrefreshedDropped(row) == unseen_row(row.item)

Unrefreshed(row) ==
  [row EXCEPT !.changed = "unknown",
              !.obs = IF @ = "UNOBSERVED" THEN @ ELSE "REFRESH_ERROR"]

(* A row read, or one that could not be: either way a historical row moves *)
(* the cursor on.                                                          *)
ObserveRow(r, ok) ==
  /\ phase = "observing" /\ k <= Len(order) /\ order[k][1] = r
  /\ ok => r \in Exist /\ ~Refused(Item(r), Now(r).run, Now(r).releases)
  /\ LET s == IF ok THEN [snap EXCEPT !.rows[r] = Current(r)]
              ELSE [Erred(phase) EXCEPT !.rows[r] = Unrefreshed(@)]
     IN  Save(IF order[k][2] THEN [s EXCEPT !.cursor = NextInHistory(r)] ELSE s)
  /\ k' = k + 1
  /\ UNCHANGED <<phase, loaded, selected, active, order, history, since>> /\ World

Finish ==
  /\ phase = "observing" /\ k > Len(order)
  /\ Stop([snap EXCEPT !.finished = TRUE]) /\ World

(* The budget ends inside a read: a historical row not read is the cursor. *)
Cut ==
  /\ \/ phase \in {"loading_inventory", "loading_previous_snapshot"}
     \/ phase = "selecting" /\ k <= Len(Config.selectors)
     \/ phase = "active_discovery" /\ k <= Len(ActiveStatuses)
     \/ phase = "observing" /\ k <= Len(order)
  /\ IF phase = "observing" /\ order[k][2]
     THEN Stop([Erred(phase) EXCEPT !.cursor = order[k][1]])
     ELSE Stop(Erred(phase))
  /\ World

(* The hosted runner ends the job: what was saved last is still uploaded.  *)
Killed ==
  /\ phase \notin {"idle", "publish"}
  /\ Stop(snap) /\ World

(* Variant: only what this execution refreshed is published.               *)
ArtifactRefreshed(s) ==
  [rows   |-> [r \in {q \in DOMAIN s.rows : s.rows[q].obs = "CURRENT"} |->
                [obs |-> "CACHED", item |-> s.rows[r].item, ev |-> s.rows[r].ev,
                 changed |-> "unknown"]],
   head   |-> s.head,
   cursor |-> s.cursor]

(* What a later execution reads of a snapshot: cached_row tells read rows  *)
(* from unread ones only.                                                  *)
Artifact(s) ==
  [rows   |-> [r \in DOMAIN s.rows |->
                [obs  |-> IF s.rows[r].obs = "UNOBSERVED" THEN "UNOBSERVED" ELSE "CACHED",
                 item |-> s.rows[r].item, ev |-> s.rows[r].ev, changed |-> "unknown"]],
   head   |-> s.head,
   cursor |-> s.cursor]

(* The artifact of this execution is the newest one.  A later execution    *)
(* passes over a failed snapshot only if it has no rows.                   *)
Publish ==
  /\ phase = "publish"
  /\ published' = IF snap.failed /\ DOMAIN snap.rows = {} THEN published
                  ELSE Artifact(snap)
  /\ phase' = "idle" /\ k' = 0 /\ loaded' = FALSE /\ snap' = NoSnap
  /\ selected' = {} /\ active' = {} /\ order' = <<>> /\ history' = <<>>
  /\ since' = [r \in Runs |-> 0]
  /\ UNCHANGED <<live, head>>

Observe == \E r \in Runs, ok \in BOOLEAN : ObserveRow(r, ok)

Execution == Start \/ LoadInventory \/ LoadPrevious \/ Select \/ SelectorsDone
             \/ Discover \/ DiscoveryDone \/ Observe \/ Finish \/ Publish

Next == RunAdvances \/ InventoryCommitted \/ Execution \/ Cut \/ Killed

Spec == Init /\ [][Next]_vars

(* The schedule starts executions for ever and none hangs (every read has  *)
(* its time-out); a read that keeps being tried and can succeed, does.     *)
FairSpec ==
  Spec /\ WF_vars(Execution) /\ \A r \in Runs : SF_vars(ObserveRow(r, TRUE))

-----------------------------------------------------------------------------
(* Types, and every pinned run of the inventory in force keeps a row.      *)
TypeOK ==
  /\ live \in [Runs -> Nat] /\ head \in DOMAIN Inventories
  /\ phase \in {"idle", "loading_inventory", "loading_previous_snapshot",
                "selecting", "active_discovery", "observing", "publish"}
  /\ loaded \in BOOLEAN /\ active \subseteq Runs /\ k \in Nat
  /\ \A s \in {snap, published} \ {NoSnap} :
       /\ {x.run : x \in load_config(s.head).pins} \subseteq DOMAIN s.rows
       /\ s.cursor \in Runs \cup {0}

(* No row is invented or mixed up: whatever fails in between, a row with   *)
(* evidence was read under the very item it is listed for, by this         *)
(* execution just now or by the one whose snapshot was loaded, and only a  *)
(* row read by this execution is called current.                           *)
RowsAreEvidence ==
  [][\A r \in DOMAIN snap'.rows :
       LET row == snap'.rows[r]
           same(s) == r \in DOMAIN s.rows /\ s.rows[r].ev = row.ev
                      /\ s.rows[r].item = row.item
       IN  row.ev # 0 =>
             \/ phase = "observing" /\ row.obs = "CURRENT" /\ row.ev = live[r]
             \/ same(snap) /\ (row.obs = "CURRENT" => snap.rows[r].obs = "CURRENT")
             \/ same(published) /\ row.obs = "CACHED"]_vars

(* A snapshot that claims to be whole left nothing out: a run that was     *)
(* active from the first read of the execution to the last is in it, with  *)
(* that very situation unless the execution was ended before it came to it *)
(* and the row says it is an old one; and a snapshot that claims no        *)
(* failure has no such run that failed.                                    *)
ClaimsAreHonest ==
  /\ TypeOK
  /\ phase = "publish" /\ Status(snap) \notin {"MONITOR_ERROR", "PARTIAL_OBSERVATION"} =>
       \A r \in Exist : since[r] = live[r] =>
         /\ Now(r).run.status \in Range(ActiveStatuses) =>
              /\ r \in DOMAIN snap.rows
              /\ snap.finished \/ snap.rows[r].obs # "CACHED" => snap.rows[r].ev = live[r]
         /\ r \in DOMAIN snap.rows /\ Status(snap) = "OBSERVED_NO_CURRENT_FAILURE" =>
              /\ snap.rows[r].ev = live[r]
              /\ ~Problem(Verdict(snap.rows[r].item, Now(r).run, Now(r).jobs, Now(r).releases))

(* Routine unchanged means what it says: every run is in the situation the *)
(* previous snapshot recorded, at the same commit.                         *)
UnchangedIsUnchanged ==
  phase # "idle" /\ routine_unchanged(snap) =>
    /\ snap.head = published.head
    /\ \A r \in DOMAIN snap.rows :
         r \in DOMAIN published.rows /\ published.rows[r].ev = snap.rows[r].ev

(* What was read once stays readable: an execution that loaded the         *)
(* previous snapshot publishes, for every run still pinned the same way,   *)
(* a row at least as recent, however the execution ended.                  *)
HistoryPreserved ==
  [][loaded /\ phase = "publish" /\ phase' = "idle" =>
       \A r \in DOMAIN published.rows \cap DOMAIN snap.rows :
         /\ published.rows[r].item = snap.rows[r].item
         => published'.rows[r].ev >= published.rows[r].ev]_vars

(* An execution that does not carry the cursor and the rows over.          *)
Lossy ==
  \/ phase = "loading_previous_snapshot" /\ phase' # phase /\ ~loaded'
  \/ /\ phase \in {"loading_inventory", "loading_previous_snapshot", "selecting",
                    "active_discovery"}
     /\ phase' = "publish"

Attempt(r)     == \E ok \in BOOLEAN : ObserveRow(r, ok)
Pinned(r)      == \E x \in load_config(head).pins : x.run = r
Prior(r)       == phase = "observing" /\ k = 1 /\ r \in Priority
HistoryAttempt == phase = "observing" /\ k <= Len(order) /\ order[k][2] /\ Observe

(* "Without starving backfill": once executions carry the cursor over and  *)
(* each now and then reaches one historical row before its budget ends,    *)
(* every pinned run is tried again and again, unless it keeps being among  *)
(* the priority rows.                                                      *)
BackfillNotStarved ==
  (<>[][~Lossy /\ ~InventoryCommitted]_vars /\ []<><<HistoryAttempt>>_vars) =>
    \A r \in Runs :
      []<><<Attempt(r) \/ (phase = "idle" /\ ~Pinned(r)) \/ Prior(r)>>_vars
=============================================================================
