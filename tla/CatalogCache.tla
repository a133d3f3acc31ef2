---------------------------- MODULE CatalogCache ----------------------------
(***************************************************************************)
(* The live GET /v1/models catalog of the proxy (src/models_cache.rs) with *)
(* the hot-reload applier that feeds it (src/config.rs).                   *)
(*                                                                         *)
(* A fetch (handle_models -> CatalogCache::get), the background refresh a  *)
(* stale fetch spawns, and the proactive refresh the applier spawns after  *)
(* each reload are processes; one step is one access to shared state: the  *)
(* configuration, the stored entry, the single-flight gate, or the         *)
(* template file on disk.  A process runs once; ids bound their number.    *)
(*                                                                         *)
(* A configuration is known by its version, the number of reloads before   *)
(* it: ConfigAt[v] is what version v says.  The catalog body is rendered   *)
(* from a version and a template text, so an entry carries those two.      *)
(***************************************************************************)
EXTENDS Naturals, Sequences

CONSTANTS
    Fetches,          \* ids of the GET /v1/models requests
    MaxEdits,         \* bound on the reloads of cxf.toml
    MaxTemplateEdits, \* bound on the rewrites of the template file
    RouteTables,      \* what the hashed route fields can hold
    Formats,          \* what the providers' `format` can hold
    ConfigAt,         \* the content of each configuration version
    NoEntry           \* inner = None, or a snapshot not taken

Version == 0..MaxEdits
Text == 0..MaxTemplateEdits

\* What the catalog body depends on: the route fields that are hashed, the
\* provider format (part of every entry's description), the hide flag.
Config == [routes : RouteTables, format : Formats, hide : BOOLEAN]

\* Cached: the version and the template text the body was rendered from,
\* template_path.is_some(), the template_mtime beside it (0 for None), and
\* whether TEMPLATE_RECHECK_INTERVAL has passed since checked_at.
Entry == [ver : Version, file : BOOLEAN, text : Text, mtime : Text, aged : BOOLEAN]

ASSUME BoundsAssumption == MaxEdits \in Nat /\ MaxTemplateEdits \in Nat
ASSUME ConfigAssumption == ConfigAt \in [Version -> Config]
ASSUME NoEntryAssumption == NoEntry \notin Entry \cup Version

\* A process is a request, the task its request may spawn, or the task
\* spawned for the n-th reload.
Process == ({"fetch", "swr"} \X Fetches) \cup ({"hook"} \X (1..MaxEdits))
FetchProcess == {"fetch"} \X Fetches

VARIABLES
    ver,      \* version of the configuration behind the RwLock
    hooked,   \* reloads whose on_reload hook has fired
    template, \* text of the template file; its mtime moves with it
    entry,    \* CatalogCache.inner
    gate,     \* CatalogCache.refreshing: its holder, then who awaits it
    pc,       \* where each process stands
    path,     \* the match arm of `get` a process works for
    want,     \* fingerprint `get` read at its start
    need,     \* fingerprint `refresh_if_stale` read at its start
    force,    \* the flag of the refresh loop
    draft,    \* the entry under construction in `refresh`
    snap,     \* the snapshot `fast_hit` works on
    answer,   \* the version whose catalog a fetch returned
    warm      \* history: fetches that began with an entry stored

locals == <<path, want, need, force, draft, snap, answer, warm>>
vars == <<ver, hooked, template, entry, gate, pc, locals>>

Blank == [ver |-> 0, file |-> FALSE, text |-> 0, mtime |-> 0, aged |-> FALSE]

Init ==
    /\ ver = 0
    /\ hooked = 0
    /\ template = 0
    /\ entry = NoEntry
    /\ gate = <<>>
    /\ pc = [p \in Process |-> "idle"]
    /\ path = [p \in Process |->
                 IF p[1] = "fetch" THEN "none" ELSE IF p[1] = "swr" THEN "swr" ELSE "changed"]
    /\ want = [p \in Process |-> 0]
    /\ need = [p \in Process |-> 0]
    /\ force = [p \in Process |-> FALSE]
    /\ draft = [p \in Process |-> Blank]
    /\ snap = [p \in Process |-> NoEntry]
    /\ answer = [p \in Process |-> NoEntry]
    /\ warm = {}

-----------------------------------------------------------------------------
\* Fingerprints, freshness.

\* fingerprint_config: the hide flag and the sorted route fields.
Fingerprint(c) == <<c.hide, c.routes>>

SameFingerprint(u, v) == Fingerprint(ConfigAt[u]) = Fingerprint(ConfigAt[v])

\* recheck_due of a snapshot: only entries without a file to stat, or with
\* hide overrides, go stale with time.
RecheckDue(e) == e.aged /\ (~e.file \/ ConfigAt[e.ver].hide)

\* Bug: only the template is compared, not the configuration.
FreshIgnoringConfig(e, v) == (e.file => e.mtime = template) /\ ~RecheckDue(e)

\* The condition of fast_hit on its snapshot, with the mtime stat'ed now.
Fresh(e, v) ==
    /\ SameFingerprint(e.ver, v)
    /\ e.file => e.mtime = template
    /\ ~RecheckDue(e)

-----------------------------------------------------------------------------
\* Steps of a process.

Goto(p, to) == pc' = [pc EXCEPT ![p] = to]

\* get: read the fingerprint of the configuration in force.
BeginFetch(p) ==
    /\ p \in FetchProcess
    /\ pc[p] = "idle"
    /\ want' = [want EXCEPT ![p] = ver]
    /\ warm' = IF entry # NoEntry THEN warm \cup {p} ELSE warm
    /\ Goto(p, "get")
    /\ UNCHANGED <<ver, hooked, template, entry, gate, path, need, force, draft, snap, answer>>

\* The places that call fast_hit: in get, in refresh_if_stale before the
\* gate, behind it, and after a refresh, and at the end of get's last arm.
HitStage == {"get", "before", "behind", "after", "final"}
Target(p) == IF pc[p] \in {"get", "final"} THEN want[p] ELSE need[p]

\* fast_hit, under the inner lock: copy the entry; the stat runs later.
FastSnapshot(p) ==
    /\ pc[p] \in HitStage
    /\ snap[p] = NoEntry
    /\ entry # NoEntry
    /\ snap' = [snap EXCEPT ![p] = entry]
    /\ UNCHANGED <<ver, hooked, template, entry, gate, pc, path, want, need, force, draft,
                   answer, warm>>

\* Bug: returning early from refresh_if_stale keeps the gate.
AfterHitKeepGate(stage, p) ==
    CASE stage \in {"get", "final"} -> "done"
      [] stage = "after" -> "unlock"
      [] OTHER -> IF p \in FetchProcess THEN "final" ELSE "done"

\* Where a hit leads: get returns it; refresh_if_stale returns, dropping the
\* gate if it holds it.
AfterHit(stage, p) ==
    CASE stage \in {"get", "final"} -> "done"
      [] stage \in {"behind", "after"} -> "unlock"
      [] OTHER -> IF p \in FetchProcess THEN "final" ELSE "done"

\* fast_hit, outside the lock: the stat confirms the snapshot.
FastHit(p) ==
    /\ pc[p] \in HitStage
    /\ snap[p] # NoEntry
    /\ Fresh(snap[p], Target(p))
    /\ snap' = [snap EXCEPT ![p] = NoEntry]
    /\ answer' = IF pc[p] \in {"get", "final"} THEN [answer EXCEPT ![p] = snap[p].ver] ELSE answer
    /\ Goto(p, AfterHit(pc[p], p))
    /\ UNCHANGED <<ver, hooked, template, entry, gate, path, want, need, force, draft, warm>>

\* Where a miss leads.  After a refresh, a second one is forced; after a
\* forced one, refresh_if_stale gives up.
AfterMiss(stage, p) ==
    CASE stage = "get" -> "branch"
      [] stage = "before" -> "lock"
      [] stage = "behind" -> "read"
      [] stage = "after" -> IF force[p] THEN "unlock" ELSE "read"
      [] stage = "final" -> "stale"

\* fast_hit: no entry at all, or the snapshot does not pass.
FastMiss(p) ==
    /\ pc[p] \in HitStage
    /\ \/ snap[p] = NoEntry /\ entry = NoEntry
       \/ snap[p] # NoEntry /\ ~Fresh(snap[p], Target(p))
    /\ snap' = [snap EXCEPT ![p] = NoEntry]
    /\ force' = IF pc[p] = "after" THEN [force EXCEPT ![p] = TRUE] ELSE force
    /\ Goto(p, AfterMiss(pc[p], p))
    /\ UNCHANGED <<ver, hooked, template, entry, gate, path, want, need, draft, answer, warm>>

\* get, `None` arm: no entry, so one has to exist before the request ends.
BranchCold(p) ==
    /\ pc[p] = "branch"
    /\ entry = NoEntry
    /\ path' = [path EXCEPT ![p] = "cold"]
    /\ Goto(p, "lock")
    /\ UNCHANGED <<ver, hooked, template, entry, gate, want, need, force, draft, snap, answer,
                   warm>>

\* get, `Some(true)` arm: only time has passed; spawn the background refresh
\* and serve what is stored.
BranchSwr(p) ==
    /\ pc[p] = "branch"
    /\ entry # NoEntry
    /\ SameFingerprint(entry.ver, want[p])
    /\ path' = [path EXCEPT ![p] = "swr"]
    /\ pc' = [pc EXCEPT ![p] = "stale", ![<<"swr", p[2]>>] = "try"]
    /\ UNCHANGED <<ver, hooked, template, entry, gate, want, need, force, draft, snap, answer,
                   warm>>

\* Bug: a changed configuration is served stale-while-revalidate too.
BranchChangedServesStale(p) ==
    /\ pc[p] = "branch"
    /\ entry # NoEntry
    /\ ~SameFingerprint(entry.ver, want[p])
    /\ path' = [path EXCEPT ![p] = "changed"]
    /\ pc' = [pc EXCEPT ![p] = "stale", ![<<"swr", p[2]>>] = "try"]
    /\ UNCHANGED <<ver, hooked, template, entry, gate, want, need, force, draft, snap, answer,
                   warm>>

\* get, `Some(false)` arm: the configuration changed; wait for a refresh.
BranchChanged(p) ==
    /\ pc[p] = "branch"
    /\ entry # NoEntry
    /\ ~SameFingerprint(entry.ver, want[p])
    /\ path' = [path EXCEPT ![p] = "changed"]
    /\ Goto(p, "reread")
    /\ UNCHANGED <<ver, hooked, template, entry, gate, want, need, force, draft, snap, answer,
                   warm>>

\* refresh_if_stale: its own read of the configuration's fingerprint.
Reread(p) ==
    /\ pc[p] = "reread"
    /\ need' = [need EXCEPT ![p] = ver]
    /\ Goto(p, "before")
    /\ UNCHANGED <<ver, hooked, template, entry, gate, path, want, force, draft, snap, answer,
                   warm>>

\* stale_hit().expect(..): serve whatever is stored.
ServeStored(p) ==
    /\ pc[p] = "stale"
    /\ entry # NoEntry
    /\ answer' = [answer EXCEPT ![p] = entry.ver]
    /\ Goto(p, "done")
    /\ UNCHANGED <<ver, hooked, template, entry, gate, path, want, need, force, draft, snap, warm>>

-----------------------------------------------------------------------------
\* The single-flight gate: a fair tokio mutex, granted in arrival order.

\* single_flight: try_lock, or queue up in lock().await.
JoinGate(p) ==
    /\ pc[p] = "lock"
    /\ gate' = Append(gate, p)
    /\ Goto(p, "wait")
    /\ UNCHANGED <<ver, hooked, template, entry, locals>>

\* The gate is granted.  refresh_if_stale looks again before it refreshes;
\* the cold arm takes any entry the previous holder stored.
WinGate(p) ==
    /\ pc[p] = "wait"
    /\ gate # <<>>
    /\ Head(gate) = p
    /\ Goto(p, IF path[p] = "cold" THEN "stored" ELSE "behind")
    /\ UNCHANGED <<ver, hooked, template, entry, gate, locals>>

\* Bug: the background task refreshes without looking at the gate.
TryGateIgnored(p) ==
    /\ pc[p] = "try"
    /\ gate' = gate
    /\ Goto(p, "read")
    /\ UNCHANGED <<ver, hooked, template, entry, locals>>

\* The spawned background task: refresh only if nobody else is.
TryGate(p) ==
    /\ pc[p] = "try"
    /\ IF gate = <<>>
         THEN gate' = <<p>> /\ Goto(p, "read")
         ELSE gate' = gate /\ Goto(p, "done")
    /\ UNCHANGED <<ver, hooked, template, entry, locals>>

\* Cold arm: stale_hit under the gate, before the loop and after each refresh;
\* every refresh after the first is forced.
ColdLook(p) ==
    /\ pc[p] \in {"stored", "coldafter"}
    /\ IF entry # NoEntry
         THEN /\ answer' = [answer EXCEPT ![p] = entry.ver]
              /\ force' = force
              /\ Goto(p, "unlock")
         ELSE /\ answer' = answer
              /\ force' = [force EXCEPT ![p] = (pc[p] = "coldafter")]
              /\ Goto(p, "read")
    /\ UNCHANGED <<ver, hooked, template, entry, gate, path, want, need, draft, snap, warm>>

\* The guard is dropped.
Unlock(p) ==
    /\ pc[p] = "unlock"
    /\ gate' = Tail(gate)
    /\ force' = [force EXCEPT ![p] = FALSE]
    /\ need' = [need EXCEPT ![p] = 0]
    /\ Goto(p, IF p \in FetchProcess /\ path[p] = "changed" THEN "final" ELSE "done")
    /\ UNCHANGED <<ver, hooked, template, entry, path, want, draft, snap, answer, warm>>

-----------------------------------------------------------------------------
\* refresh, run by the holder of the gate.

AfterRefresh(p) ==
    CASE path[p] = "cold" -> "coldafter" [] path[p] = "swr" -> "unlock" [] OTHER -> "after"

\* Clone the configuration in force.
RefreshRead(p) ==
    /\ pc[p] = "read"
    /\ draft' = [draft EXCEPT ![p] = [Blank EXCEPT !.ver = ver]]
    /\ Goto(p, "load")
    /\ UNCHANGED <<ver, hooked, template, entry, gate, path, want, need, force, snap, answer, warm>>

\* reload_template on a blocking thread: from a file, or from elsewhere (the
\* codex binary, or nothing found) with no path to stat.
RefreshLoad(p) ==
    /\ pc[p] = "load"
    /\ \E found \in BOOLEAN :
         draft' = [draft EXCEPT ![p].file = found, ![p].text = IF found THEN template ELSE 0]
    /\ Goto(p, "stat")
    /\ UNCHANGED <<ver, hooked, template, entry, gate, path, want, need, force, snap, answer, warm>>

\* file_mtime of the template, after it was read.
RefreshStat(p) ==
    /\ pc[p] = "stat"
    /\ draft' = [draft EXCEPT ![p].mtime = IF draft[p].file THEN template ELSE 0]
    /\ Goto(p, "check")
    /\ UNCHANGED <<ver, hooked, template, entry, gate, path, want, need, force, snap, answer, warm>>

\* Bug: a discarded refresh also drops the stored entry.
RefreshCheckClears(p) ==
    /\ pc[p] = "check"
    /\ IF force[p] \/ SameFingerprint(draft[p].ver, ver)
         THEN Goto(p, "store") /\ UNCHANGED <<entry, draft>>
         ELSE /\ Goto(p, AfterRefresh(p))
              /\ draft' = [draft EXCEPT ![p] = Blank]
              /\ entry' = NoEntry
    /\ UNCHANGED <<ver, hooked, template, gate, path, want, need, force, snap, answer, warm>>

\* The fingerprint guard: unless forced, a configuration written meanwhile
\* discards the refresh.
RefreshCheck(p) ==
    /\ pc[p] = "check"
    /\ IF force[p] \/ SameFingerprint(draft[p].ver, ver)
         THEN Goto(p, "store") /\ draft' = draft
         ELSE Goto(p, AfterRefresh(p)) /\ draft' = [draft EXCEPT ![p] = Blank]
    /\ UNCHANGED <<ver, hooked, template, entry, gate, path, want, need, force, snap, answer, warm>>

\* Replace the entry.  The guard's read lock is gone by now: a write may have
\* landed since the check.
RefreshStore(p) ==
    /\ pc[p] = "store"
    /\ entry' = draft[p]
    /\ draft' = [draft EXCEPT ![p] = Blank]
    /\ Goto(p, AfterRefresh(p))
    /\ UNCHANGED <<ver, hooked, template, gate, path, want, need, force, snap, answer, warm>>

-----------------------------------------------------------------------------
\* The configuration applier, the template file and time.

\* spawn_config_applier: the next validated configuration is swapped in.
ApplyConfig ==
    /\ ver < MaxEdits
    /\ hooked = ver
    /\ ver' = ver + 1
    /\ UNCHANGED <<hooked, template, entry, gate, pc, locals>>

\* Bug: the hook is not called after an applied change.
FireHookNothing ==
    /\ hooked < ver
    /\ hooked' = hooked + 1
    /\ UNCHANGED <<ver, template, entry, gate, pc, locals>>

\* Codex's own cache file unlinked, the hook spawns a refresh_if_stale task.
FireHook ==
    /\ hooked < ver
    /\ hooked' = hooked + 1
    /\ Goto(<<"hook", hooked + 1>>, "reread")
    /\ UNCHANGED <<ver, template, entry, gate, locals>>

\* Codex rewrites its models.json.
EditTemplate ==
    /\ template < MaxTemplateEdits
    /\ template' = template + 1
    /\ UNCHANGED <<ver, hooked, entry, gate, pc, locals>>

\* TEMPLATE_RECHECK_INTERVAL passes.
PassInterval ==
    /\ entry # NoEntry
    /\ ~entry.aged
    /\ entry' = [entry EXCEPT !.aged = TRUE]
    /\ UNCHANGED <<ver, hooked, template, gate, pc, locals>>

Step(p) ==
    \/ FastSnapshot(p) \/ FastHit(p) \/ FastMiss(p)
    \/ BranchCold(p) \/ BranchSwr(p) \/ BranchChanged(p)
    \/ Reread(p) \/ ServeStored(p)
    \/ JoinGate(p) \/ WinGate(p) \/ TryGate(p) \/ ColdLook(p) \/ Unlock(p)
    \/ RefreshRead(p) \/ RefreshLoad(p) \/ RefreshStat(p) \/ RefreshCheck(p) \/ RefreshStore(p)

Environment == ApplyConfig \/ EditTemplate \/ PassInterval \/ \E p \in Process : BeginFetch(p)

Next == Environment \/ FireHook \/ \E p \in Process : Step(p)

\* A spawned task or a request that can run is run (tokio polls every ready
\* task); the applier goes on to the hook.  Nobody has to edit or to fetch.
Fairness == WF_vars(FireHook) /\ \A p \in Process : WF_vars(Step(p))

Spec == Init /\ [][Next]_vars
FairSpec == Spec /\ Fairness

-----------------------------------------------------------------------------
\* Properties.

Stage == {"idle", "get", "branch", "reread", "before", "lock", "wait", "behind", "after",
          "final", "stale", "try", "stored", "coldafter", "unlock", "read", "load", "stat",
          "check", "store", "done"}

TypeOK ==
    /\ ver \in Version /\ hooked \in 0..ver
    /\ template \in Text
    /\ entry \in Entry \cup {NoEntry}
    /\ gate \in Seq(Process)
    /\ pc \in [Process -> Stage]
    /\ path \in [Process -> {"none", "cold", "swr", "changed"}]
    /\ want \in [Process -> Version] /\ need \in [Process -> Version]
    /\ force \in [Process -> BOOLEAN]
    /\ draft \in [Process -> Entry]
    /\ snap \in [Process -> Entry \cup {NoEntry}]
    /\ answer \in [Process -> Version \cup {NoEntry}]
    /\ warm \in SUBSET FetchProcess

\* The process runs the code that holds the guard of `refreshing`.
Holding(p) == pc[p] \in {"stored", "coldafter", "behind", "after", "unlock",
                         "read", "load", "stat", "check", "store"}

\* Two refreshes never run at once, whichever of the three call sites they
\* come from (models_cache.rs: "single-flight").
SingleFlight == \A p, q \in Process : Holding(p) /\ Holding(q) => p = q

\* Neither expect() of `get` can fire: "nothing ever clears it".
NoPanic == \A p \in Process : pc[p] = "stale" => entry # NoEntry

\* A fetch that begins with a catalog stored is answered from a configuration
\* whose catalog was current at some time during the fetch: "a fetch in this
\* window must never return the pre-change body".  It compares what the body
\* is rendered from, not the fingerprints.
NeverPreChange ==
    \A p \in warm : answer[p] # NoEntry =>
        \E v \in want[p]..ver : ConfigAt[v] = ConfigAt[answer[p]]

\* A refresh never replaces a catalog by one of an older configuration, and
\* never drops it.
NeverBackwards ==
    [][entry # NoEntry => entry' # NoEntry /\ entry'.ver >= entry.ver]_entry

\* The cache implements CatalogService: the published catalog is the stored
\* one, a client's floor follows from what its fetch read when it began.
Service == INSTANCE CatalogService WITH
    Clients <- FetchProcess,
    NotYet <- NoEntry,
    published <- IF entry = NoEntry THEN NoEntry ELSE entry.ver,
    floor <- [p \in FetchProcess |->
                IF pc[p] = "idle" THEN NoEntry ELSE IF p \in warm THEN want[p] ELSE 0],
    answer <- [p \in FetchProcess |-> answer[p]]

ImplementsService == Service!Spec

\* Every fetch is answered: no lost gate, no endless refresh loop.
FetchAnswered == \A p \in FetchProcess : pc[p] = "get" ~> pc[p] = "done"

\* After the last reload the stored catalog becomes that configuration's and
\* stays so, without any fetch: the applier's hook refreshes proactively.
ReloadReachesCatalog ==
    <>[](ver > 0 => entry # NoEntry /\ SameFingerprint(entry.ver, ver))
=============================================================================
