------------------------------ MODULE Control ------------------------------
(***************************************************************************)
(* control.Manager (internal/control) with the parts of the pool and of    *)
(* the configuration it writes to: a change made in the management         *)
(* interface exists in three copies, the live components (pool.Add,        *)
(* Remove, SetStrategy, Resolver.SetServers), the manager's configuration  *)
(* and the file (config.Save).  A change is applied, then saved step by    *)
(* step; a step that fails rolls the change back, and the machine may stop *)
(* between any two steps and start again from the file.                    *)
(*                                                                         *)
(* m.mu is held from the first step of a change to its last, so one change *)
(* is in progress at a time.  Requests that are refused (read-only mode,   *)
(* malformed upstreams or resolvers, unknown strategies) change nothing    *)
(* and are left out.                                                       *)
(***************************************************************************)
EXTENDS Naturals, SequencesExt

CONSTANTS
    Candidates,     \* well-formed upstreams, [name, addrs]
    Initial,        \* the configuration in the file at first
    Strategies,
    ServerLists,    \* lists of distinct public resolvers
    Nobody          \* no upstream

Names == {u.name : u \in Candidates}

\* Two upstreams that may be in one pool.
Apart(u, v) == u.name # v.name /\ u.addrs \cap v.addrs = {}

\* Validate on the fields a change can touch.
Sound(c) ==
    /\ c.ups # <<>>
    /\ c.strategy \in Strategies
    /\ c.enabled => c.servers # <<>>
    /\ \A k, l \in DOMAIN c.ups : k # l => Apart(c.ups[k], c.ups[l])

\* The file can be started from: Validate looks at fallback.timeout and
\* fallback.summary_interval only when the fallback is enabled.
Loadable(c) == Sound(c) /\ (c.enabled => c.timeouts)

\* timeouts: those two durations are positive.  No change touches them.
Configs == [ups : Seq(Candidates), strategy : Strategies, enabled : BOOLEAN,
            servers : ServerLists, timeouts : BOOLEAN]

ASSUME InitialAssumption ==
    /\ IsFiniteSet(Candidates)
    /\ Initial \in Configs
    /\ Loadable(Initial)

VARIABLES
    running,    \* the process is up
    live,       \* the pool's membership and strategy, the resolver's list
    cfg,        \* Manager.cfg
    op,         \* the change in progress
    tmp,        \* Save's temporary file
    file, bak   \* the configuration file and its backup

vars == <<running, live, cfg, op, tmp, file, bak>>

\* What New and NewResolver build from a configuration.
Built(c) == [ups |-> c.ups, strategy |-> c.strategy,
             servers |-> IF c.enabled THEN c.servers ELSE <<>>]

Free == [at |-> "free", kind |-> "none", up |-> Nobody, was |-> Initial]

Places == {"free", "create", "sync", "backup", "backing", "rename", "rollback"}

Kinds == {"none", "add", "remove", "strategy", "fallback"}

Files == [cfg : Configs, whole : BOOLEAN, synced : BOOLEAN]

\* No configuration has more upstreams than there are names.
TypeOK ==
    /\ running \in BOOLEAN
    /\ live \in [ups : Seq(Candidates), strategy : Strategies, servers : ServerLists \cup {<<>>}]
    /\ cfg \in Configs
    /\ op \in [at : Places, kind : Kinds, up : Candidates \cup {Nobody}, was : Configs]
    /\ {tmp, file, bak} \subseteq Files
    /\ \A c \in {live, cfg, op.was, tmp.cfg, file.cfg, bak.cfg} :
          Len(c.ups) <= Cardinality(Names)

\* A file holding c: whole unless its writing was cut short, synced once it is
\* sure to survive a power cut.
Written(c) == [cfg |-> c, whole |-> TRUE, synced |-> FALSE]
Synced(f) == [f EXCEPT !.synced = TRUE]

\* Stands for a file that is missing or of no more interest.
NoFile == [cfg |-> Initial, whole |-> FALSE, synced |-> FALSE]

Init ==
    /\ running = TRUE
    /\ cfg = Initial
    /\ live = Built(Initial)
    /\ op = Free
    /\ file = Synced(Written(Initial))
    /\ tmp = NoFile
    /\ bak = NoFile
-----------------------------------------------------------------------------
(***************************************************************************)
(* The changes: apply to the live components and to the configuration.     *)
(***************************************************************************)
Change(kind, up, l, c) ==
    /\ running
    /\ op = Free
    /\ op' = [at |-> "create", kind |-> kind, up |-> up, was |-> cfg]
    /\ live' = l
    /\ cfg' = c
    /\ UNCHANGED <<running, tmp, file, bak>>

\* Mutant of Addable: nothing is compared with the upstreams in the pool.
AddableUnchecked(u) == TRUE

\* pool.Add refuses a name or an address the pool has already.
Addable(u) == \A k \in DOMAIN live.ups : Apart(live.ups[k], u)

AddUpstream(u) ==
    /\ Addable(u)
    /\ Change("add", u, [live EXCEPT !.ups = Append(@, u)],
                        [cfg EXCEPT !.ups = Append(@, u)])

At(s, name) == {k \in DOMAIN s : s[k].name = name}

\* The first upstream of that name is taken out.
Without(s, name) == RemoveAt(s, Min(At(s, name)))

\* RemoveUpstream: pool.Remove refuses to remove the only upstream.
RemoveUpstream(name) ==
    /\ At(cfg.ups, name) # {} /\ At(live.ups, name) # {}
    /\ Len(live.ups) > 1
    /\ Change("remove", cfg.ups[Min(At(cfg.ups, name))],
              [live EXCEPT !.ups = Without(@, name)],
              [cfg EXCEPT !.ups = Without(@, name)])

SetStrategy(s) ==
    Change("strategy", Nobody, [live EXCEPT !.strategy = s], [cfg EXCEPT !.strategy = s])

SetFallback(enabled, servers) ==
    /\ enabled => servers # <<>>
    /\ Change("fallback", Nobody,
              [live EXCEPT !.servers = IF enabled THEN servers ELSE <<>>],
              [cfg EXCEPT !.enabled = enabled, !.servers = servers])
-----------------------------------------------------------------------------
(***************************************************************************)
(* saveLocked and Save.                                                    *)
(***************************************************************************)
Goto(place) == op' = [op EXCEPT !.at = place]

\* The temporary file is created and written.
Create ==
    /\ running /\ op.at = "create"
    /\ tmp' = Written(cfg)
    /\ Goto("sync")
    /\ UNCHANGED <<running, live, cfg, file, bak>>

\* Mutant of Flushed: the temporary file is not flushed to disk.
FlushedLater(f) == f

\* tmp.Sync().
Flushed(f) == Synced(f)

Sync ==
    /\ running /\ op.at = "sync"
    /\ tmp' = Flushed(tmp)
    /\ Goto("backup")
    /\ UNCHANGED <<running, live, cfg, file, bak>>

\* The backup is truncated; it is not whole until it is written.
Backup ==
    /\ running /\ op.at = "backup"
    /\ bak' = NoFile
    /\ Goto("backing")
    /\ UNCHANGED <<running, live, cfg, tmp, file>>

\* Mutant of Previous: the backup is taken of the new configuration.
PreviousNew == tmp.cfg

\* The contents kept in the backup.
Previous == file.cfg

BackedUp ==
    /\ running /\ op.at = "backing"
    /\ bak' = Written(Previous)
    /\ Goto("rename")
    /\ UNCHANGED <<running, live, cfg, tmp, file>>

\* The rename ends the change.
Rename ==
    /\ running /\ op.at = "rename"
    /\ file' = tmp
    /\ tmp' = NoFile
    /\ op' = Free
    /\ UNCHANGED <<running, live, cfg, bak>>

\* A step of Save fails, for want of space or permission; the temporary file is
\* removed.
SaveFails ==
    /\ running /\ op.at \notin {"free", "rollback"}
    /\ tmp' = NoFile
    /\ Goto("rollback")
    /\ UNCHANGED <<running, live, cfg, file, bak>>

\* Mutant of Undone: a removal's rollback forgets the configuration.
UndoneLiveOnly(c) ==
    CASE op.kind = "add"      -> [c EXCEPT !.ups = Front(@)]
      [] op.kind = "strategy" -> [c EXCEPT !.strategy = op.was.strategy]
      [] op.kind = "fallback" -> [c EXCEPT !.enabled = op.was.enabled,
                                           !.servers = op.was.servers]
      [] OTHER                -> c

\* The rollback closures, on the configuration.
Undone(c) ==
    CASE op.kind = "add"      -> [c EXCEPT !.ups = Front(@)]
      [] op.kind = "remove"   -> [c EXCEPT !.ups = Append(@, op.up)]
      [] op.kind = "strategy" -> [c EXCEPT !.strategy = op.was.strategy]
      [] op.kind = "fallback" -> [c EXCEPT !.enabled = op.was.enabled,
                                           !.servers = op.was.servers]

\* Mutant of UndoneLive: the resolver keeps the new list, enabled or not.
UndoneLiveAlways(l) ==
    CASE op.kind = "add"      -> [l EXCEPT !.ups = Without(@, op.up.name)]
      [] op.kind = "remove"   -> [l EXCEPT !.ups = Append(@, op.up)]
      [] op.kind = "strategy" -> [l EXCEPT !.strategy = op.was.strategy]
      [] op.kind = "fallback" -> [l EXCEPT !.servers = op.was.servers]

\* The rollback closures, on the live components.
UndoneLive(l) ==
    CASE op.kind = "add"      -> [l EXCEPT !.ups = Without(@, op.up.name)]
      [] op.kind = "remove"   -> [l EXCEPT !.ups = Append(@, op.up)]
      [] op.kind = "strategy" -> [l EXCEPT !.strategy = op.was.strategy]
      [] op.kind = "fallback" -> [l EXCEPT !.servers = IF op.was.enabled
                                                       THEN op.was.servers ELSE <<>>]

Rollback ==
    /\ running /\ op.at = "rollback"
    /\ live' = UndoneLive(live)
    /\ cfg' = Undone(cfg)
    /\ op' = Free
    /\ UNCHANGED <<running, tmp, file, bak>>
-----------------------------------------------------------------------------
\* A power cut or a crash, at any step: memory is lost, what was not flushed may
\* be torn, a temporary file left behind is never read.
Crash ==
    /\ running
    /\ running' = FALSE
    /\ op' = Free
    /\ \E f \in {file, [file EXCEPT !.whole = @ /\ file.synced]} : file' = f
    /\ cfg' = Initial /\ live' = Built(Initial) /\ tmp' = NoFile
    /\ bak' \in {bak, NoFile}

\* The process starts from the file, if it can be loaded.
Restart ==
    /\ ~running
    /\ file.whole /\ Loadable(file.cfg)
    /\ running' = TRUE
    /\ cfg' = file.cfg
    /\ live' = Built(file.cfg)
    /\ UNCHANGED <<op, tmp, file, bak>>

Next ==
    \/ \E u \in Candidates : AddUpstream(u)
    \/ \E n \in Names : RemoveUpstream(n)
    \/ \E s \in Strategies : SetStrategy(s)
    \/ \E enabled \in BOOLEAN, servers \in ServerLists : SetFallback(enabled, servers)
    \/ Create
    \/ Sync
    \/ Backup
    \/ BackedUp
    \/ Rename
    \/ SaveFails
    \/ Rollback
    \/ Crash
    \/ Restart

Spec == Init /\ [][Next]_vars
-----------------------------------------------------------------------------
(***************************************************************************)
(* Properties.                                                             *)
(***************************************************************************)

\* What runs is what the manager believes it configured, in the same order,
\* through changes, failed saves, rollbacks and restarts (control.go).
LiveAsConfigured == running => live = Built(cfg)

\* Once a change is over, saved or rolled back, the file says the same as the
\* configuration but for the order of the upstreams (control.go, saveLocked).
SavedOrUndone ==
    running /\ op = Free =>
        /\ ToSet(cfg.ups) = ToSet(file.cfg.ups)
        /\ Len(cfg.ups) = Len(file.cfg.ups)
        /\ [cfg EXCEPT !.ups = <<>>] = [file.cfg EXCEPT !.ups = <<>>]

\* Whatever changes are made and wherever the power is cut, the file is whole
\* and what it says of upstreams, strategy and resolvers passes the validation of
\* the next start; it passes altogether if the fallback's timeouts did at first
\* (config.go, Save, Validate).  SetFallback does not look at those, so that a file
\* without fallback whose timeouts are zero may become one that does not load.
FileLoads ==
    /\ file.whole
    /\ Sound(file.cfg)
    /\ Initial.timeouts => Loadable(file.cfg)

\* The file is replaced only when its contents are whole in the backup, so the
\* change can be taken back by hand (config.go, Save).
BackupFirst ==
    [][file' # file => \/ bak.whole /\ bak.cfg = file.cfg
                       \/ file'.cfg = file.cfg]_vars
=============================================================================
