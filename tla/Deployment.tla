------------------------------ MODULE Deployment ------------------------------
(***************************************************************************)
(* The commands of mcb on one host: the service unit that the timer starts *)
(* (nix/module.nix) and commands run by hand (internal/cli), which share   *)
(* config.yaml, its metadata sidecar, the metadata cache and the source    *)
(* cache, and hold no lock.  A unit that succeeds restarts the daemon.     *)
(*                                                                         *)
(* What a command reads is compared by version: of the sources of the      *)
(* profile, as they are published (that of the oldest of them), and of the *)
(* metadata cache, as it is refreshed.  SourceFetch and MetadataRefresh    *)
(* are the inside of these steps, PrivateFile of those that replace a file.*)
(***************************************************************************)
EXTENDS Naturals

CONSTANTS
    Manual,       \* slots for commands run by hand
    May,          \* May[c]: the kinds of commands that are run in slot c
    Service,      \* mihomo-config-builder.service
    MaxVersion,   \* bound: how often sources are published
    MaxCommands,  \* bound: how many commands are run by hand
    None          \* no file; no daemon; nothing in hand

Commands == Manual \union {Service}

(* mcb build without and with --metadata-output, diff, metadata export and   *)
(* metadata refresh.                                                         *)
Loading == {"build", "buildBoth", "diff"}
Reading == {"export", "refresh"}
Kinds == Loading \union Reading

(* A configuration, by the sources it was built from and the metadata its    *)
(* labels came from, and a sidecar, by the configuration whose names it      *)
(* lists and the metadata it says of them.                                   *)
Configs == [src : Nat, meta : Nat]
Sidecars == [of : Configs, meta : Nat]

ASSUME DeploymentAssumption ==
    /\ Service \notin Manual
    /\ May \in [Manual -> SUBSET Kinds]
    /\ MaxVersion \in Nat /\ MaxCommands \in Nat
    /\ None \notin Configs \union Sidecars

VARIABLES
    pub,      \* the sources as they are published
    cached,   \* the sources as they are in fetch.cacheDir, 0 for none
    meta,     \* the metadata cache, 0 for none
    config,   \* config.yaml
    sidecar,  \* the metadata sidecar
    daemon,   \* what the daemon was started with
    unit,     \* how the last run of the service ended
    kind,     \* kind[c]: the command c is running
    at,       \* at[c]: where it is
    src,      \* src[c]: the sources it has loaded
    snap,     \* snap[c]: the metadata it has read
    made,     \* made[c]: the configuration it has built or read
    started,  \* how many commands were run by hand
    calm,     \* from now on nothing fails, is published or is killed
    manual,   \* history: config.yaml was replaced by hand since the daemon started
    clean,    \* history: clean[c], nobody replaced config.yaml since c read or wrote it
    lapse     \* history: loads have overlapped, or one was not cached

files == <<cached, meta, config, sidecar>>
memory == <<kind, at, src, snap, made>>
history == <<manual, clean, lapse>>
vars == <<pub, files, daemon, unit, memory, started, calm, history>>

Locations == {"idle", "metadata", "load", "cache", "check", "config", "sidecar",
              "restart", "readConfig", "readCache", "refresh"}

TypeOK ==
    /\ pub \in Nat /\ cached \in Nat /\ meta \in Nat
    /\ config \in Configs \union {None}
    /\ sidecar \in Sidecars \union {None}
    /\ daemon \in Configs \union {None}
    /\ unit \in {"none", "success", "failure"}
    /\ kind \in [Commands -> Kinds]
    /\ at \in [Commands -> Locations]
    /\ src \in [Commands -> Nat]
    /\ snap \in [Commands -> Nat]
    /\ made \in [Commands -> Configs \union {None}]
    /\ started \in Nat
    /\ calm \in BOOLEAN
    /\ manual \in BOOLEAN
    /\ clean \in [Manual -> BOOLEAN]
    /\ lapse \in BOOLEAN

(* A new host, or one that was deployed before: the daemon is down or runs   *)
(* config.yaml.                                                              *)
Init ==
    /\ pub = 1 /\ cached \in 0..1 /\ meta = 0
    /\ config \in {None, [src |-> 1, meta |-> 0]}
    /\ sidecar = None
    /\ daemon \in {None, config}
    /\ unit = "none"
    /\ kind = [c \in Commands |-> "build"]
    /\ at = [c \in Commands |-> "idle"]
    /\ src = [c \in Commands |-> 0]
    /\ snap = [c \in Commands |-> 0]
    /\ made = [c \in Commands |-> None]
    /\ started = 0
    /\ calm = FALSE
    /\ manual = FALSE
    /\ clean = [c \in Manual |-> TRUE]
    /\ lapse = (config # None /\ cached = 0)

-----------------------------------------------------------------------------
Active(c) == at[c] # "idle"
Loads(c) == Active(c) /\ kind[c] \in Loading

Goto(c, l) == at' = [at EXCEPT ![c] = l]

(* What a command had in memory goes with it. *)
Forget(c) ==
    /\ kind' = [kind EXCEPT ![c] = "build"]
    /\ src' = [src EXCEPT ![c] = 0]
    /\ snap' = [snap EXCEPT ![c] = 0]
    /\ made' = [made EXCEPT ![c] = None]

(* A command ends without reaching ExecStartPost. *)
End(c) ==
    /\ Goto(c, "idle")
    /\ Forget(c)
    /\ unit' = IF c = Service THEN "failure" ELSE unit

(* The command c is run as k. *)
Start(c, k) ==
    /\ ~Active(c)
    /\ kind' = [kind EXCEPT ![c] = k]
    /\ Goto(c, IF k \in Loading THEN "metadata" ELSE "readConfig")
    /\ lapse' = (lapse \/ (k \in Loading /\ \E d \in Commands : Loads(d)))
    /\ UNCHANGED <<pub, files, daemon, unit, src, snap, made, calm, manual, clean>>

Run(c, k) ==
    /\ started < MaxCommands
    /\ started' = started + 1
    /\ Start(c, k)

(* The timer elapses, or the host boots.  A oneshot unit that is running is  *)
(* not started again.                                                        *)
Timer ==
    /\ Start(Service, "build")
    /\ UNCHANGED started

-----------------------------------------------------------------------------
(* build.Run reads the metadata cache once, and goes on without it when it   *)
(* is missing or unreadable.                                                 *)
ReadMetadata(c) ==
    /\ at[c] = "metadata"
    /\ snap' = [snap EXCEPT ![c] = meta] \/ (~calm /\ snap' = [snap EXCEPT ![c] = 0])
    /\ Goto(c, "load")
    /\ UNCHANGED <<pub, files, daemon, unit, kind, src, made, started, calm, history>>

(* Mutation: what is cached is not asked for again. *)
LoadCachedFirst(c) ==
    /\ at[c] = "load"
    /\ \/ cached = 0 /\ src' = [src EXCEPT ![c] = pub] /\ Goto(c, "cache")
       \/ cached # 0 /\ src' = [src EXCEPT ![c] = cached] /\ Goto(c, "check")
    /\ UNCHANGED <<pub, files, daemon, unit, kind, snap, made, started, calm, history>>

(* The template and the subscriptions are loaded: from their servers, or as  *)
(* they were cached, in an outage or in an offline build by hand.            *)
Load(c) ==
    /\ at[c] = "load"
    /\ \/ src' = [src EXCEPT ![c] = pub] /\ Goto(c, "cache")
       \/ /\ ~calm \/ c # Service
          /\ cached # 0
          /\ src' = [src EXCEPT ![c] = cached] /\ Goto(c, "check")
    /\ UNCHANGED <<pub, files, daemon, unit, kind, snap, made, started, calm, history>>

(* Mutation: what is cached already is not replaced. *)
CacheOnce(c) ==
    /\ at[c] = "cache"
    /\ IF cached = 0
       THEN cached' = src[c] /\ UNCHANGED lapse
       ELSE UNCHANGED <<cached, lapse>>
    /\ Goto(c, "check")
    /\ UNCHANGED <<pub, meta, config, sidecar, daemon, unit, kind, src, snap, made,
                   started, calm, manual, clean>>

(* The responses are cached, or a warning says that they could not be.       *)
Cache(c) ==
    /\ at[c] = "cache"
    /\ \/ cached' = src[c] /\ UNCHANGED lapse
       \/ ~calm /\ lapse' = TRUE /\ UNCHANGED cached
    /\ Goto(c, "check")
    /\ UNCHANGED <<pub, meta, config, sidecar, daemon, unit, kind, src, snap, made,
                   started, calm, manual, clean>>

(* Mutation: the metadata cache is read once more for the sidecar.           *)
CheckRereading(c) ==
    /\ at[c] = "check" /\ kind[c] # "diff"
    /\ made' = [made EXCEPT ![c] = [src |-> src[c], meta |-> snap[c]]]
    /\ snap' = [snap EXCEPT ![c] = meta]
    /\ Goto(c, "config")
    /\ UNCHANGED <<pub, files, daemon, unit, kind, src, started, calm, history>>

(* Merging, overrides, labels, hooks, validation and Export, all with the    *)
(* metadata that was read at first.                                          *)
Check(c) ==
    /\ at[c] = "check" /\ kind[c] # "diff"
    /\ made' = [made EXCEPT ![c] = [src |-> src[c], meta |-> snap[c]]]
    /\ Goto(c, "config")
    /\ UNCHANGED <<pub, files, daemon, unit, kind, src, snap, started, calm, history>>

(* mcb diff stops here. *)
Compare(c) ==
    /\ at[c] = "check" /\ kind[c] = "diff"
    /\ End(c)
    /\ UNCHANGED <<pub, files, daemon, started, calm, history>>

(* c replaces config.yaml. *)
Replaces(c) ==
    /\ config' = made[c]
    /\ manual' = (manual \/ c # Service)
    /\ clean' = [d \in Manual |-> d = c \/ at[d] \notin {"readCache", "sidecar"}]

(* WritePrivateFile of config.yaml, which may report a failure although the  *)
(* file is replaced; a build that fails writes no sidecar.                   *)
WriteConfig(c) ==
    /\ at[c] = "config"
    /\ Replaces(c)
    /\ \/ kind[c] = "buildBoth" /\ Goto(c, "sidecar") /\ UNCHANGED <<unit, kind, src, snap, made>>
       \/ c = Service /\ Goto(c, "restart") /\ UNCHANGED <<unit, kind, src, snap, made>>
       \/ ((kind[c] = "build" /\ c # Service) \/ ~calm) /\ End(c)
    /\ UNCHANGED <<pub, cached, meta, sidecar, daemon, started, calm, lapse>>

(* WritePrivateFile of the sidecar, which ends the command either way. *)
WriteSidecar(c) ==
    /\ at[c] = "sidecar"
    /\ sidecar' = [of |-> made[c], meta |-> snap[c]]
    /\ End(c)
    /\ clean' = [clean EXCEPT ![c] = TRUE]
    /\ UNCHANGED <<pub, cached, meta, config, daemon, started, calm, manual, lapse>>

-----------------------------------------------------------------------------
(* Mutation: a missing file is not an error. *)
ReadConfigMissing(c) ==
    /\ at[c] = "readConfig"
    /\ made' = [made EXCEPT ![c] = config]
    /\ Goto(c, "readCache")
    /\ UNCHANGED <<pub, files, daemon, unit, kind, src, snap, started, calm, history>>

(* metadata export and refresh read config.yaml, and fail without one. *)
ReadConfig(c) ==
    /\ at[c] = "readConfig"
    /\ \/ /\ config # None
          /\ made' = [made EXCEPT ![c] = config]
          /\ Goto(c, "readCache")
          /\ UNCHANGED <<unit, kind, src, snap>>
       \/ config = None /\ End(c)
    /\ UNCHANGED <<pub, files, daemon, started, calm, history>>

(* Then the metadata cache.  Export uses it as it is. *)
ReadCache(c) ==
    /\ at[c] = "readCache"
    /\ snap' = [snap EXCEPT ![c] = meta]
    /\ Goto(c, IF kind[c] = "export" THEN "sidecar" ELSE "refresh")
    /\ UNCHANGED <<pub, files, daemon, unit, kind, src, made, started, calm, history>>

(* A refresh that ends has looked something up. *)
Refresh(c) ==
    /\ at[c] = "refresh"
    /\ meta' = meta + 1
    /\ End(c)
    /\ clean' = [clean EXCEPT ![c] = TRUE]
    /\ UNCHANGED <<pub, cached, config, sidecar, daemon, started, calm, manual, lapse>>

-----------------------------------------------------------------------------
(* Mutation: the daemon is not restarted. *)
NoRestart(c) ==
    /\ at[c] = "restart"
    /\ Goto(c, "idle")
    /\ Forget(c)
    /\ unit' = "success"
    /\ UNCHANGED <<pub, files, daemon, started, calm, history>>

(* ExecStartPost: systemctl try-restart, which only restarts a daemon that   *)
(* runs.  The daemon reads config.yaml as it is by then.                     *)
TryRestart(c) ==
    /\ at[c] = "restart"
    /\ Goto(c, "idle")
    /\ Forget(c)
    /\ unit' = "success"
    /\ \/ daemon # None /\ daemon' = config /\ manual' = FALSE
       \/ daemon = None /\ UNCHANGED <<daemon, manual>>
    /\ UNCHANGED <<pub, files, started, calm, clean, lapse>>

(* The daemon is stopped, and started by other means. *)
StopDaemon ==
    /\ daemon # None /\ daemon' = None
    /\ UNCHANGED <<pub, files, unit, memory, started, calm, history>>

StartDaemon ==
    /\ daemon = None /\ config # None
    /\ daemon' = config
    /\ manual' = FALSE
    /\ UNCHANGED <<pub, files, unit, memory, started, calm, clean, lapse>>

(* A step fails before it changes a file, or the process is killed. *)
Fail(c) ==
    /\ Active(c) /\ ~calm
    /\ End(c)
    /\ clean' = [d \in Manual |-> d = c \/ clean[d]]
    /\ UNCHANGED <<pub, files, daemon, started, calm, manual, lapse>>

(* The sources change.  Responses are then newer than anything loaded.       *)
Publish ==
    /\ ~calm /\ pub < MaxVersion
    /\ pub' = pub + 1
    /\ UNCHANGED <<files, daemon, unit, memory, started, calm, history>>

(* The trouble is over.  Nothing but liveness depends on it. *)
CalmDown ==
    /\ ~calm /\ calm' = TRUE
    /\ UNCHANGED <<pub, files, daemon, unit, memory, started, history>>

Step(c) == \/ ReadMetadata(c) \/ Load(c) \/ Cache(c) \/ Check(c) \/ Compare(c)
           \/ WriteConfig(c) \/ WriteSidecar(c) \/ TryRestart(c)
           \/ ReadConfig(c) \/ ReadCache(c) \/ Refresh(c)

Next ==
    \/ \E c \in Commands : Step(c) \/ Fail(c)
    \/ \E c \in Manual : \E k \in May[c] : Run(c, k)
    \/ Timer
    \/ StopDaemon \/ StartDaemon
    \/ Publish \/ CalmDown

(* Commands that run go on, and the timer elapses again and again. *)
Fairness ==
    /\ \A c \in Commands : WF_vars(Step(c))
    /\ WF_vars(Timer)
    /\ WF_vars(CalmDown)

Spec == Init /\ [][Next]_vars
FairSpec == Spec /\ Fairness

-----------------------------------------------------------------------------
(* A command that writes the sidecar leaves one that lists the names of      *)
(* config.yaml, unless another command replaced config.yaml after this one   *)
(* wrote or read it; and a build tells of each node what its name was made   *)
(* from, although the metadata cache may be refreshed while it runs.         *)
SidecarMatches ==
    [][\A c \in Manual : WriteSidecar(c) /\ clean[c] =>
           /\ sidecar'.of = config'
           /\ kind[c] = "buildBoth" => sidecar'.meta = config'.meta]_vars

(* After a run of the service that succeeded, a daemon that is up runs       *)
(* config.yaml as it is, whatever failed before, unless somebody replaced    *)
(* the file by hand since the daemon started.                                *)
DaemonCurrent ==
    unit = "success" /\ ~Active(Service) /\ ~manual => daemon \in {None, config}

(* An outage never takes config.yaml back to older sources: what falls back  *)
(* to the cache is at least as new as what was built before, unless a        *)
(* response could not be cached, or loads overlapped.                        *)
NoRollback ==
    [][config # None /\ ~lapse => config'.src >= config.src]_vars

(* Once the trouble is over, the daemon comes to run the sources as they     *)
(* were published last, with labels from the metadata as it is, and stays    *)
(* there: no failure, kill or overlap leaves anything behind that the timer  *)
(* does not repair.                                                          *)
Converges ==
    <>[](daemon = None \/ daemon = [src |-> pub, meta |-> meta])
==============================================================================
