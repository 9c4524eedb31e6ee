--------------------------- MODULE DeploymentProofs ---------------------------
(***************************************************************************)
(* Proofs about Deployment for any number of commands by hand, published   *)
(* versions, kills and failures.                                           *)
(***************************************************************************)
EXTENDS Deployment, TLAPS

(* What the location of a command says of what it has in memory. *)
InHand(c) ==
    /\ at[c] \in {"metadata", "load", "cache", "check", "config"} => kind[c] \in Loading
    /\ at[c] = "config" => made[c] = [src |-> src[c], meta |-> snap[c]]
    /\ at[c] \in {"readCache", "sidecar"} => made[c] \in Configs
    /\ at[c] = "sidecar" /\ kind[c] = "buildBoth" => snap[c] = made[c].meta
    /\ at[c] = "restart" => c = Service
    /\ c = Service => /\ kind[c] = "build"
                      /\ at[c] \notin {"readConfig", "readCache", "sidecar", "refresh"}

(* config.yaml is still what c wrote or read. *)
Unchanged(c) == at[c] \in {"readCache", "sidecar"} /\ clean[c] => config = made[c]

IInv ==
    /\ TypeOK
    /\ \A c \in Commands : InHand(c)
    /\ \A c \in Manual : Unchanged(c)
    /\ DaemonCurrent

-----------------------------------------------------------------------------
LEMMA Slots == Manual \subseteq Commands /\ Service \in Commands
BY DEF Commands

LEMMA NewConfig ==
  ASSUME NEW s \in Nat, NEW m \in Nat
  PROVE  [src |-> s, meta |-> m] \in Configs
BY DEF Configs

LEMMA InitIInv == Init => IInv
<1> SUFFICES ASSUME Init PROVE IInv
  OBVIOUS
<1>1. TypeOK
  <2>1. [src |-> 1, meta |-> 0] \in Configs
    BY DEF Configs
  <2>2. config \in Configs \union {None} /\ daemon \in Configs \union {None}
    BY <2>1 DEF Init
  <2>3. cached \in Nat /\ lapse \in BOOLEAN
    BY DEF Init
  <2>4. QED
    BY <2>2, <2>3 DEF Init, TypeOK, Kinds, Loading, Locations
<1>2. \A c \in Commands : InHand(c)
  BY DEF Init, InHand
<1>3. \A c \in Manual : Unchanged(c)
  BY Slots DEF Init, Unchanged
<1>4. DaemonCurrent
  BY DEF Init, DaemonCurrent
<1>5. QED
  BY <1>1, <1>2, <1>3, <1>4 DEF IInv

(* Steps of one command that leave the files, the daemon and the other       *)
(* commands alone.                                                           *)
LEMMA PrivateStep ==
  ASSUME IInv, NEW c \in Commands,
         ReadMetadata(c) \/ Load(c) \/ Cache(c) \/ Check(c)
  PROVE  IInv'
<1>1. TypeOK'
  <2>1. CASE ReadMetadata(c)
    BY <2>1 DEF ReadMetadata, Goto, files, history, IInv, TypeOK, Locations
  <2>2. CASE Load(c)
    BY <2>2 DEF Load, Goto, files, history, IInv, TypeOK, Locations
  <2>3. CASE Cache(c)
    BY <2>3 DEF Cache, Goto, IInv, TypeOK, Locations
  <2>4. CASE Check(c)
    <3>1. [src |-> src[c], meta |-> snap[c]] \in Configs
      BY NewConfig DEF IInv, TypeOK
    <3>2. QED
      BY <2>4, <3>1 DEF Check, Goto, files, history, IInv, TypeOK, Locations
  <2>5. QED
    BY <2>1, <2>2, <2>3, <2>4
<1>2. /\ at[c] \in {"metadata", "load", "cache", "check"}
      /\ at' = [at EXCEPT ![c] = at'[c]]
      /\ at'[c] \in {"load", "cache", "check", "config"}
      /\ UNCHANGED <<config, daemon, unit, manual, clean, kind>>
      /\ \A d \in Commands : d # c => src'[d] = src[d] /\ snap'[d] = snap[d] /\ made'[d] = made[d]
      /\ at'[c] = "config" => made'[c] = [src |-> src'[c], meta |-> snap'[c]]
  BY DEF ReadMetadata, Load, Cache, Check, Goto, files, history, IInv, TypeOK
<1>3. ASSUME NEW d \in Commands PROVE InHand(d)'
  BY <1>2 DEF IInv, TypeOK, InHand
<1>4. ASSUME NEW d \in Manual PROVE Unchanged(d)'
  BY <1>2, Slots DEF IInv, TypeOK, Unchanged
<1>5. DaemonCurrent'
  BY <1>2, Slots DEF IInv, TypeOK, DaemonCurrent, Active
<1>6. QED
  BY <1>1, <1>3, <1>4, <1>5 DEF IInv

(* A command ends, and config.yaml is as it was. *)
LEMMA EndStep ==
  ASSUME IInv, NEW c \in Commands, End(c),
         UNCHANGED <<config, daemon, manual, pub, cached, started, calm, lapse>>,
         meta' \in Nat, sidecar' \in Sidecars \union {None},
         clean' \in [Manual -> BOOLEAN],
         \A d \in Manual : d # c => clean'[d] = clean[d]
  PROVE  IInv'
<1>1. TypeOK'
  BY DEF End, Forget, Goto, IInv, TypeOK, Locations, Kinds, Loading
<1>2. /\ at' = [at EXCEPT ![c] = "idle"]
      /\ kind'[c] = "build"
      /\ \A d \in Commands : d # c => kind'[d] = kind[d] /\ src'[d] = src[d]
                                      /\ snap'[d] = snap[d] /\ made'[d] = made[d]
  BY DEF End, Forget, Goto, IInv, TypeOK
<1>3. ASSUME NEW d \in Commands PROVE InHand(d)'
  BY <1>2 DEF IInv, TypeOK, InHand
<1>4. ASSUME NEW d \in Manual PROVE Unchanged(d)'
  BY <1>2, Slots DEF IInv, TypeOK, Unchanged
<1>5. DaemonCurrent'
  BY <1>2, Slots DEF End, IInv, TypeOK, DaemonCurrent, Active
<1>6. QED
  BY <1>1, <1>3, <1>4, <1>5 DEF IInv

LEMMA EndingSteps ==
  ASSUME IInv, NEW c \in Commands,
         \/ Compare(c) \/ WriteSidecar(c) \/ Refresh(c) \/ Fail(c)
         \/ ReadConfig(c) /\ config = None
  PROVE  IInv'
<1>1. CASE Compare(c)
  BY <1>1, EndStep DEF Compare, files, history, IInv, TypeOK
<1>2. CASE WriteSidecar(c)
  <2>1. [of |-> made[c], meta |-> snap[c]] \in Sidecars
    BY <1>2 DEF WriteSidecar, IInv, InHand, TypeOK, Sidecars
  <2>2. clean' \in [Manual -> BOOLEAN] /\ \A d \in Manual : d # c => clean'[d] = clean[d]
    BY <1>2 DEF WriteSidecar, IInv, TypeOK
  <2>3. QED
    BY <1>2, <2>1, <2>2, EndStep DEF WriteSidecar, IInv, TypeOK
<1>3. CASE Refresh(c)
  <2>1. clean' \in [Manual -> BOOLEAN] /\ \A d \in Manual : d # c => clean'[d] = clean[d]
    BY <1>3 DEF Refresh, IInv, TypeOK
  <2>2. meta' \in Nat /\ sidecar' \in Sidecars \union {None}
    BY <1>3 DEF Refresh, IInv, TypeOK
  <2>3. /\ End(c)
        /\ UNCHANGED <<config, daemon, manual, pub, cached, started, calm, lapse>>
    BY <1>3 DEF Refresh
  <2>4. QED
    BY <2>1, <2>2, <2>3, EndStep
<1>4. CASE Fail(c)
  <2>1. clean' \in [Manual -> BOOLEAN] /\ \A d \in Manual : d # c => clean'[d] = clean[d]
    BY <1>4 DEF Fail, IInv, TypeOK
  <2>2. QED
    BY <1>4, <2>1, EndStep DEF Fail, files, IInv, TypeOK
<1>5. CASE ReadConfig(c) /\ config = None
  BY <1>5, EndStep DEF ReadConfig, files, history, IInv, TypeOK
<1>6. QED
  BY <1>1, <1>2, <1>3, <1>4, <1>5

(* metadata export and refresh read. *)
LEMMA ReadStep ==
  ASSUME IInv, NEW c \in Commands,
         (ReadConfig(c) /\ config # None) \/ ReadCache(c)
  PROVE  IInv'
<1>1. c \in Manual
  <2>1. at[c] \in {"readConfig", "readCache"} /\ InHand(c)
    BY DEF ReadConfig, ReadCache, IInv
  <2>2. QED
    BY <2>1 DEF InHand, Commands
<1>2. CASE ReadConfig(c) /\ config # None
  <2>1. /\ at' = [at EXCEPT ![c] = "readCache"] /\ at[c] = "readConfig"
        /\ made' = [made EXCEPT ![c] = config]
        /\ UNCHANGED <<pub, files, daemon, unit, kind, src, snap, started, calm, history>>
    BY <1>2 DEF ReadConfig, Goto
  <2>2. TypeOK'
    BY <2>1 DEF files, history, IInv, TypeOK, Locations
  <2>3. ASSUME NEW d \in Commands PROVE InHand(d)'
    BY <1>1, <1>2, <2>1, DeploymentAssumption DEF files, history, IInv, TypeOK, InHand
  <2>4. ASSUME NEW d \in Manual PROVE Unchanged(d)'
    BY <2>1, Slots DEF files, history, IInv, TypeOK, Unchanged
  <2>5. DaemonCurrent'
    BY <2>1, Slots DEF files, history, IInv, TypeOK, DaemonCurrent, Active
  <2>6. QED
    BY <2>2, <2>3, <2>4, <2>5 DEF IInv
<1>3. CASE ReadCache(c)
  <2>1. /\ at' = [at EXCEPT ![c] = at'[c]] /\ at[c] = "readCache"
        /\ at'[c] = IF kind[c] = "export" THEN "sidecar" ELSE "refresh"
        /\ snap' = [snap EXCEPT ![c] = meta]
        /\ UNCHANGED <<pub, files, daemon, unit, kind, src, made, started, calm, history>>
    BY <1>3 DEF ReadCache, Goto, IInv, TypeOK
  <2>2. TypeOK'
    BY <2>1 DEF files, history, IInv, TypeOK, Locations
  <2>3. ASSUME NEW d \in Commands PROVE InHand(d)'
    BY <1>1, <2>1, DeploymentAssumption DEF files, history, IInv, TypeOK, InHand
  <2>4. ASSUME NEW d \in Manual PROVE Unchanged(d)'
    BY <2>1, Slots DEF files, history, IInv, TypeOK, Unchanged
  <2>5. DaemonCurrent'
    BY <2>1, Slots DEF files, history, IInv, TypeOK, DaemonCurrent, Active
  <2>6. QED
    BY <2>2, <2>3, <2>4, <2>5 DEF IInv
<1>4. QED
  BY <1>2, <1>3

(* config.yaml is replaced. *)
LEMMA WriteStep == ASSUME IInv, NEW c \in Commands, WriteConfig(c) PROVE IInv'
<1>1. /\ at[c] = "config" /\ made[c] \in Configs /\ made[c].meta = snap[c]
      /\ kind[c] \in Loading
  <2>1. at[c] = "config" /\ InHand(c) /\ src[c] \in Nat /\ snap[c] \in Nat
    BY DEF WriteConfig, IInv, TypeOK
  <2>2. QED
    BY <2>1, NewConfig DEF InHand
<1>2. /\ config' = made[c]
      /\ manual' = (manual \/ c # Service)
      /\ clean' = [d \in Manual |-> d = c \/ at[d] \notin {"readCache", "sidecar"}]
      /\ UNCHANGED <<pub, cached, meta, sidecar, daemon, started, calm, lapse>>
  BY DEF WriteConfig, Replaces
<1>3. /\ at' = [at EXCEPT ![c] = at'[c]] /\ kind' = [kind EXCEPT ![c] = kind'[c]]
      /\ made' = [made EXCEPT ![c] = made'[c]] /\ snap' = [snap EXCEPT ![c] = snap'[c]]
      /\ src' = [src EXCEPT ![c] = src'[c]]
      /\ \/ /\ at'[c] = "sidecar" /\ c # Service
            /\ UNCHANGED <<unit, kind, src, snap, made>>
         \/ /\ at'[c] = "restart" /\ c = Service
            /\ UNCHANGED <<unit, kind, src, snap, made>>
         \/ /\ at'[c] = "idle" /\ kind'[c] = "build" /\ src'[c] = 0 /\ snap'[c] = 0
            /\ made'[c] = None /\ unit' = IF c = Service THEN "failure" ELSE unit
  BY Slots DEF WriteConfig, End, Forget, Goto, IInv, TypeOK, InHand
<1>4. TypeOK'
  <2>1. at'[c] \in Locations /\ kind'[c] \in Kinds /\ src'[c] \in Nat /\ snap'[c] \in Nat
        /\ made'[c] \in Configs \union {None} /\ unit' \in {"none", "success", "failure"}
    BY <1>1, <1>3 DEF IInv, TypeOK, Locations, Kinds, Loading
  <2>2. /\ at' \in [Commands -> Locations] /\ kind' \in [Commands -> Kinds]
        /\ src' \in [Commands -> Nat] /\ snap' \in [Commands -> Nat]
        /\ made' \in [Commands -> Configs \union {None}]
    BY <1>3, <2>1 DEF IInv, TypeOK
  <2>3. manual' \in BOOLEAN /\ clean' \in [Manual -> BOOLEAN]
    BY <1>2 DEF IInv, TypeOK
  <2>4. QED
    BY <1>1, <1>2, <2>1, <2>2, <2>3 DEF IInv, TypeOK
<1>5. ASSUME NEW d \in Commands PROVE InHand(d)'
  BY <1>1, <1>3 DEF IInv, TypeOK, InHand
<1>6. ASSUME NEW d \in Manual PROVE Unchanged(d)'
  <2>1. CASE d = c
    BY <1>2, <1>3, <2>1, Slots, DeploymentAssumption DEF IInv, TypeOK, Unchanged
  <2>2. CASE d # c
    <3>1. at'[d] = at[d] /\ clean'[d] = (at[d] \notin {"readCache", "sidecar"})
      BY <1>2, <1>3, <2>2, Slots DEF IInv, TypeOK
    <3>2. QED
      BY <3>1 DEF Unchanged
  <2>3. QED
    BY <2>1, <2>2
<1>7. DaemonCurrent'
  <2>1. CASE c = Service
    BY <1>3, <2>1, Slots DEF IInv, TypeOK, DaemonCurrent, Active
  <2>2. CASE c # Service
    BY <1>2, <2>2 DEF DaemonCurrent
  <2>3. QED
    BY <2>1, <2>2
<1>8. QED
  BY <1>4, <1>5, <1>6, <1>7 DEF IInv

(* The unit succeeds, and the daemon is restarted. *)
LEMMA RestartStep == ASSUME IInv, NEW c \in Commands, TryRestart(c) PROVE IInv'
<1>1. c = Service
  BY DEF TryRestart, IInv, InHand
<1>2. /\ at' = [at EXCEPT ![c] = "idle"] /\ kind'[c] = "build"
      /\ \A d \in Commands : d # c => kind'[d] = kind[d] /\ src'[d] = src[d]
                                      /\ snap'[d] = snap[d] /\ made'[d] = made[d]
      /\ UNCHANGED <<pub, files, started, calm, clean, lapse>>
  BY DEF TryRestart, Goto, Forget, IInv, TypeOK
<1>3. TypeOK'
  BY DEF TryRestart, Goto, Forget, files, IInv, TypeOK, Locations, Kinds, Loading
<1>4. ASSUME NEW d \in Commands PROVE InHand(d)'
  BY <1>2 DEF IInv, TypeOK, InHand
<1>5. ASSUME NEW d \in Manual PROVE Unchanged(d)'
  BY <1>2, Slots DEF files, IInv, TypeOK, Unchanged
<1>6. daemon' \in {None, config'}
  BY DEF TryRestart, files
<1>7. QED
  BY <1>3, <1>4, <1>5, <1>6 DEF IInv, DaemonCurrent

(* A command starts. *)
LEMMA StartStep ==
  ASSUME IInv, NEW c \in Commands, NEW k \in Kinds, Start(c, k), started' \in Nat,
         c = Service => k = "build"
  PROVE  IInv'
<1>1. /\ at[c] = "idle" /\ at' = [at EXCEPT ![c] = at'[c]]
      /\ kind' = [kind EXCEPT ![c] = k]
      /\ at'[c] = IF k \in Loading THEN "metadata" ELSE "readConfig"
      /\ UNCHANGED <<pub, files, daemon, unit, src, snap, made, calm, manual, clean>>
      /\ lapse' \in BOOLEAN
  BY DEF Start, Goto, Active, IInv, TypeOK
<1>2. TypeOK'
  BY <1>1 DEF files, IInv, TypeOK, Locations
<1>3. ASSUME NEW d \in Commands PROVE InHand(d)'
  BY <1>1 DEF IInv, TypeOK, InHand, Loading
<1>4. ASSUME NEW d \in Manual PROVE Unchanged(d)'
  BY <1>1, Slots DEF files, IInv, TypeOK, Unchanged
<1>5. DaemonCurrent'
  BY <1>1, Slots DEF files, IInv, TypeOK, DaemonCurrent, Active
<1>6. QED
  BY <1>2, <1>3, <1>4, <1>5 DEF IInv

(* The world around the commands. *)
LEMMA WorldStep ==
  ASSUME IInv, StopDaemon \/ StartDaemon \/ Publish \/ CalmDown \/ UNCHANGED vars
  PROVE  IInv'
<1>1. UNCHANGED <<memory, files, unit, clean>>
  BY DEF StopDaemon, StartDaemon, Publish, CalmDown, history, vars
<1>2. TypeOK'
  <2>1. /\ pub' \in Nat /\ daemon' \in Configs \union {None} /\ started' \in Nat
        /\ calm' \in BOOLEAN /\ manual' \in BOOLEAN /\ lapse' \in BOOLEAN
    <3>1. CASE StopDaemon \/ StartDaemon
      BY <3>1 DEF StopDaemon, StartDaemon, history, IInv, TypeOK
    <3>2. CASE Publish
      BY <3>2 DEF Publish, history, IInv, TypeOK
    <3>3. CASE CalmDown \/ UNCHANGED vars
      BY <3>3 DEF CalmDown, vars, history, IInv, TypeOK
    <3>4. QED
      BY <3>1, <3>2, <3>3
  <2>2. QED
    BY <1>1, <2>1 DEF memory, files, IInv, TypeOK
<1>3. ASSUME NEW d \in Commands PROVE InHand(d)'
  BY <1>1 DEF memory, IInv, InHand
<1>4. ASSUME NEW d \in Manual PROVE Unchanged(d)'
  BY <1>1 DEF memory, files, IInv, Unchanged
<1>5. DaemonCurrent'
  BY <1>1 DEF StopDaemon, StartDaemon, Publish, CalmDown, vars, memory, files, history,
              IInv, DaemonCurrent, Active
<1>6. QED
  BY <1>2, <1>3, <1>4, <1>5 DEF IInv

LEMMA StepIInv == ASSUME IInv, [Next]_vars PROVE IInv'
<1>1. ASSUME NEW c \in Commands, Step(c) \/ Fail(c) PROVE IInv'
  <2>1. CASE ReadMetadata(c) \/ Load(c) \/ Cache(c) \/ Check(c)
    BY <2>1, PrivateStep
  <2>2. CASE Compare(c) \/ WriteSidecar(c) \/ Refresh(c) \/ Fail(c)
    BY <2>2, EndingSteps
  <2>3. CASE ReadConfig(c) \/ ReadCache(c)
    BY <2>3, ReadStep, EndingSteps
  <2>4. CASE WriteConfig(c) \/ TryRestart(c)
    BY <2>4, WriteStep, RestartStep
  <2>5. QED
    BY <1>1, <2>1, <2>2, <2>3, <2>4 DEF Step
<1>2. ASSUME NEW c \in Manual, NEW k \in May[c], Run(c, k) PROVE IInv'
  <2>1. c \in Commands /\ c # Service /\ k \in Kinds
    BY <1>2, Slots, DeploymentAssumption
  <2>2. Start(c, k) /\ started' \in Nat
    BY <1>2 DEF Run, IInv, TypeOK
  <2>3. QED
    BY <2>1, <2>2, StartStep
<1>3. CASE Timer
  <2>1. "build" \in Kinds /\ Start(Service, "build") /\ started' \in Nat
    BY <1>3 DEF Timer, Kinds, Loading, IInv, TypeOK
  <2>2. QED
    BY <2>1, Slots, StartStep
<1>4. CASE StopDaemon \/ StartDaemon \/ Publish \/ CalmDown \/ UNCHANGED vars
  BY <1>4, WorldStep
<1>5. QED
  BY <1>1, <1>2, <1>3, <1>4 DEF Next

LEMMA Inductive == Spec => []IInv
<1>1. IInv /\ [Next]_vars => IInv'
  BY StepIInv
<1>2. QED
  BY <1>1, InitIInv, PTL DEF Spec

-----------------------------------------------------------------------------
(* Type correctness: what is written to config.yaml and to the sidecar is    *)
(* always a configuration and a sidecar of one.                              *)
THEOREM Typing == Spec => []TypeOK
<1>1. IInv => TypeOK
  BY DEF IInv
<1>2. QED
  BY <1>1, Inductive, PTL

(* After a successful run of the service a daemon that is up runs            *)
(* config.yaml, whatever else was run, failed or was killed.                 *)
THEOREM Current == Spec => []DaemonCurrent
<1>1. IInv => DaemonCurrent
  BY DEF IInv
<1>2. QED
  BY <1>1, Inductive, PTL

(* The sidecar lists the names of config.yaml, and a build describes them    *)
(* by the metadata that it made them from.                                   *)
THEOREM Paired == Spec => SidecarMatches
<1>1. IInv => [\A c \in Manual : WriteSidecar(c) /\ clean[c] =>
                 /\ sidecar'.of = config'
                 /\ kind[c] = "buildBoth" => sidecar'.meta = config'.meta]_vars
  <2> SUFFICES ASSUME IInv, NEW c \in Manual, WriteSidecar(c), clean[c]
               PROVE  /\ sidecar'.of = config'
                      /\ kind[c] = "buildBoth" => sidecar'.meta = config'.meta
    OBVIOUS
  <2>1. config' = config /\ sidecar' = [of |-> made[c], meta |-> snap[c]]
    BY DEF WriteSidecar
  <2>2. config = made[c] /\ (kind[c] = "buildBoth" => snap[c] = made[c].meta)
    BY Slots DEF WriteSidecar, IInv, InHand, Unchanged
  <2>3. QED
    BY <2>1, <2>2
<1>2. QED
  BY <1>1, Inductive, PTL DEF SidecarMatches

-----------------------------------------------------------------------------
(* What is being built, against the source cache. *)
Caught(c) ==
    /\ at[c] = "cache" => cached <= src[c]
    /\ at[c] = "check" => src[c] = cached
    /\ at[c] = "config" => made[c].src = cached

OneLoad == \A c, d \in Commands : Loads(c) /\ Loads(d) => c = d

RInv ==
    /\ cached <= pub
    /\ \A c \in Commands : at[c] = "cache" => src[c] <= pub
    /\ ~lapse => /\ config # None => config.src <= cached
                 /\ OneLoad
                 /\ \A c \in Commands : Caught(c)

LEMMA InitRInv == Init => RInv
<1> SUFFICES ASSUME Init PROVE RInv
  OBVIOUS
<1>1. cached <= pub /\ (config # None /\ ~lapse => config.src <= cached)
  <2>1. cached \in 0..1 /\ pub = 1 /\ (config # None => config.src = 1)
    BY DEF Init
  <2>2. config # None /\ ~lapse => cached # 0
    BY DEF Init
  <2>3. QED
    BY <2>1, <2>2
<1>2. \A c \in Commands : at[c] = "idle"
  BY DEF Init
<1>3. QED
  BY <1>1, <1>2 DEF RInv, OneLoad, Loads, Active, Caught

(* A command that is about to cache, check or write is a load. *)
LEMMA Loader ==
  ASSUME IInv, NEW c \in Commands, at[c] \in {"metadata", "load", "cache", "check", "config"}
  PROVE  Loads(c)
BY DEF IInv, InHand, Loads, Active

(* Other commands are not concerned. *)
LEMMA Others ==
  ASSUME IInv, ~lapse, RInv, NEW c \in Commands, Loads(c), NEW d \in Commands, d # c
  PROVE  at[d] \notin {"cache", "check", "config"}
<1>1. ~Loads(d)
  BY DEF RInv, OneLoad
<1>2. QED
  BY <1>1, Loader

LEMMA LoadRInv ==
  ASSUME IInv, RInv, NEW c \in Commands, Load(c)
  PROVE  RInv'
<1>1. /\ at[c] = "load" /\ at' = [at EXCEPT ![c] = at'[c]] /\ src' = [src EXCEPT ![c] = src'[c]]
      /\ UNCHANGED <<pub, cached, config, kind, made, lapse>>
      /\ \/ src'[c] = pub /\ at'[c] = "cache"
         \/ src'[c] = cached /\ at'[c] = "check"
      /\ pub \in Nat /\ cached \in Nat
  BY DEF Load, Goto, files, history, IInv, TypeOK
<1>2. \A d \in Commands : at'[d] = "cache" => src'[d] <= pub
  BY <1>1 DEF IInv, TypeOK, RInv
<1>3. OneLoad => OneLoad'
  BY <1>1 DEF IInv, TypeOK, OneLoad, Loads, Active
<1>4. ASSUME ~lapse, NEW d \in Commands PROVE Caught(d)'
  <2>1. CASE d = c
    BY <1>1, <2>1 DEF IInv, TypeOK, RInv, Caught
  <2>2. CASE d # c
    BY <1>1, <1>4, <2>2 DEF IInv, TypeOK, RInv, Caught
  <2>3. QED
    BY <2>1, <2>2
<1>5. QED
  BY <1>1, <1>2, <1>3, <1>4 DEF RInv

LEMMA CacheRInv ==
  ASSUME IInv, RInv, NEW c \in Commands, Cache(c)
  PROVE  RInv'
<1>1. /\ at[c] = "cache" /\ at' = [at EXCEPT ![c] = "check"]
      /\ UNCHANGED <<pub, config, kind, src, made>>
      /\ \/ cached' = src[c] /\ UNCHANGED lapse
         \/ lapse' = TRUE /\ UNCHANGED cached
  BY DEF Cache, Goto
<1>2. cached' <= pub /\ \A d \in Commands : at'[d] = "cache" => src'[d] <= pub
  BY <1>1 DEF IInv, TypeOK, RInv
<1>3. ASSUME ~lapse'
      PROVE  /\ config # None => config.src <= cached'
             /\ OneLoad' /\ \A d \in Commands : Caught(d)'
  <2>1. ~lapse /\ cached' = src[c] /\ cached <= src[c]
    BY <1>1, <1>3 DEF RInv, Caught
  <2>2. config # None => config.src <= cached'
    <3>1. config # None => config.src \in Nat
      BY DEF IInv, TypeOK, Configs
    <3>2. QED
      BY <2>1, <3>1 DEF RInv, IInv, TypeOK
  <2>3. OneLoad'
    BY <1>1, <2>1 DEF RInv, OneLoad, Loads, Active, IInv, TypeOK
  <2>4. ASSUME NEW d \in Commands PROVE Caught(d)'
    <3>1. CASE d = c
      BY <1>1, <2>1, <3>1 DEF IInv, TypeOK, Caught
    <3>2. CASE d # c
      <4>1. at[d] \notin {"cache", "check", "config"}
        BY <1>1, <2>1, <3>2, Loader, Others
      <4>2. QED
        BY <1>1, <3>2, <4>1 DEF IInv, TypeOK, Caught
    <3>3. QED
      BY <3>1, <3>2
  <2>5. QED
    BY <2>2, <2>3, <2>4
<1>4. QED
  BY <1>1, <1>2, <1>3 DEF RInv

LEMMA CheckRInv ==
  ASSUME IInv, RInv, NEW c \in Commands, Check(c)
  PROVE  RInv'
<1>1. /\ at[c] = "check" /\ at' = [at EXCEPT ![c] = "config"]
      /\ UNCHANGED <<pub, cached, config, kind, src, lapse>>
      /\ made' = [made EXCEPT ![c] = [src |-> src[c], meta |-> snap[c]]]
  BY DEF Check, Goto, files, history
<1>2. \A d \in Commands : at'[d] = "cache" => src'[d] <= pub
  BY <1>1 DEF IInv, TypeOK, RInv
<1>3. OneLoad => OneLoad'
  BY <1>1 DEF IInv, TypeOK, OneLoad, Loads, Active
<1>4. ASSUME ~lapse, NEW d \in Commands PROVE Caught(d)'
  <2>1. CASE d = c
    <3>1. made'[c].src = src[c] /\ src[c] = cached
      BY <1>1, <1>4 DEF IInv, TypeOK, RInv, Caught
    <3>2. QED
      BY <1>1, <2>1, <3>1 DEF IInv, TypeOK, Caught
  <2>2. CASE d # c
    BY <1>1, <1>4, <2>2 DEF IInv, TypeOK, RInv, Caught
  <2>3. QED
    BY <2>1, <2>2
<1>5. QED
  BY <1>1, <1>2, <1>3, <1>4 DEF RInv

LEMMA WriteRInv ==
  ASSUME IInv, RInv, NEW c \in Commands, WriteConfig(c)
  PROVE  /\ RInv'
         /\ ~lapse /\ config # None => config'.src >= config.src
<1>1. /\ at[c] = "config" /\ at' = [at EXCEPT ![c] = at'[c]]
      /\ at'[c] \in {"sidecar", "restart", "idle"}
      /\ config' = made[c]
      /\ UNCHANGED <<pub, cached, lapse>>
      /\ \A d \in Commands : d # c => kind'[d] = kind[d] /\ src'[d] = src[d] /\ made'[d] = made[d]
  BY DEF WriteConfig, Replaces, End, Forget, Goto, IInv, TypeOK
<1>2. \A d \in Commands : at'[d] = "cache" => src'[d] <= pub
  BY <1>1 DEF IInv, TypeOK, RInv
<1>3. ASSUME ~lapse
      PROVE  /\ config'.src = cached
             /\ config # None => config'.src >= config.src
             /\ OneLoad' /\ \A d \in Commands : Caught(d)'
  <2>1. config'.src = cached /\ Loads(c)
    BY <1>1, <1>3, Loader DEF RInv, Caught
  <2>2. config # None => config'.src >= config.src
    <3>1. config # None => config.src \in Nat
      BY DEF IInv, TypeOK, Configs
    <3>2. QED
      BY <1>3, <2>1, <3>1 DEF RInv, IInv, TypeOK
  <2>3. OneLoad'
    BY <1>1, <1>3, <2>1 DEF RInv, OneLoad, Loads, Active, IInv, TypeOK
  <2>4. \A d \in Commands : Caught(d)'
    BY <1>1, <1>3 DEF RInv, IInv, TypeOK, Caught
  <2>5. QED
    BY <2>1, <2>2, <2>3, <2>4
<1>4. cached <= cached /\ cached <= pub
  BY DEF IInv, TypeOK, RInv
<1>5. QED
  BY <1>1, <1>2, <1>3, <1>4 DEF RInv

(* All other steps leave the sources and the files alone.                    *)
LEMMA RestRInv ==
  ASSUME IInv, RInv, UNCHANGED <<cached, config>>,
         pub' \in Nat, pub' >= pub, lapse' \in BOOLEAN, lapse => lapse',
         \A c \in Commands : at'[c] \in {"cache", "check", "config"} =>
             at'[c] = at[c] /\ src'[c] = src[c] /\ made'[c] = made[c],
         ~lapse' /\ OneLoad => OneLoad'
  PROVE  RInv'
<1>1. cached' <= pub' /\ \A c \in Commands : at'[c] = "cache" => src'[c] <= pub'
  BY DEF IInv, TypeOK, RInv
<1>2. ASSUME ~lapse' PROVE \A c \in Commands : Caught(c)'
  BY <1>2 DEF IInv, TypeOK, RInv, Caught
<1>3. QED
  BY <1>1, <1>2 DEF RInv

LEMMA StepRInv ==
  ASSUME IInv, RInv, [Next]_vars
  PROVE  /\ RInv'
         /\ config # None /\ ~lapse => config'.src >= config.src
<1>1. pub \in Nat /\ lapse \in BOOLEAN /\ (config # None => config.src \in Nat)
  BY DEF IInv, TypeOK, Configs
<1>2. ASSUME NEW c \in Commands, Load(c) \/ Cache(c) \/ Check(c) \/ WriteConfig(c)
      PROVE  /\ RInv'
             /\ config # None /\ ~lapse => config'.src >= config.src
  <2>1. CASE WriteConfig(c)
    BY <2>1, WriteRInv
  <2>2. CASE Load(c) \/ Cache(c) \/ Check(c)
    <3>1. config' = config
      BY <2>2 DEF Load, Cache, Check, files
    <3>2. config # None => config'.src >= config.src
      BY <1>1, <3>1
    <3>3. QED
      BY <2>2, <3>2, LoadRInv, CacheRInv, CheckRInv
  <2>3. QED
    BY <1>2, <2>1, <2>2
<1>3. ASSUME NEW c \in Commands,
             \/ ReadMetadata(c) \/ Compare(c) \/ WriteSidecar(c) \/ TryRestart(c)
             \/ ReadConfig(c) \/ ReadCache(c) \/ Refresh(c) \/ Fail(c)
      PROVE  /\ RInv'
             /\ config # None /\ ~lapse => config'.src >= config.src
  <2>1. UNCHANGED <<cached, config, pub, lapse>>
    BY <1>3 DEF ReadMetadata, Compare, WriteSidecar, TryRestart, ReadConfig, ReadCache,
                Refresh, Fail, files, history
  <2>2. /\ at[c] # "idle"
        /\ at' = [at EXCEPT ![c] = at'[c]]
        /\ at'[c] \in {"load", "idle", "readCache", "sidecar", "refresh"}
        /\ \A d \in Commands : d # c => kind'[d] = kind[d] /\ src'[d] = src[d] /\ made'[d] = made[d]
        /\ at'[c] # "idle" => kind'[c] = kind[c]
    BY <1>3 DEF ReadMetadata, Compare, WriteSidecar, TryRestart, ReadConfig, ReadCache,
                Refresh, Fail, End, Forget, Goto, Active, IInv, TypeOK
  <2>3. OneLoad => OneLoad'
    BY <2>2 DEF OneLoad, Loads, Active, IInv, TypeOK
  <2>4. \A d \in Commands : at'[d] \in {"cache", "check", "config"} =>
             at'[d] = at[d] /\ src'[d] = src[d] /\ made'[d] = made[d]
    BY <2>2 DEF IInv, TypeOK
  <2>5. RInv'
    BY <1>1, <2>1, <2>3, <2>4, RestRInv
  <2>6. QED
    BY <1>1, <2>1, <2>5
<1>4. ASSUME NEW c \in Commands, NEW k \in Kinds, Start(c, k)
      PROVE  /\ RInv'
             /\ config # None /\ ~lapse => config'.src >= config.src
  <2>1. UNCHANGED <<cached, config, pub, src, made>>
    BY <1>4 DEF Start, files
  <2>2. /\ at' = [at EXCEPT ![c] = at'[c]] /\ at'[c] \in {"metadata", "readConfig"}
        /\ kind' = [kind EXCEPT ![c] = k]
        /\ lapse' \in BOOLEAN /\ (lapse => lapse')
        /\ ~lapse' => k \notin Loading \/ \A d \in Commands : ~Loads(d)
    BY <1>4 DEF Start, Goto, IInv, TypeOK
  <2>3. ~lapse' /\ OneLoad => OneLoad'
    BY <2>2 DEF OneLoad, Loads, Active, IInv, TypeOK
  <2>4. \A d \in Commands : at'[d] \in {"cache", "check", "config"} =>
             at'[d] = at[d] /\ src'[d] = src[d] /\ made'[d] = made[d]
    BY <2>1, <2>2 DEF IInv, TypeOK
  <2>5. RInv'
    BY <1>1, <2>1, <2>2, <2>3, <2>4, RestRInv
  <2>6. QED
    BY <1>1, <2>1, <2>5
<1>5. CASE StopDaemon \/ StartDaemon \/ Publish \/ CalmDown \/ UNCHANGED vars
  <2>1. UNCHANGED <<cached, config, kind, at, src, made, lapse>>
    BY <1>5 DEF StopDaemon, StartDaemon, Publish, CalmDown, vars, files, memory, history
  <2>2. pub' \in Nat /\ pub' >= pub
    BY <1>1, <1>5 DEF StopDaemon, StartDaemon, Publish, CalmDown, vars
  <2>3. OneLoad => OneLoad'
    BY <2>1 DEF OneLoad, Loads, Active
  <2>4. RInv'
    BY <1>1, <2>1, <2>2, <2>3, RestRInv
  <2>5. QED
    BY <1>1, <2>1, <2>4
<1>6. "build" \in Kinds /\ Service \in Commands /\ Manual \subseteq Commands
      /\ \A c \in Manual : May[c] \subseteq Kinds
  BY Slots, DeploymentAssumption DEF Kinds, Loading
<1>7. QED
  BY <1>2, <1>3, <1>4, <1>5, <1>6 DEF Next, Step, Run, Timer

(* Falling back to the source cache never takes config.yaml back to older    *)
(* sources, as long as responses could be cached and loads did not overlap.  *)
THEOREM Forward == Spec => NoRollback
<1>1. IInv /\ RInv /\ [Next]_vars => RInv'
  BY StepRInv
<1>2. IInv /\ RInv /\ [Next]_vars =>
        [config # None /\ ~lapse => config'.src >= config.src]_vars
  BY StepRInv
<1>3. QED
  BY <1>1, <1>2, InitRInv, Inductive, PTL DEF NoRollback, Spec
==============================================================================
