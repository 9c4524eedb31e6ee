# A verification of mihomo-config-builder

`mcb` builds a configuration for the mihomo daemon out of a template, several
subscriptions and lists of nodes. It is run from a timer, by hand or from a
service unit, next to other runs of itself, on networks that fail, and its output
is what the daemon is restarted with. This directory holds TLA+ modules that model
the parts of it where order, concurrency, failure or a long chain of renamings
matter, TLC configurations that check them on small instances, and proofs, checked
by TLAPS, of what holds on all of them.

All paths below are relative to the repository.

## 1. Inventory

| component | source | state | operations | interacts with |
|---|---|---|---|---|
| Private file writer | `internal/util/atomic.go` | one path, its temporary files | `WritePrivateFile` | every file that mcb writes: `config.yaml`, the sidecar, cached sources, the metadata cache |
| Source loading and cache | `internal/source/cache.go`, the first 430 lines of `fetch.go` | a semaphore, one goroutine per subscription, the cache directory, a deadline | `LoadTemplate`, `LoadSubscriptions`, `loadOne`, `loadURLRemote`, `loadURLValidated` | servers, the private file writer, the parsers as validators |
| Node and URL parsers | the rest of `fetch.go` | none | pure functions | source loading |
| Node identities and references | `internal/naming/naming.go`, `internal/merge/merge.go`, `normalizeSubscriptionConfigProxyNames` in `fetch.go` | the configuration under construction, the private key `x-mcb-optimized` | source labels, `Identify`, `SubscriptionInto`, `Apply`, `Export` | build pipeline |
| Node labels | `naming.Apply` | counters, reserved names | sort, reserve, number | metadata cache |
| Metadata refresh | `internal/naming/refresh.go`, `runMetadata` in `cli.go` | an in-memory map under a mutex, a job channel, counters, the cache file | `ReadCache`, `Refresh`, `lookup`, `WriteCache` | resolver, IP service, private file writer |
| Build pipeline | `internal/build/build.go`, `runBuild` in `cli.go` | the configuration, two output files | the stages of `Run`, then two writes | everything above |
| Overrides, rule templates, policy directives | `override/`, `ruletemplate/`, `render/` | the configuration | list and map edits | build pipeline |
| Hooks, validation, profile, configuration files, logging, redaction | the remaining packages | none of their own | pure | build pipeline |
| Command line | `internal/cli/cli.go` | `config.yaml`, the metadata sidecar, the metadata cache | `build`, `diff`, `metadata export`, `metadata refresh`, `validate`, `version` | build pipeline, private file writer, other commands through the files |
| Service and timer | `nix/` | a oneshot unit, a timer, the daemon | start of `mcb build`, restart of the daemon | the command line |

What is hard in it, and what makes each part correct:

* **Writer.** Calls of several processes interleave on one path, any system call
  may fail, the process may be killed between any two, power may be lost. Correct:
  readers and power losses only ever find a complete file, success is durable, a
  call that returns takes its temporary file with it, a link is only replaced by a
  call that could not see it.
* **Source loading.** Goroutines share a semaphore, a deadline and a directory;
  retries, compatibility requests and the fallback to the cache interleave with the
  deadline. Correct: loading always ends, what it returns is complete and valid,
  the cache only gets better, an accepted response can be relied on, `--offline`
  is silent.
* **Identities and references.** Three renamings in a row, each by a map from old
  names to new ones, over files that use the same names for different nodes.
  Correct: no node is lost, no reference is bent, the optimization badge stays with
  its endpoint.
* **Labels.** Numbered labels can be spelled like other labels, groups or
  built-ins. Correct: labels are distinct, capture nothing, do not depend on the
  order of the sources, and the numbering ends.
* **Metadata refresh.** Workers release the mutex around every lookup, hosts share
  addresses, the time limit can strike at any step, two refreshes can overlap.
  Correct: entries describe the host they are filed under, failed lookups lose
  nothing, the printed counts add up, the refresh ends.
* **Overrides, templates, directives.** Several stages edit one list in which the
  first match counts. Correct: what a stage adds takes effect, once.
* **Build pipeline.** The order of its stages, `ignoreFailed`, a deadline computed
  from the profile.
* **Commands and service.** Four files are shared by commands that hold no lock: the
  unit, started by a timer, and whatever is run by hand. Any of them may fail or be
  killed between two files, sources change while they are loaded, outages make
  builds fall back to the cache. Correct: the daemon runs what was built, the
  sidecar describes the configuration it lies beside, an outage takes nothing
  back, and what went wrong is repaired by the next runs.

`PROJECT.json` lists every component with its status and every hazard at the line
where it bites.

## 2. Modules

| module | models | kind |
|---|---|---|
| `DurableRegister` | what `WritePrivateFile` promises | abstract specification |
| `PrivateFile` | `WritePrivateFile` system call by system call | component |
| `PrivateFileProofs` | its theorems, the refinement of `DurableRegister` included | proofs |
| `SourceFetch`, `SourceFetchProofs` | `LoadTemplate`, `LoadSubscriptions` and below, over several builds | component, proofs |
| `NodeLabels`, `NodeLabelsProofs` | the labelling of `naming.Apply` | component, proofs |
| `NodeIdentity`, `NodeIdentityProofs` | source labels, node links and nodes files, `Identify`, merge, `Apply`, `Export` along `build.Run` | composition, proofs |
| `RuleOverlay`, `RuleOverlayProofs` | overrides, rule templates, directives and validation along `build.Run` | composition, proofs |
| `MetadataRefresh`, `MetadataRefreshProofs` | `mcb metadata refresh` | component, proofs |
| `Deployment`, `DeploymentProofs` | the commands of `mcb`, the unit, the timer and the daemon on one host | composition, proofs |
| `FoldLemmas` | induction over naturals, folds, the elements of a sequence | lemmas |
| `MC*` | the constants of the runs | instances |

The modules meet at their abstractions. `SourceFetch`, `MetadataRefresh` and
`Deployment` replace a file in one step that succeeds as a whole or leaves the old
file: that is what `PrivateFile` is shown to do. `Deployment` takes loading and
refreshing as the steps that `SourceFetch` and `MetadataRefresh` show them to be:
they end, and the cache is only replaced by what was accepted. `NodeIdentity` gives nodes distinct final labels:
that is what `NodeLabels` shows. Definitions whose comment begins with "Mutation"
(and the section of that name in `PrivateFile`) are deliberate mistakes that no
specification uses; substituted for the definition they sit before, each of them
breaks a property, which shows that the property depends on that line of code.

### PrivateFile

`pc[c]` is where the call `c` stands between two system calls; `entry` and `data`
are the directory and the file contents as processes see them, `diskEntry` and
`diskData` what is on disk. A file is named by the call that created it.

| action | code (`atomic.go`) |
|---|---|
| `Lstat` | 12-14: a link is refused; if `os.Lstat` itself fails, the call goes on without knowing |
| `CreateTemp` | 15-18 |
| `Write` | 21-24, in pieces, may fail half-way |
| `SyncClose` | 25-31 |
| `Rename` | 32-34 |
| `SyncDir` | 35-40: a failure is reported although the path is replaced |
| `RemoveTemp` | the deferred removal of 20, whose error is ignored, and the return; a failed call that could not remove its file is `littered` |
| `Kill`, `FlushData`, `FlushDir`, `PowerLoss` | environment: a killed process, write-back at any time, loss of everything not on disk |
| `PlaceLink` | environment: another program puts a symbolic link at the path, at any time |

At the start the path holds `Old` (a complete file, or nothing) or a link. `stamp` and
`blind` are history: the order in which the path was replaced, and the calls between
their check for a link and their rename that could not see the link which is there,
because `os.Lstat` failed or was over. `LinkKept` says that no other call replaces a
link. The register promises nothing about links: the check fails open and is not atomic
with the rename, so anything may displace a value there, whole.

Random temporary names are not drawn twice. That is the one probabilistic
assumption: a repetition within the microseconds between a rename and the deferred
removal would let one call remove the temporary file of another.

### SourceFetch

One behaviour is any number of builds over one cache directory, each offline or not, each with a deadline that may pass at any
moment, each possibly killed. A build is first in `LoadTemplate` (`phase`
`"template"`), by itself and without the semaphore, ends there if that fails
(`TemplateFails`), and goes on to `LoadSubscriptions` otherwise. A source is the
template or a subscription; `pc[s]` is where source `s` is, for a subscription its
goroutine: queued at the semaphore, in `loadOne`, waiting for one of the two kinds of
request, validating, storing, reading the cache (where a file may be missing, unreadable as in
`cache.go:54`, or hold a body that the validator no longer accepts). `Url(s)` is the URL it works on; a
nodes file has several, and fails as a whole on the first line that fails.
Parsing is abstracted to `Accepts[k]`, the set of bodies that the validator of a
kind of source accepts: what `DecodeYAMLBytes` (templates),
`normalizeSubscriptionPayload` (subscriptions) and
`parseSubscriptionPayloadProxies` (nodes files) make of a body is all that the
control flow depends on. `trail` and `held` are history.

### NodeLabels

`base`, `key` and `blocked` are the input: the place of every node, its identity
and the names of groups and built-ins. `TryNumber` is one round of the loop of
`naming.go:263-270`; `Turn` is the order after the sort. Labels are sequences of
words so that a place can be spelled like a numbered label of another one.

### NodeIdentity

A profile is drawn at the start, and each of its files when it is loaded, out of
all files of a small shape. A file has nodes with an endpoint, a name and a
dialer-proxy, and references to them from groups or rules. `LoadTemplate`,
`MergeSource`, `SkipSource` (`fetch.ignoreFailed`) and `ApplyNames` follow
`build.go:55-113`. A source is a configuration, the node links of a URL, or a nodes
file (`Loaded`); the latter two become a configuration whose group `PROXY` lists
every node by name (`Listing`), after the nodes of each line have got its suffix
(`Listed`) and all names of the file have been numbered apart (`Unique`). The
references of that group mean the nodes it was built from, whatever they are called.
Names are sequences of parts, texts and numbers, so that a source can call a node what
the numbering would call another one; different sequences stand for different names,
and a name has the optimization label if one of its texts has it. Keys are the node without its name, exactly as `naming.Key`
hashes it: the dialer-proxy is part of it as it is spelled at that moment. What a
file meant by a reference is computed from the file alone, by following endpoints
and never names, and compared with where the reference leads later.

### RuleOverlay

`cfg` is reduced to the rules and the DNS section, with the shapes that a value may
have: null, a scalar, a list, a mapping. Each step takes the next subscription,
override file, patch or template of a list that is chosen on the way; `given` keeps
what the overrides left. `PrependRules` and `AppendFakeIPFilter` stand for the
functions of those names in both `ruletemplate` and `render`, which do the same up
to white space in filter entries. Node labels and hooks come between the directive
and validation in the code: labels do not change the order of rules, hooks may
change everything and are left out. A JSON patch is an operation on one rule, with
the semantics of the library that it fails where there is no such rule.

### MetadataRefresh

A step of a worker is one critical section of `refresh.go`, with what the worker
does by itself before it: reading the previous entry, resolving, reading the known
entry of the address, looking up, storing. What it holds between two critical
sections is in `hand`. `Hand` is the rendezvous on the unbuffered channel,
`CloseJobs` the end of the sending loop, `Return` the end of `wg.Wait`. `now` is the
clock in units of the freshness interval's granularity.

### Deployment

`at[c]` is where command `c` is; the commands are the service and a slot for each
command that may be run by hand at the same time. A file holds what matters about
its content: the source cache the version of the oldest of its responses, the
metadata cache the number of its refreshes, `config.yaml` the versions of both that
it was built from, the sidecar the configuration whose names it lists and the
metadata it tells of them.

| action | code |
|---|---|
| `Timer`, `TryRestart` | the unit, its `ExecStartPost` and the timer (`nix/module.nix:41-59`) |
| `Run` | a command is run by hand (`cli.go:23-46`) |
| `ReadMetadata` | `build.go:45-53`: an unreadable cache is taken as empty |
| `Load`, `Cache` | `build.go:55-80` and `cache.go:36-50`: from the servers, or from the cache |
| `Check`, `Compare` | the rest of `build.Run`; `mcb diff` stops there (`cli.go:143-185`) |
| `WriteConfig`, `WriteSidecar` | `cli.go:101-112`, and the export of `cli.go:223-229` |
| `ReadConfig`, `ReadCache`, `Refresh` | `mcb metadata export` and `refresh` (`cli.go:215-239`) |
| `Fail` | every error return, and a kill, before a step has changed anything |
| `StopDaemon`, `StartDaemon`, `Publish`, `CalmDown` | environment |

`manual`, `clean` and `lapse` are history and say when a property makes no promise:
a file replaced by hand since the daemon started, a `config.yaml` that another
command replaced in the meantime, a response that was not cached or loads that
overlapped. `calm` is the point from which servers answer and nothing fails any
more; only `Converges` speaks of it.

## 3. Runs

| run | instance | what it shows |
|---|---|---|
| `PrivateFile` | 3 calls, 3 names, symmetric; links placed and syscalls failing at any time | all writer properties and the refinement |
| `SourceFetch` | a template `<<u>>`, a subscription `<<u>>`, a nodes file `<<u, u>>`, a local file; 2 at a time, 1 retry, every initial cache | all loader properties, liveness included |
| `NodeLabels` | 4 nodes, 3 places, 3 keys, every subset of 3 colliding group names | all labelling properties, termination included |
| `NodeIdentity` | 5 families of profiles: three files that share node names; two files with dialer chains; a file with a source label and group references; nodes files of two lines and three nodes with links; links with a source label and a nodes file. Otherwise at most 2 nodes and 1 reference a file; 2 endpoints | nodes, references and badges survive |
| `MetadataRefresh` | 1 run, 2 workers, 3 hosts of which two share an address and one may be private; every initial cache; two points in time | all refresh properties, liveness included |
| `NodeIdentitySameRelay` | two files with dialer chains that use the same names | violates `NodesSurvive` |
| `NodeIdentityFastRelay` | one file with a chain and the optimization label | violates `BadgeFollows` |
| `NodeIdentityTagRefs` | a file with a source label and a reference from a rule | violates `ReferencesFollow` |
| `RuleOverlay` | 3 domains, 3 template files, 4 subscriptions, 5 merge patches (nulls and wrong shapes among them), 4 other patches, 2 rule templates, 4 directives; up to 2 of each list | what templates and directives add takes effect, once |
| `RuleOverlayExample` | the profile `examples/steam-direct` | violates `DirectiveWins` |
| `Deployment` | the service, a slot for builds and diffs, a slot for exports and refreshes; 2 commands by hand, 2 versions of the sources, every initial state of a host | all deployment properties, liveness included |
| `MetadataRefreshTwo` | 2 overlapping runs, 1 host | violates `MetadataRetained` |

### Why the bounds are enough

* Three calls are the fewest with one that has returned, one that is between rename
  and directory sync, and one that is still writing; every property of the writer
  relates at most two calls and the path. The proofs have no bound.
* `SourceFetch` has more subscriptions than slots (waiting happens), two that work
  on one URL at the same time, one that loads it twice, a template that has loaded
  it before, and one that fails in its file. Another URL would only be another cache
  file. One retry makes the loop go round and end. Two bodies are the two verdicts
  of a validator; in this run the kinds of source agree on them, see section 6. The
  proofs have no bound.
* In `NodeLabels` two nodes of one place, a single node whose place reads like a
  number of it, and a group that takes the next number already collide three
  times; the fourth node makes copies and peers occur together. Numbers need no
  bound: the loop ends.
* In `NodeIdentity` a lost node, a bent reference or a lost badge takes two nodes
  that share something; two nodes in each of two or three files give every way to
  share endpoint, name, dialer or label. Three nodes of a nodes file are the fewest in
  which a number meets a name that looks like it, in either order.
* Two items of each list in `RuleOverlay` make stages meet the results of each other:
  a merge patch after another, a template listed twice, a template and a directive
  that share rules. A rule decides for one domain or for all, so three domains show
  every way in which one rule hides another.
* Three hosts and two workers in `MetadataRefresh` make a host wait for a worker,
  two workers look up one address, and one worker read what the other has just
  written; two instants make fresh entries stale in the middle of a run.

* In `Deployment` a command by hand can fall between any two steps of the service, and
  an export or refresh between two of a build by hand; two versions are an old and
  a new one, and two commands by hand include the two that overlap. What never ends
  is the timer: the service runs any number of times.

### Fairness

`SourceFetch`: goroutines that can go on are scheduled, a request returns once the
deadline has cut it off (`http.NewRequestWithContext` with the context of the build
in `fetch.go:217`), the timer of `context.WithTimeout` (`cli.go:87`) fires. No
server is assumed ever to answer. `MetadataRefresh`: workers and the sender that
can go on do, and a lookup that gets no answer fails (`context.WithTimeout` of
`refresh.go:74`); neither the resolver nor the service is assumed to answer, nor
is the five-minute limit needed. `NodeLabels`: the loop is executed. Kills are never
required and never excluded. `Deployment`: a command that runs goes on (that loading
and refreshing end is what the other runs show), the timer elapses again
(`OnCalendar`), and the trouble ends at some time. The last is an assumption about
the surroundings: with servers that never answer nothing new can be built.

Deadlock is checked where the system goes on for ever (`PrivateFile`, where power
losses stay possible, `SourceFetch`, where another build can always start, and
`Deployment`, where the timer goes on). A
labelling, a build and a refresh end, so the other runs switch the check off;
`Terminates` and `RefreshEnds` take its place.

## 4. Proofs

TLAPS proves the following for every value of the constants that the named
assumptions allow.

| module | theorem | property |
|---|---|---|
| `PrivateFileProofs` | `Typing`, `NeverTorn`, `NeverTornOnDisk`, `Durability`, `Tidy`, `FailedTidy`, `LinkSafety` | `TypeOK`, `DestComplete`, `DiskComplete`, `AckedDurable`, `NoLitter`, `Cleanup`, `LinkKept` |
| | `Refinement` | `PrivateFile` implements `DurableRegister` |
| `SourceFetchProofs` | `Typing`, `Semaphore`, `Complete`, `CacheSafety` | `TypeOK`, `SlotsExact` (and at most `Concurrency`), `ResultsComplete`, `CacheAccepted` |
| | `Offline`, `Protocol` | `OfflineSilent`, `RequestProtocol` |
| | `LastGood` | `LastGoodServes` (a failed load found the file unreadable), if each URL is used by one kind of source |
| `NodeLabelsProofs` | `Typing`, `Distinctness`, `NoCapture` | `TypeOK`, `Distinct`, `OffLimits` |
| | `Stability` | `Stable` |
| `RuleOverlayProofs` | `Typing`, `AddedOnce`, `Exemption` | `TypeOK`, `NeverTwice`, `FakeIpExempt` |
| | `Decides`, `Idempotence` | `DirectDecides`, `FixedPoint` |
| `NodeIdentityProofs` | `Typing` | `TypeOK` |
| | `Survival` | `NodesSurvive`, if `ChainsKept` and `KeysTellApart` |
| | `Following` | `ReferencesFollow`, if `ChainsKept`, `KeysTellApart` and `RefsKept` |
| | `Badge` | `BadgeFollows`, if `LabelsKept` |
| `MetadataRefreshProofs` | `Typing`, `Attributed`, `Accounted` | `TypeOK`, `Attribution`, `Accounting`, for any number of runs |
| | `Retained` | `MetadataRetained`, for a refresh that is alone on its file |
| `DeploymentProofs` | `Typing`, `Current`, `Paired`, `Forward` | `TypeOK`, `DaemonCurrent`, `SidecarMatches`, `NoRollback`, for any number of commands |

How the arguments go:

* **Writer.** `DestComplete` is not inductive: nothing in it says that the file about
  to be renamed is complete. The invariant adds that a call that is past its sync has
  written and synced everything, that a temporary name that is in use leads to the
  file of the call that drew it and to no other, that this name is free again once the
  file has moved to the path, and that the file which is at the path on disk is complete. Durability needs the
  order of renames, which `stamp` records: a directory sync by any later call
  also settles the earlier ones. The refinement maps `stamp` against the disk to
  the sets of volatile and settled writes. For `LinkKept` the invariant adds that while a
  link is at the path, every call past its check is blind; `Cleanup` rests on the
  ownership of names: the removal hits the name that the call drew, or nothing is left
  to remove.
* **Loader.** The invariant ties each location of a goroutine to what it has in hand:
  the bodies loaded so far are a prefix of its URLs, all accepted, and a body on its
  way to the cache was accepted. The semaphore is proved by counting: a step of
  `Acquire` adds exactly one holder and one of `Finish` removes one
  (`FS_AddElement`, `FS_RemoveElement`). That the template never holds a token, and
  that nothing is left of a build when the next one starts, is the invariant
  `Stages`. The request protocol is one about sequences: a request that follows the
  last one of a trail in the right order keeps the whole trail in order and adds at
  most one round (`OneMoreRequest`). `LastGood` adds that a URL once stored for
  a kind still holds a body that the kind accepts.
* **Labels.** Distinctness needs that every label given so far is reserved and that
  places of a single node are reserved before anything is numbered. Stability is about
  ranks: `OrderInv` adds that nodes are labelled in their turn, that each number given
  in a place is free, larger than those given there before, and that every smaller free
  one has been used. Then the number of a node is the free number whose rank is that of
  the node among its peers (`NumbersByRank`), and the numbers of the copies of one
  endpoint are a block that counts only the peers before them (`PeersByRank`). That
  a free number of every rank exists is an induction (`KthIsInverse`).
* **Overlay.** Once the overrides are done, the list of rules is always a prefix of
  direct rules, each once, that the overrides did not leave, and then exactly what the
  overrides left; it holds all rules, and in fake-ip mode the filter all domains, that
  templates and directive ask for (`Extended`). Each of the properties follows
  from that without the path that led to it: what is in the prefix occurs once and
  nowhere else, what is before a direct rule for a domain is direct, and a step that
  finds everything there changes nothing (`LaidOver`). What comes before the overlay
  only has to hand on values of the right shapes (`WellFormed`).
* **Identities.** The properties compare what a name leads to with endpoints, and say
  nothing of how it came to lead there, so none of them is inductive. The invariant is
  one relation between a configuration and a set of files, `Represents`: each node of
  the configuration stems from a node of a file, each node of a file is found under its
  identity, each reference has the identity of what its file means, and the labels are
  the keys of the marked nodes. A file that was loaded and identified represents itself
  (`IdentifiedRepresents`, by a lemma for each form of source), and two configurations
  joined represent the files of both (`JoinedRepresents`); this is all that a step has
  to show, whatever was skipped before. `Applied` names the nodes apart and keeps where
  every identity led (`LabelLeads`), although of two nodes with one identity the first
  counts before it and the last after it: `EndpointOfName` says that they have one
  endpoint. The conditions of the theorems are about the files alone: nodes that are
  listed by line or renamed by a source label have no dialer-proxy (`ChainsKept`), nodes
  of one key mean one chain of endpoints (`KeysTellApart`), only groups refer to nodes
  that a source label renames, and the links of one URL have names of their own
  (`RefsKept`), a node with the optimization label has no dialer-proxy and no source
  label (`LabelsKept`). Sections 5 and 6 say what the code does without them.
* **Refresh.** Attribution is carried from hand to hand: the address a worker resolved
  is one of its host, and the entry in its hand describes that address. Accounting
  is a sum: what is counted plus the workers that are busy is what was sent.
  Retention compares every entry in memory, in hand and in the file with the file
  as it was read, by the times of their lookups.
* **Deployment.** `InHand` says what each location of a command means for what it has
  in memory; a command that is about to write the sidecar has the configuration whose
  names it lists (`Unchanged`: and it is still the one on disk, unless `clean` says
  otherwise). For `NoRollback` every version a command holds lies between the
  configuration and the source cache, as long as only one command loads at a time.

Induction. The provers cannot instantiate a theorem of the library that takes a
predicate. `FoldLemmas` does induction by sets instead: a set of naturals that holds 0
and all successors is `Nat` (`NatSetInduction`, from `WFMin`, whose parameters are
sets). With it the loops of the code, which are folds over sequences, become provable:
`FoldExists` shows that the function by which `FoldLeft` is defined exists, the
`Unfold` lemmas of `RuleOverlayProofs` and `NodeIdentityProofs` give the value of each fold after each of its
elements, and `FoldInvariant` carries a property from one to the next.

Assumptions on the constants, each checked by TLC on the instances: `LabelAssumption`
(finite sets of names, places that are sequences of words), `OverlayAssumption` (the
configurations that are merged have lists of rules and of domains where those are
expected or a value of another shape; the rules of a built-in template send to `DIRECT`
and are listed once, and a template
that exempts domains exempts those of all its rules, as in `template.go:30-55`), `IdentityAssumption` (the first source
is the template, a configuration without a source label; a file holds a sequence of
nodes and a set of references, or lines of nodes; the texts that the code adds itself,
`NODE` and the hyphen before a number, do not contain the optimization label), and those
of the other modules, which bound nothing but what `profile.go` checks.

Model-checked only: all liveness (`LoadReturns`, `Terminates`, `RefreshEnds`,
`Converges`), since TLAPS does not prove liveness under fairness. Every invariant of a
passing run is the subject of a theorem; `Survival`, `Following` and `Badge` have
conditions there, while the run `NodeIdentity` checks the properties as they stand, on
files that satisfy the conditions.

## 5. Where the code and its documentation part

Each of these is a run that TLC finds violated; the traces are short.

1. **A node is lost** (`NodeIdentitySameRelay`). Two subscriptions each call one of
   their nodes "b" and chain another node through it. If the chained nodes agree in
   everything else, `Key` gives them one identity although their dialers are
   different endpoints, and the merge drops the second.
2. **A badge is lost** (`NodeIdentityFastRelay`). The optimization label is filed
   under a key that contains the dialer's name; renaming the dialer changes the key.
3. **References are left behind** (`NodeIdentityTagRefs`). A source label renames
   the nodes of a subscription, but of the references only the members of groups.
4. **Updates are lost** (`MetadataRefreshTwo`). Two refreshes at a time on one cache
   file: the later write takes back the entries of the earlier one.
5. **A directive without effect** (`RuleOverlayExample`). A rule that is in the list
   already is not prepended, wherever it is. In the repository's own example the
   rule stands behind `MATCH`.

## 6. What is not modelled

* What the parsers compute (see `SourceFetch` above), YAML and JSON conversion,
  redaction, logging, the wording of messages: pure, and well tested by example.
* One URL in two kinds of source. `LastGoodServes` fails there: the cache is keyed
  by URL while validators differ (a body that lists only proxy providers is a valid
  subscription and not a valid nodes file). `LastGood` states the assumption.
* A source label together with the optimization label: the label is removed with
  the name before it is captured, so `BadgeFollows` would fail as in finding 2. A source
  label that contains the optimization label marks every node of its source.
* The template `cn-direct` adds its rules and exempts no domain from fake IPs
  (`template.go:30-36`); `FakeIpExempt` speaks of the templates that call
  `appendFakeIPFilter`, and of the directive.
* References from the template to nodes of a subscription: they are not rewritten,
  and the documentation says that names must account for naming.
* A dialer-proxy inside a nodes file: a suffix or number renames its node and not the
  reference, as in finding 3. Node links of one URL that share a name: the generated
  group lists the name twice, and after `Identify` twice the first node. The
  profiles of the passing run have neither.
* `fetch.ignoreFailed` in `Deployment`, where the versions of a configuration are those
  of all its sources; power losses there, which are `PrivateFile`'s; the home-manager
  unit, which has neither timer nor restart; several profiles on one host.
* The deadline formula of `cli.go:83` and the fixed 45 seconds of `mcb diff`: the
  loader is checked for a deadline that passes at any moment.
* A clock that is set back, hash collisions, other programs that write to the same
  paths (but for a link put where `WritePrivateFile` writes), the removal of the cache directory while a build runs.
* The components that `PROJECT.json` lists as not modelled.

## 7. Plan

Done, in the order of importance: the writer with its abstract register; the loader
and cache, the template included; the labelling; identities and references, from
node links and nodes files to the exported names; the metadata refresh; the rules of
a configuration; the commands, the unit and the daemon together; proofs of the
safety of all of them. What would come next:

1. References from the template and from overrides to labelled nodes, which joins
   `RuleOverlay` with `NodeIdentity`.
2. The deadline formula of `cli.go:83` against the worst case of the loader, with
   integers of their width.
