--------------------------- MODULE MetadataRefresh ---------------------------
(***************************************************************************)
(* mcb metadata refresh (cli.runMetadata, naming.Refresh): a run reads the *)
(* metadata cache, hands the server names of a configuration to its        *)
(* workers over an unbuffered channel, and writes back what they found.    *)
(* The workers share one map behind a mutex, which they release around     *)
(* every lookup; runs share the file, which is replaced atomically (see    *)
(* PrivateFile) and not locked.                                            *)
(*                                                                         *)
(* A step of a worker is one critical section, with what the worker does   *)
(* by itself before it.  An entry is what properties tell apart of one:    *)
(* the address it describes and the time of its lookup.                    *)
(***************************************************************************)
EXTENDS Integers, Sequences, FiniteSets

CONSTANTS
    Runs,      \* invocations of mcb metadata refresh, each made at most once
    Workers,   \* the goroutines of one run
    HostList,  \* naming.Hosts: the server names, in order
    Ips,       \* addresses, which are keys of the cache as well
    Private,   \* addresses that are not looked up
    Resolves,  \* Resolves[h]: the addresses the resolver may choose for h
    Literal,   \* the server names that are addresses
    MaxAge,    \* how long an entry is fresh
    Start, MaxNow,  \* bounds: the clock runs from Start to MaxNow
    None       \* no entry, no address, no host

Hosts == {HostList[i] : i \in DOMAIN HostList}
Keys  == Hosts \union Ips
Entries == [ip : Ips, stamp : Nat]

(* A server name that is a key of its own address has no other. *)
ASSUME RefreshAssumption ==
    /\ IsFiniteSet(Workers) /\ Workers # {}
    /\ HostList \in Seq(Hosts)
    /\ Private \subseteq Ips
    /\ Resolves \in [Hosts -> SUBSET Ips]
    /\ Literal \subseteq Hosts
    /\ \A h \in Hosts \cap Ips : Resolves[h] = {h}
    /\ MaxAge \in Nat /\ Start \in Nat /\ MaxNow \in Nat
    /\ None \notin Keys \union Entries

VARIABLES
    now,      \* the clock
    file,     \* the metadata cache file
    phase,    \* where each run is
    mem,      \* cache.Hosts of each run
    next,     \* the host to be sent next
    closed,   \* jobs is closed
    expired,  \* the five minutes of the run are over
    at,       \* at[r][w]: where a worker is
    host, ip, \* what it works on
    hand,     \* the entry it holds outside the mutex
    stats     \* RefreshStats

worker == <<at, host, ip, hand>>
vars == <<now, file, phase, mem, next, closed, expired, worker, stats>>

(* An entry without a country code, the zero Entry too, counts as none. *)
Fresh(e) == e # None /\ now - e.stamp < MaxAge

(* What an entry under a key may describe. *)
Describes(k, e) == e.ip \in IF k \in Ips THEN {k} ELSE Resolves[k]

Steps == {"wait", "check", "resolve", "known", "share", "lookup", "store", "exited"}
Busy == Steps \ {"wait", "exited"}
Stats == [updated : Nat, cached : Nat, failed : Nat, private : Nat]

TypeOK ==
    /\ now \in Nat
    /\ file \in [Keys -> Entries \union {None}]
    /\ phase \in [Runs -> {"idle", "refused", "refresh", "write", "done", "killed"}]
    /\ mem \in [Runs -> [Keys -> Entries \union {None}]]
    /\ next \in [Runs -> 1..(Len(HostList) + 1)]
    /\ closed \in [Runs -> BOOLEAN]
    /\ expired \in [Runs -> BOOLEAN]
    /\ at \in [Runs -> [Workers -> Steps]]
    /\ host \in [Runs -> [Workers -> Hosts \union {None}]]
    /\ ip \in [Runs -> [Workers -> Ips \union {None}]]
    /\ hand \in [Runs -> [Workers -> Entries \union {None}]]
    /\ stats \in [Runs -> Stats]

Init ==
    /\ now = Start
    /\ file \in [Keys -> {None} \union [ip : Ips, stamp : 0..Start]]
    /\ \A k \in Keys : file[k] # None => Describes(k, file[k])
    /\ phase = [r \in Runs |-> "idle"]
    /\ mem = [r \in Runs |-> [k \in Keys |-> None]]
    /\ next = [r \in Runs |-> 1]
    /\ closed = [r \in Runs |-> FALSE]
    /\ expired = [r \in Runs |-> FALSE]
    /\ at = [r \in Runs |-> [w \in Workers |-> "wait"]]
    /\ host = [r \in Runs |-> [w \in Workers |-> None]]
    /\ ip = [r \in Runs |-> [w \in Workers |-> None]]
    /\ hand = [r \in Runs |-> [w \in Workers |-> None]]
    /\ stats = [r \in Runs |-> [updated |-> 0, cached |-> 0, failed |-> 0, private |-> 0]]

-----------------------------------------------------------------------------
(* ReadCache, then Refresh starts its workers. *)
ReadCache(r) ==
    /\ phase[r] = "idle"
    /\ phase' = [phase EXCEPT ![r] = "refresh"]
    /\ mem' = [mem EXCEPT ![r] = file]
    /\ UNCHANGED <<now, file, next, closed, expired, worker, stats>>

(* The options are invalid, or the configuration or the cache is unreadable. *)
Refuse(r) ==
    /\ phase[r] = "idle"
    /\ phase' = [phase EXCEPT ![r] = "refused"]
    /\ UNCHANGED <<now, file, mem, next, closed, expired, worker, stats>>

(* jobs <- host meets host := <-jobs. *)
Hand(r, w) ==
    /\ phase[r] = "refresh"
    /\ ~closed[r] /\ next[r] <= Len(HostList)
    /\ at[r][w] = "wait"
    /\ next' = [next EXCEPT ![r] = @ + 1]
    /\ host' = [host EXCEPT ![r][w] = HostList[next[r]]]
    /\ at' = [at EXCEPT ![r][w] = "check"]
    /\ UNCHANGED <<now, file, phase, mem, closed, expired, ip, hand, stats>>

(* Mutation: close(jobs) on the way out of the select only. *)
CloseOnExpiry(r) ==
    /\ phase[r] = "refresh"
    /\ ~closed[r]
    /\ expired[r]
    /\ closed' = [closed EXCEPT ![r] = TRUE]
    /\ UNCHANGED <<now, file, phase, mem, next, expired, worker, stats>>

(* close(jobs): every host is sent, or the select took ctx.Done(). *)
CloseJobs(r) ==
    /\ phase[r] = "refresh"
    /\ ~closed[r]
    /\ next[r] > Len(HostList) \/ expired[r]
    /\ closed' = [closed EXCEPT ![r] = TRUE]
    /\ UNCHANGED <<now, file, phase, mem, next, expired, worker, stats>>

Running(r, w, step) == phase[r] = "refresh" /\ at[r][w] = step

(* A worker that is done with a host drops it and counts how it went. *)
Settle(r, w, outcome) ==
    /\ at' = [at EXCEPT ![r][w] = "wait"]
    /\ host' = [host EXCEPT ![r][w] = None]
    /\ ip' = [ip EXCEPT ![r][w] = None]
    /\ hand' = [hand EXCEPT ![r][w] = None]
    /\ stats' = [stats EXCEPT ![r][outcome] = @ + 1]

(* The entry of the host itself is fresh, or an address is needed. *)
CheckPrevious(r, w) ==
    /\ Running(r, w, "check")
    /\ \/ Fresh(mem[r][host[r][w]]) /\ Settle(r, w, "cached")
       \/ /\ ~Fresh(mem[r][host[r][w]])
          /\ at' = [at EXCEPT ![r][w] = "resolve"]
          /\ UNCHANGED <<host, ip, hand, stats>>
    /\ UNCHANGED <<now, file, phase, mem, next, closed, expired>>

(* Mutation: a private address is passed over without being counted. *)
ResolveUncounted(r, w) ==
    /\ Running(r, w, "resolve")
    /\ \/ Resolves[host[r][w]] \cap Private # {}
          /\ at' = [at EXCEPT ![r][w] = "wait"]
          /\ UNCHANGED ip
       \/ \E a \in Resolves[host[r][w]] \ Private :
             /\ ip' = [ip EXCEPT ![r][w] = a]
             /\ at' = [at EXCEPT ![r][w] = "known"]
    /\ UNCHANGED <<now, file, phase, mem, next, closed, expired, host, hand, stats>>

(* net.ParseIP or LookupIP; the resolver may fail, and private addresses are *)
(* passed over.                                                              *)
Resolve(r, w) ==
    /\ Running(r, w, "resolve")
    /\ \/ host[r][w] \notin Literal /\ Settle(r, w, "failed")
       \/ Resolves[host[r][w]] \cap Private # {} /\ Settle(r, w, "private")
       \/ \E a \in Resolves[host[r][w]] \ Private :
             /\ ip' = [ip EXCEPT ![r][w] = a]
             /\ at' = [at EXCEPT ![r][w] = "known"]
             /\ UNCHANGED <<host, hand, stats>>
    /\ UNCHANGED <<now, file, phase, mem, next, closed, expired>>

(* known := cache.Hosts[ip], and the decision after the unlock. *)
CheckKnown(r, w) ==
    /\ Running(r, w, "known")
    /\ LET known == mem[r][ip[r][w]] IN
         IF Fresh(known)
         THEN /\ hand' = [hand EXCEPT ![r][w] = known]
              /\ at' = [at EXCEPT ![r][w] = "share"]
         ELSE /\ at' = [at EXCEPT ![r][w] = "lookup"]
              /\ UNCHANGED hand
    /\ UNCHANGED <<now, file, phase, mem, next, closed, expired, host, ip, stats>>

ShareKnown(r, w) ==
    /\ Running(r, w, "share")
    /\ mem' = [mem EXCEPT ![r][host[r][w]] = hand[r][w]]
    /\ Settle(r, w, "cached")
    /\ UNCHANGED <<now, file, phase, next, closed, expired>>

(* Mutation: the address in the answer is not compared. *)
AnswerAny(r, w) ==
    /\ Running(r, w, "lookup")
    /\ ~expired[r]
    /\ \E a \in Ips : hand' = [hand EXCEPT ![r][w] = [ip |-> a, stamp |-> now]]
    /\ at' = [at EXCEPT ![r][w] = "store"]
    /\ UNCHANGED <<now, file, phase, mem, next, closed, expired, host, ip, stats>>

(* lookup: an answer for the address that was asked for, stamped on arrival. *)
Answer(r, w) ==
    /\ Running(r, w, "lookup")
    /\ ~expired[r]
    /\ hand' = [hand EXCEPT ![r][w] = [ip |-> ip[r][w], stamp |-> now]]
    /\ at' = [at EXCEPT ![r][w] = "store"]
    /\ UNCHANGED <<now, file, phase, mem, next, closed, expired, host, ip, stats>>

(* Mutations: the zero Entry is stored; the previous entry is dropped. *)
LookupFailsStored(r, w) ==
    /\ Running(r, w, "lookup")
    /\ mem' = [mem EXCEPT ![r][host[r][w]] = [ip |-> None, stamp |-> 0]]
    /\ Settle(r, w, "failed")
    /\ UNCHANGED <<now, file, phase, next, closed, expired>>

LookupFailsDropped(r, w) ==
    /\ Running(r, w, "lookup")
    /\ mem' = [mem EXCEPT ![r][host[r][w]] = None]
    /\ Settle(r, w, "failed")
    /\ UNCHANGED <<now, file, phase, next, closed, expired>>

(* lookup: no answer in time, or one that is not accepted. *)
LookupFails(r, w) ==
    /\ Running(r, w, "lookup")
    /\ Settle(r, w, "failed")
    /\ UNCHANGED <<now, file, phase, mem, next, closed, expired>>

StoreAnswer(r, w) ==
    /\ Running(r, w, "store")
    /\ mem' = [mem EXCEPT ![r][host[r][w]] = hand[r][w], ![r][ip[r][w]] = hand[r][w]]
    /\ Settle(r, w, "updated")
    /\ UNCHANGED <<now, file, phase, next, closed, expired>>

(* The range over jobs ends. *)
Exit(r, w) ==
    /\ Running(r, w, "wait")
    /\ closed[r]
    /\ at' = [at EXCEPT ![r][w] = "exited"]
    /\ UNCHANGED <<now, file, phase, mem, next, closed, expired, host, ip, hand, stats>>

(* wg.Wait returns. *)
Return(r) ==
    /\ phase[r] = "refresh"
    /\ \A w \in Workers : at[r][w] = "exited"
    /\ phase' = [phase EXCEPT ![r] = "write"]
    /\ UNCHANGED <<now, file, mem, next, closed, expired, worker, stats>>

(* WriteCache replaces the file as a whole, or fails. *)
WriteCache(r) ==
    /\ phase[r] = "write"
    /\ phase' = [phase EXCEPT ![r] = "done"]
    /\ file' \in {file, mem[r]}
    /\ UNCHANGED <<now, mem, next, closed, expired, worker, stats>>

Expire(r) ==
    /\ phase[r] = "refresh"
    /\ ~expired[r]
    /\ expired' = [expired EXCEPT ![r] = TRUE]
    /\ UNCHANGED <<now, file, phase, mem, next, closed, worker, stats>>

Kill(r) ==
    /\ phase[r] \in {"refresh", "write"}
    /\ phase' = [phase EXCEPT ![r] = "killed"]
    /\ UNCHANGED <<now, file, mem, next, closed, expired, worker, stats>>

Tick ==
    /\ now < MaxNow
    /\ now' = now + 1
    /\ UNCHANGED <<file, phase, mem, next, closed, expired, worker, stats>>

Work(r, w) == \/ Hand(r, w) \/ CheckPrevious(r, w) \/ Resolve(r, w)
              \/ CheckKnown(r, w) \/ ShareKnown(r, w) \/ Answer(r, w)
              \/ LookupFails(r, w) \/ StoreAnswer(r, w) \/ Exit(r, w)

Next ==
    \/ \E r \in Runs : \/ ReadCache(r) \/ Refuse(r) \/ CloseJobs(r) \/ Return(r)
                       \/ WriteCache(r) \/ Expire(r) \/ Kill(r)
                       \/ \E w \in Workers : Work(r, w)
    \/ Tick

(* Goroutines that can go on do, and no lookup outlasts its timeout. *)
Fairness ==
    \A r \in Runs : /\ WF_vars(CloseJobs(r)) /\ WF_vars(Return(r)) /\ WF_vars(WriteCache(r))
                    /\ \A w \in Workers : WF_vars(Work(r, w))

Spec == Init /\ [][Next]_vars
FairSpec == Spec /\ Fairness

-----------------------------------------------------------------------------
Counted(r) == stats[r].updated + stats[r].cached + stats[r].failed + stats[r].private
BusyWorkers(r) == {w \in Workers : at[r][w] \in Busy}

(* The summary that is printed covers every host that was sent, once, and    *)
(* every host of the configuration unless the five minutes ran out.          *)
Accounting ==
    \A r \in Runs : phase[r] \in {"write", "done"} =>
        /\ Counted(r) = next[r] - 1
        /\ ~expired[r] => Counted(r) = Len(HostList)

(* An entry describes an address that its key stands for, in memory and in   *)
(* the file, although workers write the entries of two keys each and copy    *)
(* entries that another worker wrote.                                        *)
Attribution ==
    /\ \A k \in Keys : file[k] # None => Describes(k, file[k])
    /\ \A r \in Runs, k \in Keys : mem[r][k] # None => Describes(k, mem[r][k])

(* "failed lookups retain previous metadata": what the file says of a server *)
(* is replaced by the result of a later lookup only.                         *)
MetadataRetained ==
    [][\A k \in Keys : file[k] # None =>
           file'[k] # None /\ file'[k].stamp >= file[k].stamp]_vars

(* A run that started ends, although neither the resolver nor the service    *)
(* ever answers.                                                             *)
RefreshEnds == \A r \in Runs : phase[r] = "refresh" ~> phase[r] \in {"done", "killed"}
==============================================================================
