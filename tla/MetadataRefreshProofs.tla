------------------------ MODULE MetadataRefreshProofs ------------------------
(***************************************************************************)
(* Proofs about MetadataRefresh for any runs, any finite set of workers,   *)
(* any host list and any resolver.                                         *)
(***************************************************************************)
EXTENDS MetadataRefresh, FiniteSetTheorems, TLAPS

(* What a worker holds between two critical sections. *)
Owning(r, w) ==
    /\ at[r][w] \in Busy => host[r][w] \in Hosts
    /\ at[r][w] \in {"known", "share", "lookup", "store"} =>
           ip[r][w] \in Resolves[host[r][w]]
    /\ at[r][w] \in {"share", "store"} =>
           hand[r][w] # None /\ hand[r][w].ip = ip[r][w]

IInv == TypeOK /\ Attribution /\ \A r \in Runs, w \in Workers : Owning(r, w)

-----------------------------------------------------------------------------
(* Two levels of EXCEPT. *)
LEMMA Update ==
  ASSUME NEW S, NEW f \in [Runs -> [Workers -> S]], NEW r \in Runs, NEW w \in Workers,
         NEW x \in S
  PROVE  /\ [f EXCEPT ![r][w] = x] \in [Runs -> [Workers -> S]]
         /\ [f EXCEPT ![r][w] = x][r][w] = x
         /\ \A q \in Runs, v \in Workers :
                q # r \/ v # w => [f EXCEPT ![r][w] = x][q][v] = f[q][v]
OBVIOUS

LEMMA Settled ==
  ASSUME TypeOK, NEW r \in Runs, NEW w \in Workers,
         NEW o \in {"updated", "cached", "failed", "private"}, Settle(r, w, o)
  PROVE  /\ at' \in [Runs -> [Workers -> Steps]]
         /\ host' \in [Runs -> [Workers -> Hosts \union {None}]]
         /\ ip' \in [Runs -> [Workers -> Ips \union {None}]]
         /\ hand' \in [Runs -> [Workers -> Entries \union {None}]]
         /\ stats' \in [Runs -> Stats]
         /\ Counted(r)' = Counted(r) + 1
         /\ \A q \in Runs \ {r} : Counted(q)' = Counted(q)
         /\ at'[r][w] = "wait"
         /\ \A q \in Runs, v \in Workers : q # r \/ v # w =>
              /\ at'[q][v] = at[q][v] /\ host'[q][v] = host[q][v]
              /\ ip'[q][v] = ip[q][v] /\ hand'[q][v] = hand[q][v]
<1>1. at' \in [Runs -> [Workers -> Steps]] /\ at'[r][w] = "wait"
  BY DEF TypeOK, Settle, Steps
<1>2. /\ host' \in [Runs -> [Workers -> Hosts \union {None}]]
      /\ ip' \in [Runs -> [Workers -> Ips \union {None}]]
      /\ hand' \in [Runs -> [Workers -> Entries \union {None}]]
  BY DEF TypeOK, Settle
<1>3. stats[r] \in Stats /\ stats'[r] = [stats[r] EXCEPT ![o] = stats[r][o] + 1]
  BY DEF TypeOK, Settle
<1>4. stats'[r] \in Stats
  BY <1>3 DEF Stats
<1>5. stats' \in [Runs -> Stats] /\ \A q \in Runs \ {r} : stats'[q] = stats[q]
  BY <1>4 DEF TypeOK, Settle
<1>6. Counted(r)' = Counted(r) + 1
  BY <1>3 DEF Counted, Stats
<1>7. \A q \in Runs \ {r} : Counted(q)' = Counted(q)
  BY <1>5 DEF Counted
<1>8. \A q \in Runs, v \in Workers : q # r \/ v # w =>
              /\ at'[q][v] = at[q][v] /\ host'[q][v] = host[q][v]
              /\ ip'[q][v] = ip[q][v] /\ hand'[q][v] = hand[q][v]
  BY DEF TypeOK, Settle
<1>9. QED
  BY <1>1, <1>2, <1>5, <1>6, <1>7, <1>8

(* The other workers keep what they hold. *)
LEMMA OthersOwn ==
  ASSUME IInv, NEW r \in Runs, NEW w \in Workers,
         \A q \in Runs, v \in Workers : q # r \/ v # w =>
            /\ at'[q][v] = at[q][v] /\ host'[q][v] = host[q][v]
            /\ ip'[q][v] = ip[q][v] /\ hand'[q][v] = hand[q][v],
         Owning(r, w)'
  PROVE  \A q \in Runs, v \in Workers : Owning(q, v)'
BY DEF IInv, Owning

LEMMA SettledOwn ==
  ASSUME IInv, NEW r \in Runs, NEW w \in Workers,
         NEW o \in {"updated", "cached", "failed", "private"}, Settle(r, w, o)
  PROVE  \A q \in Runs, v \in Workers : Owning(q, v)'
<1>1. Owning(r, w)'
  BY Settled DEF IInv, Owning, Busy
<1>2. \A q \in Runs, v \in Workers : q # r \/ v # w =>
            /\ at'[q][v] = at[q][v] /\ host'[q][v] = host[q][v]
            /\ ip'[q][v] = ip[q][v] /\ hand'[q][v] = hand[q][v]
  BY Settled DEF IInv
<1>3. QED
  BY <1>1, <1>2, OthersOwn

LEMMA InitIInv == Init => IInv
<1> SUFFICES ASSUME Init PROVE IInv
  OBVIOUS
<1>1. file \in [Keys -> Entries \union {None}]
  <2>1. [ip : Ips, stamp : 0..Start] \subseteq Entries
    BY RefreshAssumption DEF Entries
  <2>2. QED
    BY <2>1 DEF Init
<1>2. TypeOK
  BY <1>1, RefreshAssumption DEF Init, TypeOK, Steps, Stats
<1>3. Attribution
  BY DEF Init, Attribution
<1>4. \A r \in Runs, w \in Workers : Owning(r, w)
  BY DEF Init, Owning, Busy, Steps
<1>5. QED
  BY <1>2, <1>3, <1>4 DEF IInv

-----------------------------------------------------------------------------
(* One step of one worker. *)
LEMMA HandStep ==
  ASSUME IInv, NEW r \in Runs, NEW w \in Workers, Hand(r, w) PROVE IInv'
<1>1. HostList[next[r]] \in Hosts /\ next[r] \in 1..Len(HostList)
  BY RefreshAssumption DEF Hand, Hosts, IInv, TypeOK
<1>2. TypeOK'
  BY <1>1 DEF Hand, IInv, TypeOK, Steps
<1>3. Owning(r, w)'
  BY <1>1 DEF Hand, IInv, TypeOK, Owning, Busy, Steps
<1>4. \A q \in Runs, v \in Workers : Owning(q, v)'
  <2>1. \A q \in Runs, v \in Workers : q # r \/ v # w =>
            /\ at'[q][v] = at[q][v] /\ host'[q][v] = host[q][v]
            /\ ip'[q][v] = ip[q][v] /\ hand'[q][v] = hand[q][v]
    BY DEF Hand, IInv, TypeOK
  <2>2. QED
    BY <2>1, <1>3, OthersOwn
<1>5. Attribution'
  BY DEF Hand, IInv, Attribution
<1>6. QED
  BY <1>2, <1>4, <1>5 DEF IInv

(* A worker settles without a change to the map. *)
LEMMA SettleStep ==
  ASSUME IInv, NEW r \in Runs, NEW w \in Workers,
         NEW o \in {"updated", "cached", "failed", "private"}, Settle(r, w, o),
         UNCHANGED <<now, file, phase, mem, next, closed, expired>>
  PROVE  IInv'
<1>1. TypeOK'
  BY Settled DEF IInv, TypeOK
<1>2. \A q \in Runs, v \in Workers : Owning(q, v)'
  BY SettledOwn
<1>3. Attribution'
  BY DEF IInv, Attribution
<1>4. QED
  BY <1>1, <1>2, <1>3 DEF IInv

LEMMA CheckPreviousStep ==
  ASSUME IInv, NEW r \in Runs, NEW w \in Workers, CheckPrevious(r, w) PROVE IInv'
<1>1. CASE Settle(r, w, "cached")
  BY <1>1, SettleStep DEF CheckPrevious
<1>2. CASE at' = [at EXCEPT ![r][w] = "resolve"] /\ UNCHANGED <<host, ip, hand, stats>>
  <2>1. TypeOK'
    BY <1>2 DEF CheckPrevious, IInv, TypeOK, Steps
  <2>2. Owning(r, w)'
    BY <1>2 DEF CheckPrevious, Running, IInv, TypeOK, Owning, Busy, Steps
  <2>3. \A q \in Runs, v \in Workers : Owning(q, v)'
    BY <1>2, <2>2, OthersOwn DEF IInv, TypeOK
  <2>4. Attribution'
    BY DEF CheckPrevious, IInv, Attribution
  <2>5. QED
    BY <2>1, <2>3, <2>4 DEF IInv
<1>3. QED
  BY <1>1, <1>2 DEF CheckPrevious

LEMMA ResolveStep ==
  ASSUME IInv, NEW r \in Runs, NEW w \in Workers, Resolve(r, w) PROVE IInv'
<1>1. CASE Settle(r, w, "failed") \/ Settle(r, w, "private")
  BY <1>1, SettleStep DEF Resolve
<1>2. CASE \E a \in Resolves[host[r][w]] \ Private :
             /\ ip' = [ip EXCEPT ![r][w] = a]
             /\ at' = [at EXCEPT ![r][w] = "known"]
             /\ UNCHANGED <<host, hand, stats>>
  <2>1. PICK a \in Resolves[host[r][w]] \ Private :
             /\ ip' = [ip EXCEPT ![r][w] = a]
             /\ at' = [at EXCEPT ![r][w] = "known"]
             /\ UNCHANGED <<host, hand, stats>>
    BY <1>2
  <2>2. host[r][w] \in Hosts /\ a \in Ips
    BY <2>1, RefreshAssumption DEF Resolve, Running, IInv, Owning, Busy, Steps
  <2>3. TypeOK'
    BY <2>1, <2>2 DEF Resolve, IInv, TypeOK, Steps
  <2>4. Owning(r, w)'
    BY <2>1, <2>2 DEF Resolve, IInv, TypeOK, Owning
  <2>5. \A q \in Runs, v \in Workers : Owning(q, v)'
    BY <2>1, <2>4, OthersOwn DEF IInv, TypeOK
  <2>6. Attribution'
    BY DEF Resolve, IInv, Attribution
  <2>7. QED
    BY <2>3, <2>5, <2>6 DEF IInv
<1>3. QED
  BY <1>1, <1>2 DEF Resolve

(* What a worker works on once it has an address. *)
LEMMA Addressed ==
  ASSUME IInv, NEW r \in Runs, NEW w \in Workers,
         at[r][w] \in {"known", "share", "lookup", "store"}
  PROVE  /\ host[r][w] \in Hosts /\ host[r][w] \in Keys
         /\ ip[r][w] \in Ips /\ ip[r][w] \in Keys
         /\ ip[r][w] \in Resolves[host[r][w]]
         /\ host[r][w] \in Ips => host[r][w] = ip[r][w]
<1>1. host[r][w] \in Hosts /\ ip[r][w] \in Resolves[host[r][w]]
  BY DEF IInv, Owning, Busy, Steps
<1>2. Resolves[host[r][w]] \subseteq Ips
  BY <1>1, RefreshAssumption
<1>3. host[r][w] \in Ips => Resolves[host[r][w]] = {host[r][w]}
  BY <1>1, RefreshAssumption
<1>4. QED
  BY <1>1, <1>2, <1>3 DEF Keys

LEMMA CheckKnownStep ==
  ASSUME IInv, NEW r \in Runs, NEW w \in Workers, CheckKnown(r, w) PROVE IInv'
<1> DEFINE known == mem[r][ip[r][w]]
<1>1. /\ ip[r][w] \in Ips /\ ip[r][w] \in Keys /\ host[r][w] \in Hosts
      /\ ip[r][w] \in Resolves[host[r][w]]
  BY Addressed DEF CheckKnown, Running
<1>2. known \in Entries \union {None} /\ (known # None => known.ip = ip[r][w])
  <2>1. known \in Entries \union {None}
    BY <1>1 DEF IInv, TypeOK
  <2>2. known # None => Describes(ip[r][w], known)
    BY <1>1 DEF IInv, Attribution
  <2>3. QED
    BY <1>1, <2>1, <2>2 DEF Describes
<1>3. \/ /\ known # None
         /\ hand' = [hand EXCEPT ![r][w] = known]
         /\ at' = [at EXCEPT ![r][w] = "share"]
      \/ at' = [at EXCEPT ![r][w] = "lookup"] /\ hand' = hand
  BY DEF CheckKnown, Fresh
<1>4. TypeOK'
  <2>1. CASE /\ hand' = [hand EXCEPT ![r][w] = known]
             /\ at' = [at EXCEPT ![r][w] = "share"]
    BY <1>2, <2>1 DEF CheckKnown, IInv, TypeOK, Steps
  <2>2. CASE at' = [at EXCEPT ![r][w] = "lookup"] /\ hand' = hand
    BY <2>2 DEF CheckKnown, IInv, TypeOK, Steps
  <2>3. QED
    BY <1>3, <2>1, <2>2
<1>5. Owning(r, w)'
  BY <1>1, <1>2, <1>3 DEF CheckKnown, IInv, TypeOK, Owning
<1>6. \A q \in Runs, v \in Workers : Owning(q, v)'
  <2>1. \A q \in Runs, v \in Workers : q # r \/ v # w =>
            /\ at'[q][v] = at[q][v] /\ host'[q][v] = host[q][v]
            /\ ip'[q][v] = ip[q][v] /\ hand'[q][v] = hand[q][v]
    BY <1>3 DEF CheckKnown, IInv, TypeOK
  <2>2. QED
    BY <2>1, <1>5, OthersOwn
<1>7. Attribution'
  BY DEF CheckKnown, IInv, Attribution
<1>8. QED
  BY <1>4, <1>6, <1>7 DEF IInv

LEMMA AnswerStep ==
  ASSUME IInv, NEW r \in Runs, NEW w \in Workers, Answer(r, w) PROVE IInv'
<1> DEFINE e == [ip |-> ip[r][w], stamp |-> now]
<1>1. /\ ip[r][w] \in Ips /\ host[r][w] \in Hosts
      /\ ip[r][w] \in Resolves[host[r][w]]
  BY Addressed DEF Answer, Running
<1>2. e \in Entries /\ e.ip = ip[r][w]
  BY <1>1 DEF Entries, IInv, TypeOK
<1>3. hand' = [hand EXCEPT ![r][w] = e] /\ at' = [at EXCEPT ![r][w] = "store"]
  BY DEF Answer
<1>4. TypeOK'
  BY <1>2, <1>3 DEF Answer, IInv, TypeOK, Steps
<1>5. e # None
  BY <1>2, RefreshAssumption
<1>6. Owning(r, w)'
  BY <1>1, <1>2, <1>3, <1>5 DEF Answer, IInv, TypeOK, Owning
<1>7. \A q \in Runs, v \in Workers : Owning(q, v)'
  <2>1. \A q \in Runs, v \in Workers : q # r \/ v # w =>
            /\ at'[q][v] = at[q][v] /\ host'[q][v] = host[q][v]
            /\ ip'[q][v] = ip[q][v] /\ hand'[q][v] = hand[q][v]
    BY <1>3 DEF Answer, IInv, TypeOK
  <2>2. QED
    BY <2>1, <1>6, OthersOwn
<1>8. Attribution'
  BY DEF Answer, IInv, Attribution
<1>9. QED
  BY <1>4, <1>7, <1>8 DEF IInv

(* The entries of the map after a worker wrote one or two of them. *)
LEMMA ShareStep ==
  ASSUME IInv, NEW r \in Runs, NEW w \in Workers, ShareKnown(r, w) PROVE IInv'
<1> DEFINE h == host[r][w]
           e == hand[r][w]
<1>1. /\ h \in Hosts /\ h \in Keys /\ ip[r][w] \in Resolves[h]
      /\ h \in Ips => h = ip[r][w]
  BY Addressed DEF ShareKnown, Running
<1>2. e \in Entries /\ e.ip = ip[r][w]
  BY DEF ShareKnown, Running, IInv, TypeOK, Owning
<1>3. Describes(h, e)
  BY <1>1, <1>2 DEF Describes
<1>4. mem' = [mem EXCEPT ![r][h] = e] /\ Settle(r, w, "cached")
  BY DEF ShareKnown
<1>5. TypeOK'
  <2>1. mem' \in [Runs -> [Keys -> Entries \union {None}]]
    BY <1>1, <1>2, <1>4 DEF IInv, TypeOK
  <2>2. QED
    BY <1>4, <2>1, Settled DEF ShareKnown, IInv, TypeOK
<1>6. \A q \in Runs, v \in Workers : Owning(q, v)'
  BY <1>4, SettledOwn
<1>7. Attribution'
  <2>1. \A q \in Runs, k \in Keys :
          mem'[q][k] = mem[q][k] \/ (k = h /\ mem'[q][k] = e)
    BY <1>1, <1>4 DEF IInv, TypeOK
  <2>2. QED
    BY <1>3, <2>1 DEF ShareKnown, IInv, Attribution
<1>8. QED
  BY <1>5, <1>6, <1>7 DEF IInv

LEMMA StoreStep ==
  ASSUME IInv, NEW r \in Runs, NEW w \in Workers, StoreAnswer(r, w) PROVE IInv'
<1> DEFINE h == host[r][w]
           a == ip[r][w]
           e == hand[r][w]
<1>1. /\ h \in Hosts /\ h \in Keys /\ a \in Ips /\ a \in Keys
      /\ a \in Resolves[h] /\ (h \in Ips => h = a)
  BY Addressed DEF StoreAnswer, Running
<1>2. e \in Entries /\ e.ip = a
  BY DEF StoreAnswer, Running, IInv, TypeOK, Owning
<1>3. Describes(h, e) /\ Describes(a, e)
  BY <1>1, <1>2 DEF Describes
<1>4. mem' = [mem EXCEPT ![r][h] = e, ![r][a] = e] /\ Settle(r, w, "updated")
  BY DEF StoreAnswer
<1>5. TypeOK'
  <2>1. mem' \in [Runs -> [Keys -> Entries \union {None}]]
    BY <1>1, <1>2, <1>4 DEF IInv, TypeOK
  <2>2. QED
    BY <1>4, <2>1, Settled DEF StoreAnswer, IInv, TypeOK
<1>6. \A q \in Runs, v \in Workers : Owning(q, v)'
  BY <1>4, SettledOwn
<1>7. Attribution'
  <2>1. \A q \in Runs, k \in Keys :
          mem'[q][k] = mem[q][k] \/ (k \in {h, a} /\ mem'[q][k] = e)
    BY <1>1, <1>4 DEF IInv, TypeOK
  <2>2. QED
    BY <1>3, <2>1 DEF StoreAnswer, IInv, Attribution
<1>8. QED
  BY <1>5, <1>6, <1>7 DEF IInv

-----------------------------------------------------------------------------
(* The workers as they are when a step is not theirs. *)
LEMMA WorkersKept ==
  ASSUME IInv, UNCHANGED worker PROVE \A r \in Runs, w \in Workers : Owning(r, w)'
BY DEF IInv, worker, Owning

LEMMA RunStep ==
  ASSUME IInv, NEW r \in Runs,
         \/ ReadCache(r) \/ Refuse(r) \/ CloseJobs(r) \/ Return(r)
         \/ WriteCache(r) \/ Expire(r) \/ Kill(r)
  PROVE  IInv'
<1>1. UNCHANGED <<worker, stats, next, now>>
  BY DEF ReadCache, Refuse, CloseJobs, Return, WriteCache, Expire, Kill
<1>2. \/ UNCHANGED <<file, mem>>
      \/ mem' = [mem EXCEPT ![r] = file] /\ UNCHANGED file
      \/ file' \in {file, mem[r]} /\ UNCHANGED mem
  BY DEF ReadCache, Refuse, CloseJobs, Return, WriteCache, Expire, Kill
<1>3. /\ phase' \in [Runs -> {"idle", "refused", "refresh", "write", "done", "killed"}]
      /\ closed' \in [Runs -> BOOLEAN] /\ expired' \in [Runs -> BOOLEAN]
  BY DEF ReadCache, Refuse, CloseJobs, Return, WriteCache, Expire, Kill, IInv, TypeOK
<1>4. TypeOK'
  <2>1. /\ file' \in [Keys -> Entries \union {None}]
        /\ mem' \in [Runs -> [Keys -> Entries \union {None}]]
    <3>1. CASE UNCHANGED <<file, mem>>
      BY <3>1 DEF IInv, TypeOK
    <3>2. CASE mem' = [mem EXCEPT ![r] = file] /\ UNCHANGED file
      BY <3>2 DEF IInv, TypeOK
    <3>3. CASE file' \in {file, mem[r]} /\ UNCHANGED mem
      BY <3>3 DEF IInv, TypeOK
    <3>4. QED
      BY <1>2, <3>1, <3>2, <3>3
  <2>2. QED
    BY <1>1, <1>3, <2>1 DEF IInv, TypeOK, worker
<1>5. Attribution'
  <2>1. \A k \in Keys : file'[k] = file[k] \/ file'[k] = mem[r][k]
    BY <1>2 DEF IInv, TypeOK
  <2>2. \A q \in Runs, k \in Keys : mem'[q][k] = mem[q][k] \/ mem'[q][k] = file[k]
    BY <1>2 DEF IInv, TypeOK
  <2>3. QED
    BY <2>1, <2>2 DEF IInv, Attribution
<1>6. QED
  BY <1>1, <1>4, <1>5, WorkersKept DEF IInv

LEMMA NextIInv == IInv /\ [Next]_vars => IInv'
<1> SUFFICES ASSUME IInv, [Next]_vars PROVE IInv'
  OBVIOUS
<1>1. ASSUME NEW r \in Runs, NEW w \in Workers, Work(r, w) PROVE IInv'
  <2>1. CASE Exit(r, w)
    <3>1. TypeOK'
      BY <2>1 DEF Exit, IInv, TypeOK, Steps
    <3>2. \A q \in Runs, v \in Workers : Owning(q, v)'
      BY <2>1 DEF Exit, IInv, TypeOK, Owning, Busy, Steps
    <3>3. Attribution'
      BY <2>1 DEF Exit, IInv, Attribution
    <3>4. QED
      BY <3>1, <3>2, <3>3 DEF IInv
  <2>2. CASE LookupFails(r, w)
    BY <2>2, SettleStep DEF LookupFails
  <2>3. QED
    BY <1>1, <2>1, <2>2, HandStep, CheckPreviousStep, ResolveStep, CheckKnownStep,
       ShareStep, AnswerStep, StoreStep DEF Work
<1>2. CASE Tick
  <2>1. TypeOK'
    BY <1>2 DEF Tick, IInv, TypeOK, worker
  <2>2. Attribution'
    BY <1>2 DEF Tick, IInv, Attribution
  <2>3. QED
    BY <1>2, <2>1, <2>2, WorkersKept DEF Tick, IInv
<1>3. CASE UNCHANGED vars
  <2>1. TypeOK'
    BY <1>3 DEF vars, IInv, TypeOK, worker
  <2>2. Attribution'
    BY <1>3 DEF vars, IInv, Attribution
  <2>3. QED
    BY <1>3, <2>1, <2>2, WorkersKept DEF vars, IInv
<1>4. QED
  BY <1>1, <1>2, <1>3, RunStep DEF Next

LEMMA Invariance == Spec => []IInv
BY InitIInv, NextIInv, PTL DEF Spec

(* Every state of every run is of its type. *)
THEOREM Typing == Spec => []TypeOK
<1>1. IInv => TypeOK
  BY DEF IInv
<1>2. QED
  BY <1>1, Invariance, PTL

(* An entry is never kept under a key that it does not describe, whatever    *)
(* workers and runs write at the same time.                                  *)
THEOREM Attributed == Spec => []Attribution
<1>1. IInv => Attribution
  BY DEF IInv
<1>2. QED
  BY <1>1, Invariance, PTL

-----------------------------------------------------------------------------
(* The summary.  Every host that was sent is counted or with a worker.       *)
Closing(r) ==
    /\ \A w \in Workers : at[r][w] = "exited" => closed[r]
    /\ closed[r] => next[r] > Len(HostList) \/ expired[r]
    /\ phase[r] \in {"write", "done"} => \A w \in Workers : at[r][w] = "exited"
Ledger(r) == Counted(r) + Cardinality(BusyWorkers(r)) = next[r] - 1

Ledgers == \A r \in Runs : Closing(r) /\ Ledger(r)

LEMMA BusyFinite ==
  ASSUME NEW r \in Runs
  PROVE  IsFiniteSet(BusyWorkers(r)) /\ Cardinality(BusyWorkers(r)) \in Nat
<1>1. BusyWorkers(r) \subseteq Workers
  BY DEF BusyWorkers
<1>2. QED
  BY <1>1, RefreshAssumption, FS_Subset, FS_CardinalityType

LEMMA CountedType == ASSUME TypeOK, NEW r \in Runs PROVE Counted(r) \in Nat
BY DEF TypeOK, Stats, Counted

(* A step of a busy worker that stays busy, or of none. *)
LEMMA LedgerKept ==
  ASSUME Ledgers, UNCHANGED <<stats, next>>,
         \A r \in Runs : BusyWorkers(r)' = BusyWorkers(r)
  PROVE  \A r \in Runs : Ledger(r)'
BY DEF Ledgers, Ledger, Counted

LEMMA LedgerSettled ==
  ASSUME TypeOK, Ledgers, NEW r \in Runs, NEW w \in Workers,
         NEW o \in {"updated", "cached", "failed", "private"}, Settle(r, w, o),
         at[r][w] \in Busy, UNCHANGED next
  PROVE  \A q \in Runs : Ledger(q)'
<1>1. BusyWorkers(r)' = BusyWorkers(r) \ {w} /\ w \in BusyWorkers(r)
  BY Settled DEF BusyWorkers, Busy
<1>2. \A q \in Runs \ {r} : BusyWorkers(q)' = BusyWorkers(q)
  BY Settled DEF BusyWorkers
<1>3. Cardinality(BusyWorkers(r)') = Cardinality(BusyWorkers(r)) - 1
  BY <1>1, BusyFinite, FS_RemoveElement
<1>4. Counted(r)' = Counted(r) + 1 /\ \A q \in Runs \ {r} : Counted(q)' = Counted(q)
  BY Settled
<1>5. Ledger(r)'
  BY <1>3, <1>4, BusyFinite, CountedType DEF Ledgers, Ledger
<1>6. \A q \in Runs \ {r} : Ledger(q)'
  BY <1>2, <1>4 DEF Ledgers, Ledger
<1>7. QED
  BY <1>5, <1>6

LEMMA LedgerHand ==
  ASSUME TypeOK, Ledgers, NEW r \in Runs, NEW w \in Workers, Hand(r, w)
  PROVE  \A q \in Runs : Ledger(q)'
<1>1. BusyWorkers(r)' = BusyWorkers(r) \union {w} /\ w \notin BusyWorkers(r)
  BY DEF Hand, TypeOK, BusyWorkers, Busy, Steps
<1>2. \A q \in Runs \ {r} : BusyWorkers(q)' = BusyWorkers(q) /\ next'[q] = next[q]
  BY DEF Hand, TypeOK, BusyWorkers
<1>3. Cardinality(BusyWorkers(r)') = Cardinality(BusyWorkers(r)) + 1
  BY <1>1, BusyFinite, FS_AddElement
<1>4. next'[r] = next[r] + 1 /\ next[r] \in Nat /\ \A q \in Runs : Counted(q)' = Counted(q)
  BY DEF Hand, TypeOK, Counted
<1>5. Ledger(r)'
  BY <1>3, <1>4, BusyFinite, CountedType DEF Ledgers, Ledger
<1>6. \A q \in Runs \ {r} : Ledger(q)'
  BY <1>2, <1>4 DEF Ledgers, Ledger
<1>7. QED
  BY <1>5, <1>6

LEMMA LedgerMoved ==
  ASSUME TypeOK, Ledgers, NEW r \in Runs, NEW w \in Workers, NEW s \in Steps,
         at' = [at EXCEPT ![r][w] = s], at[r][w] \in Busy <=> s \in Busy,
         UNCHANGED <<stats, next>>
  PROVE  \A q \in Runs : Ledger(q)'
<1>1. \A q \in Runs : BusyWorkers(q)' = BusyWorkers(q)
  BY DEF TypeOK, BusyWorkers
<1>2. QED
  BY <1>1, LedgerKept

LEMMA LedgerWork ==
  ASSUME TypeOK, Ledgers, NEW r \in Runs, NEW w \in Workers, Work(r, w)
  PROVE  \A q \in Runs : Ledger(q)'
<1>1. CASE Hand(r, w)
  BY <1>1, LedgerHand
<1>2. CASE CheckPrevious(r, w)
  <2>1. at[r][w] \in Busy /\ UNCHANGED next
    BY <1>2 DEF CheckPrevious, Running, Busy, Steps
  <2>2. CASE Settle(r, w, "cached")
    BY <2>1, <2>2, LedgerSettled
  <2>3. CASE at' = [at EXCEPT ![r][w] = "resolve"] /\ UNCHANGED stats
    BY <2>1, <2>3, LedgerMoved DEF Busy, Steps
  <2>4. QED
    BY <1>2, <2>2, <2>3 DEF CheckPrevious
<1>3. CASE Resolve(r, w)
  <2>1. at[r][w] \in Busy /\ UNCHANGED next
    BY <1>3 DEF Resolve, Running, Busy, Steps
  <2>2. CASE Settle(r, w, "failed") \/ Settle(r, w, "private")
    BY <2>1, <2>2, LedgerSettled
  <2>3. CASE at' = [at EXCEPT ![r][w] = "known"] /\ UNCHANGED stats
    BY <2>1, <2>3, LedgerMoved DEF Busy, Steps
  <2>4. QED
    BY <1>3, <2>2, <2>3 DEF Resolve
<1>4. CASE CheckKnown(r, w)
  <2>1. at[r][w] \in Busy /\ UNCHANGED <<stats, next>>
    BY <1>4 DEF CheckKnown, Running, Busy, Steps
  <2>2. CASE at' = [at EXCEPT ![r][w] = "share"]
    BY <2>1, <2>2, LedgerMoved DEF Busy, Steps
  <2>3. CASE at' = [at EXCEPT ![r][w] = "lookup"]
    BY <2>1, <2>3, LedgerMoved DEF Busy, Steps
  <2>4. QED
    BY <1>4, <2>2, <2>3 DEF CheckKnown
<1>5. CASE Answer(r, w)
  <2>1. at[r][w] \in Busy /\ at' = [at EXCEPT ![r][w] = "store"] /\ UNCHANGED <<stats, next>>
    BY <1>5 DEF Answer, Running, Busy, Steps
  <2>2. QED
    BY <2>1, LedgerMoved DEF Busy, Steps
<1>6. CASE ShareKnown(r, w)
  <2>1. at[r][w] \in Busy /\ UNCHANGED next /\ Settle(r, w, "cached")
    BY <1>6 DEF ShareKnown, Running, Busy, Steps
  <2>2. QED
    BY <2>1, LedgerSettled
<1>7. CASE LookupFails(r, w)
  <2>1. at[r][w] \in Busy /\ UNCHANGED next /\ Settle(r, w, "failed")
    BY <1>7 DEF LookupFails, Running, Busy, Steps
  <2>2. QED
    BY <2>1, LedgerSettled
<1>8. CASE StoreAnswer(r, w)
  <2>1. at[r][w] \in Busy /\ UNCHANGED next /\ Settle(r, w, "updated")
    BY <1>8 DEF StoreAnswer, Running, Busy, Steps
  <2>2. QED
    BY <2>1, LedgerSettled
<1>9. CASE Exit(r, w)
  <2>1. at[r][w] = "wait" /\ at' = [at EXCEPT ![r][w] = "exited"] /\ UNCHANGED <<stats, next>>
    BY <1>9 DEF Exit, Running
  <2>2. QED
    BY <2>1, LedgerMoved DEF Busy, Steps
<1>10. QED
  BY <1>1, <1>2, <1>3, <1>4, <1>5, <1>6, <1>7, <1>8, <1>9 DEF Work

(* A worker that works is in a run that has not returned. *)
LEMMA ClosingWork ==
  ASSUME TypeOK, Ledgers, NEW r \in Runs, NEW w \in Workers, Work(r, w)
  PROVE  \A q \in Runs : Closing(q)'
<1>1. /\ UNCHANGED <<phase, closed, expired>> /\ phase[r] = "refresh"
      /\ \A q \in Runs \ {r} : at'[q] = at[q]
      /\ \A v \in Workers \ {w} : at'[r][v] = at[r][v]
  BY DEF Work, Hand, CheckPrevious, Resolve, CheckKnown, ShareKnown, Answer, LookupFails,
         StoreAnswer, Exit, Running, Settle, TypeOK
<1>2. at'[r][w] = "exited" => closed[r]
  BY DEF Work, Hand, CheckPrevious, Resolve, CheckKnown, ShareKnown, Answer, LookupFails,
         StoreAnswer, Exit, Running, Settle, TypeOK
<1>3. \A q \in Runs : next'[q] = next[q] \/ ~closed[q]
  BY DEF Work, Hand, CheckPrevious, Resolve, CheckKnown, ShareKnown, Answer, LookupFails,
         StoreAnswer, Exit, Running, TypeOK
<1>4. QED
  BY <1>1, <1>2, <1>3 DEF Ledgers, Closing

LEMMA LedgersNext ==
  TypeOK /\ Ledgers /\ [Next]_vars => Ledgers'
<1> SUFFICES ASSUME TypeOK, Ledgers, [Next]_vars PROVE Ledgers'
  OBVIOUS
<1>1. ASSUME NEW r \in Runs, NEW w \in Workers, Work(r, w) PROVE Ledgers'
  BY <1>1, LedgerWork, ClosingWork DEF Ledgers
<1>2. ASSUME NEW r \in Runs,
             \/ ReadCache(r) \/ Refuse(r) \/ CloseJobs(r) \/ Return(r)
             \/ WriteCache(r) \/ Expire(r) \/ Kill(r)
      PROVE  Ledgers'
  <2>1. UNCHANGED <<at, stats, next>>
    BY <1>2 DEF ReadCache, Refuse, CloseJobs, Return, WriteCache, Expire, Kill, worker
  <2>2. \A q \in Runs : Ledger(q)'
    BY <2>1, LedgerKept DEF BusyWorkers
  <2>3. /\ \A q \in Runs \ {r} : /\ phase'[q] = phase[q] /\ closed'[q] = closed[q]
                                 /\ expired'[q] = expired[q]
        /\ closed[r] => closed'[r]
        /\ expired[r] => expired'[r]
        /\ closed'[r] => closed[r] \/ next[r] > Len(HostList) \/ expired[r]
    BY <1>2 DEF ReadCache, Refuse, CloseJobs, Return, WriteCache, Expire, Kill, TypeOK
  <2>4. phase'[r] \in {"write", "done"} => \A w \in Workers : at[r][w] = "exited"
    BY <1>2 DEF ReadCache, Refuse, CloseJobs, Return, WriteCache, Expire, Kill, TypeOK,
                Ledgers, Closing
  <2>5. \A q \in Runs : Closing(q)'
    BY <2>1, <2>3, <2>4 DEF Ledgers, Closing
  <2>6. QED
    BY <2>2, <2>5 DEF Ledgers
<1>3. ASSUME Tick \/ UNCHANGED vars PROVE Ledgers'
  <2>1. UNCHANGED <<at, stats, next, phase, closed, expired>>
    BY <1>3 DEF Tick, vars, worker
  <2>2. \A q \in Runs : Ledger(q)'
    BY <2>1, LedgerKept DEF BusyWorkers
  <2>3. QED
    BY <2>1, <2>2 DEF Ledgers, Closing
<1>4. QED
  BY <1>1, <1>2, <1>3 DEF Next

LEMMA LedgersInit == Init => Ledgers
<1> SUFFICES ASSUME Init PROVE Ledgers
  OBVIOUS
<1>1. \A r \in Runs : BusyWorkers(r) = {}
  BY DEF Init, BusyWorkers, Busy
<1>2. \A r \in Runs : Counted(r) = 0 /\ next[r] = 1
  BY DEF Init, Counted
<1>3. \A r \in Runs : Ledger(r)
  BY <1>1, <1>2, FS_EmptySet DEF Ledger
<1>4. \A r \in Runs : Closing(r)
  BY DEF Init, Closing
<1>5. QED
  BY <1>3, <1>4 DEF Ledgers

LEMMA LedgersAccount == TypeOK /\ Ledgers => Accounting
<1> SUFFICES ASSUME TypeOK, Ledgers, NEW r \in Runs, phase[r] \in {"write", "done"}
             PROVE  /\ Counted(r) = next[r] - 1
                    /\ ~expired[r] => Counted(r) = Len(HostList)
  BY DEF Accounting
<1>1. \A w \in Workers : at[r][w] = "exited"
  BY DEF Ledgers, Closing
<1>2. BusyWorkers(r) = {}
  BY <1>1 DEF BusyWorkers, Busy, Steps
<1>3. Counted(r) = next[r] - 1
  <2>1. Cardinality(BusyWorkers(r)) = 0 /\ Counted(r) \in Nat
    BY <1>2, CountedType, FS_EmptySet
  <2>2. Counted(r) + Cardinality(BusyWorkers(r)) = next[r] - 1
    BY DEF Ledgers, Ledger
  <2>3. QED
    BY <2>1, <2>2
<1>4. closed[r]
  BY <1>1, RefreshAssumption DEF Ledgers, Closing
<1>5. ~expired[r] => next[r] = Len(HostList) + 1
  BY <1>4, RefreshAssumption DEF Ledgers, Closing, TypeOK
<1>6. QED
  BY <1>3, <1>5, RefreshAssumption

(* The counts that are printed add up to the hosts that were sent.           *)
THEOREM Accounted == Spec => []Accounting
BY LedgersInit, LedgersNext, LedgersAccount, Typing, PTL DEF Spec

-----------------------------------------------------------------------------
(* One run at a time: the map of the run is never behind the file.           *)
Newer(e, k) == file[k] # None => e # None /\ e.stamp >= file[k].stamp

Ahead(r) ==
    /\ phase[r] = "idle" => \A w \in Workers : at[r][w] = "wait"
    /\ phase[r] \in {"idle", "refresh", "write"} =>
           \A k \in Keys : file[k] # None => file[k].stamp <= now
    /\ phase[r] \in {"refresh", "write"} => \A k \in Keys : Newer(mem[r][k], k)
    /\ phase[r] = "refresh" => \A w \in Workers :
         /\ at[r][w] \in {"resolve", "known", "share", "lookup", "store"} =>
                ~Fresh(file[host[r][w]])
         /\ at[r][w] = "share" => Newer(hand[r][w], host[r][w])
         /\ at[r][w] = "store" => \A k \in Keys : Newer(hand[r][w], k)

LEMMA MaxAgeNat == MaxAge \in Nat
BY RefreshAssumption

LEMMA AheadWork ==
  ASSUME IInv, NEW r \in Runs, NEW w \in Workers, Work(r, w), Ahead(r)
  PROVE  Ahead(r)'
<1> DEFINE Position(v) ==
         /\ at[r][v] \in {"resolve", "known", "share", "lookup", "store"} =>
                ~Fresh(file[host[r][v]])
         /\ at[r][v] = "share" => Newer(hand[r][v], host[r][v])
         /\ at[r][v] = "store" => \A k \in Keys : Newer(hand[r][v], k)
<1>1. phase[r] = "refresh" /\ UNCHANGED <<now, file, phase>>
  BY DEF Work, Hand, CheckPrevious, Resolve, CheckKnown, ShareKnown, Answer, LookupFails,
         StoreAnswer, Exit, Running
<1>2. \A v \in Workers : Position(v)
  BY <1>1 DEF Ahead
<1>3. \A k \in Keys : Newer(mem[r][k], k) /\ (file[k] # None => file[k].stamp <= now)
  BY <1>1 DEF Ahead
<1>4. \A v \in Workers \ {w} : Position(v)'
  <2>1. \A v \in Workers \ {w} : at'[r][v] = at[r][v] /\ host'[r][v] = host[r][v]
                                 /\ hand'[r][v] = hand[r][v]
    BY DEF Work, Hand, CheckPrevious, Resolve, CheckKnown, ShareKnown, Answer, LookupFails,
           StoreAnswer, Exit, Settle, IInv, TypeOK
  <2>2. QED
    BY <1>1, <1>2, <2>1 DEF Fresh, Newer
<1>5. Position(w)' /\ \A k \in Keys : Newer(mem[r][k], k)'
  <2>1. CASE Hand(r, w)
    BY <1>1, <1>3, <2>1 DEF Hand, IInv, TypeOK, Newer
  <2>2. CASE Exit(r, w)
    BY <1>1, <1>3, <2>2 DEF Exit, IInv, TypeOK, Newer
  <2>3. CASE CheckPrevious(r, w)
    <3>1. at'[r][w] \in {"wait", "resolve"} /\ mem' = mem
      BY <2>3 DEF CheckPrevious, Settle, IInv, TypeOK
    <3>2. at'[r][w] = "resolve" => ~Fresh(mem[r][host[r][w]]) /\ host'[r][w] = host[r][w]
      BY <2>3 DEF CheckPrevious, Settle, IInv, TypeOK
    <3>3. host[r][w] \in Keys
      BY <2>3 DEF CheckPrevious, Running, IInv, Owning, Busy, Steps, Keys
    <3>4. ~Fresh(mem[r][host[r][w]]) => ~Fresh(file[host[r][w]])
      <4>1. /\ file[host[r][w]] \in Entries \union {None}
            /\ mem[r][host[r][w]] \in Entries \union {None} /\ now \in Nat
        BY <3>3 DEF IInv, TypeOK
      <4>2. Newer(mem[r][host[r][w]], host[r][w])
        BY <1>3, <3>3
      <4>3. /\ file[host[r][w]] # None => file[host[r][w]].stamp \in Nat
            /\ mem[r][host[r][w]] # None => mem[r][host[r][w]].stamp \in Nat
        BY <4>1 DEF Entries
      <4>4. QED
        BY <4>1, <4>2, <4>3, MaxAgeNat DEF Fresh, Newer
    <3>5. QED
      BY <1>1, <1>3, <3>1, <3>2, <3>4 DEF Fresh, Newer
  <2>4. CASE Resolve(r, w)
    <3>1. at'[r][w] \in {"wait", "known"} /\ mem' = mem
      BY <2>4 DEF Resolve, Settle, IInv, TypeOK
    <3>2. at'[r][w] = "known" => at[r][w] = "resolve" /\ host'[r][w] = host[r][w]
      BY <2>4 DEF Resolve, Running, Settle, IInv, TypeOK
    <3>3. QED
      BY <1>1, <1>2, <1>3, <3>1, <3>2 DEF Fresh, Newer
  <2>5. CASE CheckKnown(r, w)
    <3> DEFINE known == mem[r][ip[r][w]]
               h == host[r][w]
    <3>1. at[r][w] = "known" /\ host' = host /\ mem' = mem
      BY <2>5 DEF CheckKnown, Running
    <3>2. h \in Keys /\ ip[r][w] \in Keys
      BY <3>1, Addressed
    <3>3. CASE Fresh(known) /\ hand' = [hand EXCEPT ![r][w] = known]
                 /\ at' = [at EXCEPT ![r][w] = "share"]
      <4>1. ~Fresh(file[h])
        BY <1>2, <3>1
      <4>2. /\ known \in Entries \union {None} /\ file[h] \in Entries \union {None}
            /\ now \in Nat
        BY <3>2 DEF IInv, TypeOK
      <4>3. Newer(known, h)
        <5>1. /\ known # None => known.stamp \in Nat
              /\ file[h] # None => file[h].stamp \in Nat
          BY <4>2 DEF Entries
        <5>2. QED
          BY <3>3, <4>1, <4>2, <5>1, MaxAgeNat DEF Fresh, Newer
      <4>4. at'[r][w] = "share" /\ hand'[r][w] = known
        BY <3>3 DEF IInv, TypeOK
      <4>5. QED
        BY <1>1, <1>3, <3>1, <4>1, <4>3, <4>4 DEF Fresh, Newer
    <3>4. CASE at' = [at EXCEPT ![r][w] = "lookup"]
      <4>1. at'[r][w] = "lookup"
        BY <3>4 DEF IInv, TypeOK
      <4>2. QED
        BY <1>1, <1>2, <1>3, <3>1, <4>1 DEF Fresh, Newer
    <3>5. QED
      BY <2>5, <3>3, <3>4 DEF CheckKnown
  <2>6. CASE Answer(r, w)
    <3> DEFINE e == [ip |-> ip[r][w], stamp |-> now]
    <3>1. /\ at[r][w] = "lookup" /\ at'[r][w] = "store" /\ hand'[r][w] = e
          /\ host' = host /\ mem' = mem
      BY <2>6 DEF Answer, Running, IInv, TypeOK
    <3>2. e # None /\ e.stamp = now
      <4>1. ip[r][w] \in Ips /\ now \in Nat
        BY <3>1, Addressed DEF IInv, TypeOK
      <4>2. e \in Entries
        BY <4>1 DEF Entries
      <4>3. QED
        BY <4>2, RefreshAssumption
    <3>3. \A k \in Keys : Newer(e, k)
      <4>1. \A k \in Keys : file[k] # None => file[k].stamp \in Nat
        BY DEF IInv, TypeOK, Entries
      <4>2. QED
        BY <1>3, <3>2, <4>1 DEF Newer, IInv, TypeOK
    <3>4. QED
      BY <1>1, <1>2, <1>3, <3>1, <3>3 DEF Fresh, Newer
  <2>7. CASE LookupFails(r, w)
    BY <1>1, <1>3, <2>7 DEF LookupFails, Settle, IInv, TypeOK, Newer
  <2>8. CASE ShareKnown(r, w)
    <3>1. /\ at[r][w] = "share" /\ at'[r][w] = "wait"
          /\ mem' = [mem EXCEPT ![r][host[r][w]] = hand[r][w]]
      BY <2>8 DEF ShareKnown, Running, Settle, IInv, TypeOK
    <3>2. \A k \in Keys : mem'[r][k] = mem[r][k] \/ (k = host[r][w] /\ mem'[r][k] = hand[r][w])
      BY <3>1, Addressed DEF IInv, TypeOK
    <3>3. Newer(hand[r][w], host[r][w])
      BY <1>2, <3>1
    <3>4. QED
      BY <1>1, <1>3, <3>1, <3>2, <3>3 DEF Newer
  <2>9. CASE StoreAnswer(r, w)
    <3>1. /\ at[r][w] = "store" /\ at'[r][w] = "wait"
          /\ mem' = [mem EXCEPT ![r][host[r][w]] = hand[r][w], ![r][ip[r][w]] = hand[r][w]]
      BY <2>9 DEF StoreAnswer, Running, Settle, IInv, TypeOK
    <3>2. \A k \in Keys : mem'[r][k] = mem[r][k] \/ mem'[r][k] = hand[r][w]
      BY <3>1, Addressed DEF IInv, TypeOK
    <3>3. \A k \in Keys : Newer(hand[r][w], k)
      BY <1>2, <3>1
    <3>4. QED
      BY <1>1, <1>3, <3>1, <3>2, <3>3 DEF Newer
  <2>10. QED
    BY <2>1, <2>2, <2>3, <2>4, <2>5, <2>6, <2>7, <2>8, <2>9 DEF Work
<1>6. \A v \in Workers : Position(v)'
  BY <1>4, <1>5
<1>7. QED
  BY <1>1, <1>3, <1>5, <1>6 DEF Ahead

(* The file when there is one run: it changes when that run writes it.       *)
LEMMA AheadStep ==
  ASSUME NEW r, Runs = {r}, IInv, [Next]_vars, Ahead(r)
  PROVE  /\ Ahead(r)'
         /\ \A k \in Keys : file[k] # None =>
                file'[k] # None /\ file'[k].stamp >= file[k].stamp
<1>0. r \in Runs
  OBVIOUS
<1>1. \A k \in Keys : file[k] # None => file[k].stamp \in Nat
  BY DEF IInv, TypeOK, Entries
<1>2. CASE \E w \in Workers : Work(r, w)
  <2>1. UNCHANGED file
    BY <1>2 DEF Work, Hand, CheckPrevious, Resolve, CheckKnown, ShareKnown, Answer,
                LookupFails, StoreAnswer, Exit
  <2>2. QED
    BY <1>0, <1>1, <1>2, <2>1, AheadWork
<1>3. CASE ReadCache(r)
  <2>1. /\ phase[r] = "idle" /\ phase'[r] = "refresh" /\ mem'[r] = file
        /\ UNCHANGED <<now, file, worker>>
    BY <1>0, <1>3 DEF ReadCache, IInv, TypeOK
  <2>2. \A w \in Workers : at'[r][w] = "wait"
    BY <2>1 DEF Ahead, worker
  <2>3. \A k \in Keys : file[k] # None => file[k].stamp <= now
    BY <2>1 DEF Ahead
  <2>4. QED
    BY <1>1, <2>1, <2>2, <2>3 DEF Ahead, Newer
<1>4. CASE WriteCache(r)
  <2>1. /\ phase[r] = "write" /\ phase'[r] = "done" /\ file' \in {file, mem[r]}
    BY <1>0, <1>4 DEF WriteCache, IInv, TypeOK
  <2>2. \A k \in Keys : Newer(mem[r][k], k)
    BY <2>1 DEF Ahead
  <2>3. Ahead(r)'
    BY <2>1 DEF Ahead
  <2>4. QED
    BY <1>1, <2>1, <2>2, <2>3 DEF Newer
<1>5. CASE Refuse(r) \/ Kill(r)
  <2>1. phase'[r] \in {"refused", "killed"} /\ UNCHANGED file
    BY <1>0, <1>5 DEF Refuse, Kill, IInv, TypeOK
  <2>2. QED
    BY <1>1, <2>1 DEF Ahead
<1>6. CASE CloseJobs(r) \/ Expire(r) \/ UNCHANGED vars
  <2>1. UNCHANGED <<now, file, phase, mem, worker>>
    BY <1>6 DEF CloseJobs, Expire, vars
  <2>2. QED
    BY <1>1, <2>1 DEF Ahead, Newer, Fresh, worker
<1>7. CASE Return(r)
  <2>1. phase[r] = "refresh" /\ phase'[r] = "write" /\ UNCHANGED <<now, file, mem>>
    BY <1>0, <1>7 DEF Return, IInv, TypeOK
  <2>2. QED
    BY <1>1, <2>1 DEF Ahead, Newer
<1>8. CASE Tick
  <2>1. now' = now + 1 /\ now \in Nat /\ UNCHANGED <<file, phase, mem, worker>>
    BY <1>8 DEF Tick, IInv, TypeOK
  <2>2. ASSUME NEW w \in Workers,
               at[r][w] \in {"resolve", "known", "share", "lookup", "store"},
               ~Fresh(file[host[r][w]])
        PROVE  ~Fresh(file[host[r][w]])'
    <3>1. host[r][w] \in Keys
      BY <1>0, <2>2 DEF IInv, Owning, Busy, Steps, Keys
    <3>2. file[host[r][w]] \in Entries \union {None}
      BY <3>1 DEF IInv, TypeOK
    <3>3. QED
      BY <2>1, <2>2, <3>2, RefreshAssumption DEF Fresh, Entries, worker
  <2>3. \A k \in Keys : file[k] # None /\ file[k].stamp <= now => file[k].stamp <= now'
    BY <1>1, <2>1
  <2>4. QED
    BY <1>1, <2>1, <2>2, <2>3 DEF Ahead, Newer, worker
<1>9. QED
  BY <1>2, <1>3, <1>4, <1>5, <1>6, <1>7, <1>8 DEF Next

(* As long as one run at a time uses the cache file, it never loses metadata *)
(* and never goes back to an older lookup, whatever fails.                   *)
THEOREM Retained ==
  ASSUME NEW r, Runs = {r}
  PROVE  Spec => MetadataRetained
<1>1. Init => Ahead(r)
  <2> SUFFICES ASSUME Init PROVE Ahead(r)
    OBVIOUS
  <2>1. \A k \in Keys : file[k] # None => file[k].stamp \in 0..Start
    BY DEF Init
  <2>2. QED
    BY <2>1 DEF Init, Ahead
<1>2. IInv /\ Ahead(r) /\ [Next]_vars =>
        Ahead(r)' /\ [\A k \in Keys : file[k] # None =>
                         file'[k] # None /\ file'[k].stamp >= file[k].stamp]_vars
  BY AheadStep
<1>3. QED
  BY <1>1, <1>2, Invariance, PTL DEF Spec, MetadataRetained
==============================================================================
