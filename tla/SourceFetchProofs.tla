-------------------------- MODULE SourceFetchProofs --------------------------
(***************************************************************************)
(* Proofs about SourceFetch for any finite set of subscriptions, with or   *)
(* without a template, any URLs, any bodies and any number of builds,      *)
(* deadlines and kills.                                                    *)
(***************************************************************************)
EXTENDS SourceFetch, FiniteSetTheorems, SequenceTheorems, TLAPS

Accepted(s, g) == \A i \in 1..Len(g) : g[i] \in Accepts[Kind[s]]

(* What a source has loaded so far: a prefix of its URLs, all accepted. *)
Progress(s) ==
    /\ Len(got[s]) <= Len(UrlsOf[s])
    /\ Accepted(s, got[s])
    /\ pc[s] \in {"off", "queued", "open", "done"} => got[s] = <<>>
    /\ pc[s] \in {"request", "compat", "store", "cached"} =>
           Len(got[s]) # Len(UrlsOf[s])
    /\ pc[s] = "finish" => Len(got[s]) = Len(UrlsOf[s])
    /\ pc[s] = "store" => body[s] \in Accepts[Kind[s]]

(* What it leaves in results. *)
Delivered(s) ==
    /\ pc[s] = "done" <=> results[s].state # "none"
    /\ results[s].state = "ok" =>
           /\ Len(results[s].data) = Len(UrlsOf[s])
           /\ Accepted(s, results[s].data)

Holders == {s \in Subs : pc[s] \in Holding}

(* The template is loaded before the first goroutine exists, and never waits *)
(* for a slot; between builds nothing is left.                               *)
Stages ==
    /\ \A t \in Template : pc[t] # "queued"
    /\ phase = "template" => \A s \in Subs : pc[s] = "off"
    /\ phase = "loading" => \A t \in Template : pc[t] = "done"
    /\ phase = "idle" => \A s \in Sources : pc[s] \in {"off", "done"}

IInv ==
    /\ TypeOK
    /\ SlotsExact
    /\ \A s \in Sources : Progress(s) /\ Delivered(s)

-----------------------------------------------------------------------------
LEMMA Domains ==
  ASSUME NEW s \in Sources
  PROVE  /\ Kind[s] \in Kinds
         /\ Accepts[Kind[s]] \subseteq Bodies
         /\ UrlsOf[s] \in Seq(Urls)
         /\ Len(UrlsOf[s]) \in Nat
         /\ None \notin Accepts[Kind[s]]
BY FetchAssumption

(* The URL being loaded is one of the subscription's. *)
LEMMA UrlInRange ==
  ASSUME IInv, NEW s \in Sources, Len(got[s]) # Len(UrlsOf[s])
  PROVE  /\ Len(got[s]) + 1 \in 1..Len(UrlsOf[s])
         /\ Url(s) \in Urls
<1>1. Len(got[s]) \in Nat /\ Len(got[s]) <= Len(UrlsOf[s])
  BY DEF IInv, TypeOK, Progress
<1>2. Len(got[s]) + 1 \in 1..Len(UrlsOf[s])
  BY <1>1, Domains
<1>3. QED
  BY <1>2, Domains, ElementOfSeq DEF Url

(* One more accepted body. *)
LEMMA OneMore ==
  ASSUME NEW s \in Sources, NEW g \in Seq(Bodies), NEW b \in Bodies,
         Accepted(s, g), b \in Accepts[Kind[s]],
         Len(g) # Len(UrlsOf[s]), Len(g) <= Len(UrlsOf[s])
  PROVE  /\ Append(g, b) \in Seq(Bodies)
         /\ Len(Append(g, b)) <= Len(UrlsOf[s])
         /\ Accepted(s, Append(g, b))
<1>1. Len(g) \in Nat /\ Len(Append(g, b)) = Len(g) + 1
  BY AppendProperties, LenProperties
<1>2. \A i \in 1..Len(g) + 1 : Append(g, b)[i] = IF i <= Len(g) THEN g[i] ELSE b
  BY AppendProperties
<1>3. Accepted(s, Append(g, b))
  BY <1>1, <1>2 DEF Accepted
<1>4. QED
  BY <1>1, <1>3, Domains, AppendProperties

(* Going to the next URL keeps the invariants of every goroutine. *)
LEMMA NextUrlStep ==
  ASSUME IInv, NEW s \in Sources, NEW g \in Seq(Bodies),
         pc[s] \in Holding, Len(g) <= Len(UrlsOf[s]), Accepted(s, g),
         NextUrl(s, g), UNCHANGED <<results, slots>>
  PROVE  /\ pc' \in [Sources -> Locations] /\ attempt' \in [Sources -> 0..Retries]
         /\ body' \in [Sources -> Bodies \union {None}]
         /\ got' \in [Sources -> Seq(Bodies)] /\ trail' \in [Sources -> Seq(Outcomes)]
         /\ Holders' = Holders
         /\ \A t \in Sources : Progress(t)' /\ Delivered(t)'
<1> USE FetchAssumption
<1>1. pc'[s] \in {"finish", "cached", "request", "error"}
  BY DEF NextUrl, Goto, IInv, TypeOK
<1>2. /\ pc' = [pc EXCEPT ![s] = pc'[s]] /\ got' = [got EXCEPT ![s] = g]
      /\ body' = [body EXCEPT ![s] = None]
      /\ pc'[s] = "finish" => Len(g) = Len(UrlsOf[s])
      /\ pc'[s] \in {"cached", "request"} => Len(g) # Len(UrlsOf[s])
  BY DEF NextUrl, Goto, IInv, TypeOK
<1>3. /\ pc' \in [Sources -> Locations] /\ attempt' \in [Sources -> 0..Retries]
      /\ body' \in [Sources -> Bodies \union {None}]
      /\ got' \in [Sources -> Seq(Bodies)] /\ trail' \in [Sources -> Seq(Outcomes)]
  <2>1. pc' \in [Sources -> Locations]
    BY <1>1, <1>2 DEF IInv, TypeOK, Locations
  <2>2. 0 \in 0..Retries /\ <<>> \in Seq(Outcomes)
    BY EmptySeq
  <2>3. QED
    BY <2>1, <2>2 DEF NextUrl, IInv, TypeOK
<1>4. Holders' = Holders
  BY <1>1, <1>2 DEF Holders, IInv, TypeOK, Holding, Sources
<1>5. \A t \in Sources : Progress(t)' /\ Delivered(t)'
  <2> SUFFICES ASSUME NEW t \in Sources PROVE Progress(t)' /\ Delivered(t)'
    OBVIOUS
  <2>1. CASE t = s
    BY <1>1, <1>2, <2>1 DEF IInv, TypeOK, Progress, Delivered, Accepted, Holding
  <2>2. CASE t # s
    BY <1>2, <2>2 DEF IInv, TypeOK, Progress, Delivered, Accepted
  <2>3. QED
    BY <2>1, <2>2
<1>6. QED
  BY <1>3, <1>4, <1>5

-----------------------------------------------------------------------------
(* A step that moves goroutines only within loadOne leaves the count alone. *)
LEMMA SameHolders ==
  ASSUME SlotsExact, Holders' = Holders, slots' = slots PROVE SlotsExact'
BY DEF SlotsExact, Holders

LEMMA InitIInv == Init => IInv
<1> SUFFICES ASSUME Init PROVE IInv
  OBVIOUS
<1>1. TypeOK
  <2>1. /\ NoResult \in Results /\ <<>> \in Seq(Bodies) /\ <<>> \in Seq(Outcomes)
        /\ 0 \in 0..Retries /\ 0 \in 0..Concurrency
    BY FetchAssumption, EmptySeq DEF NoResult, Results
  <2>2. QED
    BY <2>1 DEF Init, TypeOK, Locations
<1>2. Holders = {}
  BY DEF Init, Holders, Holding, Sources
<1>3. SlotsExact
  BY <1>2, FS_EmptySet DEF Init, SlotsExact, Holders
<1>4. \A s \in Sources : Progress(s) /\ Delivered(s)
  BY Domains, EmptySeq DEF Init, Progress, Delivered, Accepted, NoResult
<1>5. QED
  BY <1>1, <1>3, <1>4 DEF IInv

(* The steps of one request: only pc, attempt, body and trail change. *)
LEMMA RequestStep ==
  ASSUME IInv, NEW s \in Sources,
         \/ Receive(s) \/ RequestError(s) \/ Rejected(s) \/ CompatError(s)
         \/ CompatRejected(s)
  PROVE  IInv'
<1> USE FetchAssumption
<1>1. /\ pc[s] \in {"request", "compat"}
      /\ pc' = [pc EXCEPT ![s] = pc'[s]]
      /\ pc'[s] \in {"request", "compat", "store", "cached"}
      /\ UNCHANGED <<phase, offline, expired, slots, got, results, cache, held>>
  BY DEF Receive, RequestError, Rejected, CompatError, CompatRejected, Again,
         Goto, IInv, TypeOK
<1>2. pc' \in [Sources -> Locations]
  BY <1>1 DEF IInv, TypeOK, Locations
<1>3. attempt' \in [Sources -> 0..Retries]
  BY DEF Receive, RequestError, Rejected, CompatError, CompatRejected, Again,
         IInv, TypeOK
<1>4. /\ body' \in [Sources -> Bodies \union {None}]
      /\ \A t \in Sources : t # s => body'[t] = body[t]
      /\ pc'[s] = "store" => body'[s] \in Accepts[Kind[s]]
  <2>1. CASE Receive(s)
    BY <2>1 DEF Receive, Goto, Usable, IInv, TypeOK
  <2>2. CASE ~Receive(s)
    BY <2>2 DEF RequestError, Rejected, CompatError, CompatRejected, Again,
                Goto, IInv, TypeOK
  <2>3. QED
    BY <2>1, <2>2
<1>5. trail' \in [Sources -> Seq(Outcomes)]
  <2>1. UNCHANGED trail \/ \E o \in Outcomes : Note(s, o)
    BY DEF Receive, RequestError, Rejected, CompatError, CompatRejected, Outcomes
  <2>2. ASSUME NEW o \in Outcomes, Note(s, o) PROVE trail' \in [Sources -> Seq(Outcomes)]
    <3>1. trail[s] \in Seq(Outcomes) /\ trail \in [Sources -> Seq(Outcomes)]
      BY DEF IInv, TypeOK
    <3>2. Append(trail[s], o) \in Seq(Outcomes)
      BY <3>1, AppendProperties
    <3>3. PICK t \in Seq(Outcomes) : trail' = [trail EXCEPT ![s] = t]
      BY <2>2, <3>2 DEF Note
    <3>4. QED
      BY <3>1, <3>3
  <2>3. QED
    BY <2>1, <2>2 DEF IInv, TypeOK
<1>6. TypeOK'
  BY <1>1, <1>2, <1>3, <1>4, <1>5 DEF IInv, TypeOK
<1>7. Holders' = Holders
  BY <1>1 DEF Holders, IInv, TypeOK, Holding, Sources
<1>8. \A t \in Sources : Progress(t)' /\ Delivered(t)'
  BY <1>1, <1>4 DEF IInv, TypeOK, Progress, Delivered, Accepted
<1>9. QED
  BY <1>1, <1>6, <1>7, <1>8, SameHolders DEF IInv

(* The steps that go to the next URL, or give the subscription up. *)
LEMMA AdvanceStep ==
  ASSUME IInv, NEW s \in Sources,
         Open(s) \/ Store(s) \/ ReadCached(s) \/ CacheUnreadable(s)
  PROVE  IInv'
<1> USE FetchAssumption
<1>1. pc[s] \in Holding /\ UNCHANGED <<phase, offline, expired, slots, results>>
  BY DEF Open, Store, ReadCached, CacheUnreadable, Holding
<1>2. cache' \in [Urls -> Bodies \union {None}] /\ held' \in [Kinds -> [Urls -> BOOLEAN]]
  <2>1. CASE UNCHANGED <<cache, held>>
    BY <2>1 DEF IInv, TypeOK
  <2>2. CASE Store(s)
    <3>1. body[s] \in Bodies /\ Kind[s] \in Kinds /\ Url(s) \in Urls
      BY <2>2, UrlInRange, Domains DEF Store, IInv, TypeOK, Progress
    <3>2. CASE cache' = [cache EXCEPT ![Url(s)] = body[s]]
               /\ held' = [held EXCEPT ![Kind[s]][Url(s)] = TRUE]
      BY <3>1, <3>2 DEF IInv, TypeOK
    <3>3. QED
      BY <2>1, <2>2, <3>2 DEF Store
  <2>3. QED
    BY <2>1, <2>2 DEF Open, ReadCached, CacheUnreadable
<1>3. CASE Goto(s, "error") /\ UNCHANGED <<attempt, body, got, trail>>
  <2>1. Holders' = Holders
    BY <1>1, <1>3 DEF Goto, Holders, IInv, TypeOK, Holding, Sources
  <2>2. TypeOK'
    BY <1>1, <1>2, <1>3 DEF Goto, IInv, TypeOK, Locations
  <2>3. \A t \in Sources : Progress(t)' /\ Delivered(t)'
    BY <1>1, <1>3 DEF Goto, IInv, TypeOK, Progress, Delivered, Accepted, Holding
  <2>4. QED
    BY <1>1, <2>1, <2>2, <2>3, SameHolders DEF IInv
<1>4. ASSUME NEW g \in Seq(Bodies), Len(g) <= Len(UrlsOf[s]), Accepted(s, g),
             NextUrl(s, g)
      PROVE  IInv'
  <2>1. /\ pc' \in [Sources -> Locations] /\ attempt' \in [Sources -> 0..Retries]
        /\ body' \in [Sources -> Bodies \union {None}]
        /\ got' \in [Sources -> Seq(Bodies)] /\ trail' \in [Sources -> Seq(Outcomes)]
        /\ Holders' = Holders
        /\ \A t \in Sources : Progress(t)' /\ Delivered(t)'
    BY <1>1, <1>4, NextUrlStep
  <2>2. TypeOK'
    BY <1>1, <1>2, <2>1 DEF IInv, TypeOK
  <2>3. QED
    BY <1>1, <2>1, <2>2, SameHolders DEF IInv
<1>5. CASE Open(s)
  <2>1. <<>> \in Seq(Bodies) /\ Len(<<>>) <= Len(UrlsOf[s]) /\ Accepted(s, <<>>)
    BY Domains, EmptySeq DEF Accepted
  <2>2. QED
    BY <1>3, <1>4, <1>5, <2>1 DEF Open
<1>6. CASE Store(s)
  <2>1. /\ Len(got[s]) # Len(UrlsOf[s]) /\ Len(got[s]) <= Len(UrlsOf[s])
        /\ Accepted(s, got[s]) /\ got[s] \in Seq(Bodies)
        /\ body[s] \in Accepts[Kind[s]] /\ body[s] \in Bodies
    BY <1>6, Domains DEF Store, IInv, TypeOK, Progress
  <2>2. QED
    BY <1>4, <1>6, <2>1, OneMore DEF Store
<1>7. CASE ReadCached(s)
  <2>1. /\ Len(got[s]) # Len(UrlsOf[s]) /\ Len(got[s]) <= Len(UrlsOf[s])
        /\ Accepted(s, got[s]) /\ got[s] \in Seq(Bodies)
    BY <1>7 DEF ReadCached, IInv, TypeOK, Progress
  <2>2. Usable(s, cache[Url(s)]) =>
          cache[Url(s)] \in Accepts[Kind[s]] /\ cache[Url(s)] \in Bodies
    BY Domains DEF Usable
  <2>3. CASE Usable(s, cache[Url(s)]) /\ NextUrl(s, Append(got[s], cache[Url(s)]))
    BY <1>4, <2>1, <2>2, <2>3, OneMore
  <2>4. QED
    BY <1>3, <1>7, <2>3 DEF ReadCached
<1>8. CASE CacheUnreadable(s)
  BY <1>3, <1>8 DEF CacheUnreadable
<1>9. QED
  BY <1>5, <1>6, <1>7, <1>8

(* A goroutine takes a token: one more holder. *)
LEMMA AcquireStep == ASSUME IInv, Stages, NEW s \in Sources, Acquire(s) PROVE IInv'
<1>1. TypeOK'
  BY FetchAssumption DEF Acquire, Goto, IInv, TypeOK, Locations
<1>2. s \in Subs
  BY DEF Acquire, Stages, Sources
<1>3. Holders' = Holders \union {s} /\ s \notin Holders
  BY <1>2 DEF Acquire, Goto, Holders, Holding, IInv, TypeOK
<1>4. IsFiniteSet(Holders)
  BY FetchAssumption, FS_Subset DEF Holders
<1>5. SlotsExact'
  BY <1>3, <1>4, FS_AddElement DEF Acquire, SlotsExact, Holders, IInv
<1>6. \A t \in Sources : Progress(t)' /\ Delivered(t)'
  BY DEF Acquire, Goto, IInv, TypeOK, Progress, Delivered, Accepted
<1>7. QED
  BY <1>1, <1>5, <1>6 DEF IInv

(* A source delivers its result; a goroutine gives its token back. *)
LEMMA FinishStep == ASSUME IInv, NEW s \in Sources, Finish(s) PROVE IInv'
<1>1. SlotsExact' /\ slots' \in 0..Concurrency
  <2>1. CASE s \in Subs
    <3>1. Holders' = Holders \ {s} /\ s \in Holders
      BY <2>1 DEF Finish, Goto, Holders, Holding, IInv, TypeOK
    <3>2. IsFiniteSet(Holders)
      BY FetchAssumption, FS_Subset DEF Holders
    <3>3. Cardinality(Holders) \in Nat /\ Cardinality(Holders) = slots
      BY <3>2, FS_CardinalityType DEF IInv, SlotsExact, Holders
    <3>4. Cardinality(Holders') = slots - 1 /\ slots # 0
      BY <3>1, <3>2, <3>3, FS_RemoveElement, FS_EmptySet
    <3>5. slots' = slots - 1
      BY <2>1 DEF Finish, GivesBack
    <3>6. QED
      BY <3>4, <3>5, FetchAssumption DEF SlotsExact, Holders, IInv, TypeOK
  <2>2. CASE s \notin Subs
    <3>1. Holders' = Holders /\ slots' = slots
      BY <2>2 DEF Finish, Goto, GivesBack, Holders, IInv, TypeOK
    <3>2. QED
      BY <3>1, SameHolders DEF IInv, TypeOK
  <2>3. QED
    BY <2>1, <2>2
<1>6. TypeOK'
  <2>1. /\ Failed \in Results /\ [state |-> "ok", data |-> got[s]] \in Results
        /\ <<>> \in Seq(Bodies) /\ <<>> \in Seq(Outcomes) /\ 0 \in 0..Retries
    BY FetchAssumption, EmptySeq DEF Failed, Results, IInv, TypeOK
  <2>2. results' \in [Sources -> Results]
    BY <2>1 DEF Finish, IInv, TypeOK
  <2>3. QED
    BY <1>1, <2>1, <2>2 DEF Finish, Goto, IInv, TypeOK, Locations
<1>7. ASSUME NEW t \in Sources PROVE Progress(t)' /\ Delivered(t)'
  <2>1. CASE t = s
    <3>1. got'[s] = <<>> /\ pc'[s] = "done"
      BY DEF Finish, Goto, IInv, TypeOK
    <3>2. Progress(s)'
      BY <3>1, Domains, EmptySeq DEF Progress, Accepted
    <3>3. CASE pc[s] = "finish"
      <4>1. results'[s] = [state |-> "ok", data |-> got[s]]
        BY <3>3 DEF Finish, IInv, TypeOK
      <4>2. QED
        BY <2>1, <3>1, <3>2, <3>3, <4>1 DEF Delivered, IInv, Progress, Accepted
    <3>4. CASE pc[s] = "error"
      <4>1. results'[s] = Failed
        BY <3>4 DEF Finish, IInv, TypeOK
      <4>2. QED
        BY <2>1, <3>1, <3>2, <4>1 DEF Delivered, Failed
    <3>5. QED
      BY <3>3, <3>4 DEF Finish
  <2>2. CASE t # s
    BY <2>2 DEF Finish, Goto, IInv, TypeOK, Progress, Delivered, Accepted
  <2>3. QED
    BY <2>1, <2>2
<1>8. QED
  BY <1>1, <1>6, <1>7 DEF IInv

(* A build starts, goes on to its subscriptions, returns, runs out of time   *)
(* or is killed.                                                             *)
LEMMA BuildStep ==
  ASSUME IInv, Stages,
         \/ \E off \in BOOLEAN : StartBuild(off)
         \/ StartSubscriptions \/ TemplateFails \/ Return \/ Expire \/ Kill
  PROVE  IInv'
<1>1. /\ NoResult \in Results /\ <<>> \in Seq(Bodies) /\ <<>> \in Seq(Outcomes)
      /\ 0 \in 0..Retries /\ 0 \in 0..Concurrency
  BY FetchAssumption, EmptySeq DEF NoResult, Results
<1>2. CASE TemplateFails \/ Return \/ Expire
  <2>1. TypeOK'
    BY <1>2 DEF TemplateFails, Return, Expire, IInv, TypeOK
  <2>2. UNCHANGED <<slots, pc, got, body, results>>
    BY <1>2 DEF TemplateFails, Return, Expire
  <2>3. SlotsExact' /\ \A s \in Sources : Progress(s)' /\ Delivered(s)'
    BY <2>2 DEF IInv, SlotsExact, Progress, Delivered, Accepted
  <2>4. QED
    BY <2>1, <2>3 DEF IInv
<1>3. ASSUME NEW off \in BOOLEAN, StartBuild(off) PROVE IInv'
  <2>1. TypeOK'
    BY <1>1, <1>3 DEF StartBuild, IInv, TypeOK, Locations
  <2>2. \A s \in Subs : s \notin Template /\ s \in Sources
    BY FetchAssumption DEF Sources
  <2>3. Holders = {} /\ Holders' = {}
    BY <1>3, <2>2 DEF StartBuild, Stages, Holders, Holding
  <2>4. SlotsExact'
    BY <1>3, <2>3 DEF StartBuild, IInv, SlotsExact, Holders
  <2>5. ASSUME NEW s \in Sources PROVE Progress(s)' /\ Delivered(s)'
    <3>1. pc'[s] \in {"off", "open"} /\ results'[s] = NoResult /\ got'[s] = got[s]
      BY <1>3 DEF StartBuild
    <3>2. got[s] = <<>>
      BY <1>3 DEF StartBuild, Stages, IInv, Progress
    <3>3. Progress(s)'
      BY <3>1, <3>2, Domains, EmptySeq DEF Progress, Accepted
    <3>4. QED
      BY <3>1, <3>3 DEF Delivered, NoResult
  <2>6. QED
    BY <2>1, <2>4, <2>5 DEF IInv
<1>4. CASE StartSubscriptions
  <2>1. TypeOK'
    BY <1>1, <1>4 DEF StartSubscriptions, IInv, TypeOK, Locations
  <2>2. Holders' = {}
    BY <1>4 DEF StartSubscriptions, Holders, Holding, Sources
  <2>3. SlotsExact'
    BY <1>4, <2>2, FS_EmptySet DEF StartSubscriptions, SlotsExact, Holders
  <2>4. ASSUME NEW s \in Sources PROVE Progress(s)' /\ Delivered(s)'
    <3>1. CASE s \in Subs
      <4>1. pc[s] = "off" /\ pc'[s] = "queued" /\ UNCHANGED <<got, results>>
        BY <1>4, <3>1 DEF StartSubscriptions, Stages
      <4>2. QED
        BY <4>1 DEF IInv, Progress, Delivered, Accepted
    <3>2. CASE s \notin Subs
      <4>1. pc'[s] = pc[s] /\ UNCHANGED <<got, results, body>>
        BY <1>4, <3>2 DEF StartSubscriptions
      <4>2. QED
        BY <4>1 DEF IInv, Progress, Delivered, Accepted
    <3>3. QED
      BY <3>1, <3>2
  <2>5. QED
    BY <2>1, <2>3, <2>4 DEF IInv
<1>5. CASE Kill
  <2>1. TypeOK'
    BY <1>1, <1>5 DEF Kill, IInv, TypeOK, Locations
  <2>2. Holders' = {}
    BY <1>5 DEF Kill, Holders, Holding, Sources
  <2>3. SlotsExact'
    BY <1>5, <2>2, FS_EmptySet DEF Kill, SlotsExact, Holders
  <2>4. \A s \in Sources : Progress(s)' /\ Delivered(s)'
    BY <1>5, Domains, EmptySeq DEF Kill, Progress, Delivered, Accepted, NoResult
  <2>5. QED
    BY <2>1, <2>3, <2>4 DEF IInv
<1>6. QED
  BY <1>2, <1>3, <1>4, <1>5

-----------------------------------------------------------------------------
(* A source that moves was already moving, and can only move on. *)
LEMMA LoadKeepsStages ==
  ASSUME IInv, Stages, NEW s \in Sources, Load(s) PROVE Stages'
<1>1. /\ pc[s] \notin {"off", "done"} /\ phase' = phase
      /\ pc' = [pc EXCEPT ![s] = pc'[s]] /\ pc'[s] # "queued"
  <2>1. CASE Open(s) \/ Store(s) \/ ReadCached(s)
    <3>1. PICK l : l # "queued" /\ Goto(s, l)
      BY <2>1 DEF Open, Store, ReadCached, NextUrl
    <3>2. QED
      BY <2>1, <3>1 DEF Open, Store, ReadCached, Goto, IInv, TypeOK
  <2>2. CASE ~(Open(s) \/ Store(s) \/ ReadCached(s))
    BY <2>2 DEF Load, Acquire, Receive, RequestError, Rejected, CompatError,
                CompatRejected, CacheUnreadable, Finish, Again, Goto, IInv, TypeOK
  <2>3. QED
    BY <2>1, <2>2
<1>2. phase # "idle" /\ (phase = "template" => s \notin Subs)
      /\ (phase = "loading" => s \notin Template)
  BY <1>1 DEF Stages
<1>3. QED
  BY <1>1, <1>2 DEF Stages, Sources, IInv, TypeOK

LEMMA StagesStep == ASSUME IInv, Stages, [Next]_vars PROVE Stages'
<1>1. ASSUME NEW off \in BOOLEAN, StartBuild(off) PROVE Stages'
  BY <1>1, FetchAssumption DEF StartBuild, Stages, Sources
<1>2. CASE StartSubscriptions
  <2>1. \A t \in Template : t \in Sources /\ t \notin Subs /\ pc[t] = "done"
    BY <1>2, FetchAssumption DEF StartSubscriptions, IInv, Delivered, Sources
  <2>2. QED
    BY <1>2, <2>1 DEF StartSubscriptions, Stages
<1>3. CASE TemplateFails
  <2>1. \A t \in Template : pc[t] = "done"
    BY <1>3, FetchAssumption DEF TemplateFails, IInv, Delivered, Sources
  <2>2. QED
    BY <1>3, <2>1 DEF TemplateFails, Stages, Sources
<1>4. CASE Return \/ Expire \/ Kill
  BY <1>4 DEF Return, Expire, Kill, Stages, Sources
<1>5. CASE UNCHANGED vars
  BY <1>5 DEF vars, Stages
<1>6. QED
  BY <1>1, <1>2, <1>3, <1>4, <1>5, LoadKeepsStages DEF Next

LEMMA StepIInv == ASSUME IInv, Stages, [Next]_vars PROVE IInv'
<1>1. ASSUME NEW s \in Sources, Load(s) PROVE IInv'
  BY <1>1, AcquireStep, RequestStep, AdvanceStep, FinishStep DEF Load
<1>2. CASE \/ \E off \in BOOLEAN : StartBuild(off)
           \/ StartSubscriptions \/ TemplateFails \/ Return \/ Expire \/ Kill
  BY <1>2, BuildStep
<1>3. CASE UNCHANGED vars
  <2>1. TypeOK'
    BY <1>3 DEF vars, IInv, TypeOK
  <2>2. SlotsExact' /\ \A s \in Sources : Progress(s)' /\ Delivered(s)'
    BY <1>3 DEF vars, IInv, SlotsExact, Progress, Delivered, Accepted
  <2>3. QED
    BY <2>1, <2>2 DEF IInv
<1>4. QED
  BY <1>1, <1>2, <1>3 DEF Next

LEMMA Inductive == Spec => [](IInv /\ Stages)
<1>1. Init => Stages
  BY DEF Init, Stages, Sources
<1>2. IInv /\ Stages /\ [Next]_vars => IInv' /\ Stages'
  BY StepIInv, StagesStep
<1>3. QED
  BY <1>1, <1>2, InitIInv, PTL DEF Spec

-----------------------------------------------------------------------------
(* Type correctness, the bounds of the semaphore and of the retry loop       *)
(* included.                                                                 *)
THEOREM Typing == Spec => []TypeOK
<1>1. IInv => TypeOK
  BY DEF IInv
<1>2. QED
  BY <1>1, Inductive, PTL

(* The semaphore of LoadSubscriptions neither leaks nor forges a token, so   *)
(* at most fetch.concurrency goroutines are ever inside loadOne.             *)
THEOREM Semaphore == Spec => [](SlotsExact /\ slots <= Concurrency)
<1>1. IInv => SlotsExact /\ slots <= Concurrency
  BY FetchAssumption DEF IInv, TypeOK
<1>2. QED
  BY <1>1, Inductive, PTL

(* Whatever LoadSubscriptions returns as loaded is complete and was accepted *)
(* by the validator of its own subscription.                                 *)
THEOREM Complete == Spec => []ResultsComplete
<1>1. IInv => ResultsComplete
  BY DEF IInv, ResultsComplete, Delivered, Accepted
<1>2. QED
  BY <1>1, Inductive, PTL

(* The cache is only written by Store, and only with what the subscription's *)
(* validator accepted.                                                       *)
LEMMA CacheStep ==
  ASSUME IInv, [Next]_vars, NEW u \in Urls, cache'[u] # cache[u]
  PROVE  \E s \in Sources :
            /\ Store(s) /\ u = Url(s)
            /\ \E i \in 1..Len(UrlsOf[s]) : UrlsOf[s][i] = u
            /\ cache'[u] \in Accepts[Kind[s]]
<1>1. PICK s \in Sources : Store(s)
  BY DEF Next, Load, StartBuild, StartSubscriptions, TemplateFails, Return, Expire,
         Kill, Acquire, Open, Receive,
         RequestError, Rejected, CompatError, CompatRejected, ReadCached,
         CacheUnreadable, Finish, vars
<1>2. cache' = [cache EXCEPT ![Url(s)] = body[s]]
  BY <1>1 DEF Store
<1>3. u = Url(s) /\ cache'[u] = body[s]
  BY <1>2 DEF IInv, TypeOK
<1>4. body[s] \in Accepts[Kind[s]] /\ Len(got[s]) # Len(UrlsOf[s])
  BY <1>1 DEF Store, IInv, Progress
<1>5. Len(got[s]) + 1 \in 1..Len(UrlsOf[s])
  BY <1>4, UrlInRange
<1>6. QED
  BY <1>1, <1>3, <1>4, <1>5 DEF Url

(* A cache file is only ever replaced by a body its source accepts.          *)
THEOREM CacheSafety == Spec => CacheAccepted
<1>1. IInv /\ [Next]_vars =>
        [\A u \in Urls : cache'[u] # cache[u] =>
           \E s \in Sources : /\ \E i \in 1..Len(UrlsOf[s]) : UrlsOf[s][i] = u
                           /\ cache'[u] \in Accepts[Kind[s]]]_vars
  BY CacheStep
<1>2. QED
  BY <1>1, Inductive, PTL DEF CacheAccepted, Spec

-----------------------------------------------------------------------------
(* The URLs that sources of kind k load. *)
Loads(k, u) == \E s \in Sources : Kind[s] = k /\ \E i \in 1..Len(UrlsOf[s]) : UrlsOf[s][i] = u

OneKindPerUrl == \A u \in Urls, j, k \in Kinds : Loads(j, u) /\ Loads(k, u) => j = k

(* The cache file of a URL that was once stored for a kind suits that kind.  *)
HeldInv == \A k \in Kinds, u \in Urls :
               held[k][u] => CacheOn /\ Loads(k, u) /\ cache[u] \in Accepts[k]

LEMMA HeldStep == ASSUME OneKindPerUrl, IInv, HeldInv, [Next]_vars PROVE HeldInv'
<1>1. CASE UNCHANGED held
  <2> SUFFICES ASSUME NEW k \in Kinds, NEW u \in Urls, held[k][u]
               PROVE  cache'[u] \in Accepts[k]
    BY <1>1 DEF HeldInv, Loads
  <2>1. CASE cache'[u] = cache[u]
    BY <2>1 DEF HeldInv
  <2>2. CASE cache'[u] # cache[u]
    <3>1. PICK s \in Sources : /\ \E i \in 1..Len(UrlsOf[s]) : UrlsOf[s][i] = u
                            /\ cache'[u] \in Accepts[Kind[s]]
      BY <2>2, CacheStep
    <3>2. Loads(Kind[s], u) /\ Loads(k, u) /\ Kind[s] \in Kinds
      BY <3>1, Domains DEF Loads, HeldInv
    <3>3. QED
      BY <3>1, <3>2 DEF OneKindPerUrl
  <2>3. QED
    BY <2>1, <2>2
<1>2. ASSUME NEW s \in Sources, Store(s), CacheOn,
             cache' = [cache EXCEPT ![Url(s)] = body[s]],
             held' = [held EXCEPT ![Kind[s]][Url(s)] = TRUE]
      PROVE  HeldInv'
  <2>1. /\ Kind[s] \in Kinds /\ Url(s) \in Urls
        /\ body[s] \in Accepts[Kind[s]] /\ Loads(Kind[s], Url(s))
    <3>1. Len(got[s]) # Len(UrlsOf[s]) /\ body[s] \in Accepts[Kind[s]]
      BY <1>2 DEF Store, IInv, Progress
    <3>2. QED
      BY <3>1, UrlInRange, Domains DEF Loads, Url
  <2>2. ASSUME NEW k \in Kinds, NEW u \in Urls, held'[k][u]
        PROVE  Loads(k, u) /\ cache'[u] \in Accepts[k]
    <3>1. CASE u = Url(s)
      <4>1. cache'[u] = body[s]
        BY <1>2, <2>1, <3>1 DEF IInv, TypeOK
      <4>2. k = Kind[s] \/ held[k][u]
        BY <1>2, <2>1, <2>2, <3>1 DEF IInv, TypeOK
      <4>3. k = Kind[s]
        BY <2>1, <3>1, <4>2 DEF HeldInv, OneKindPerUrl
      <4>4. QED
        BY <2>1, <3>1, <4>1, <4>3
    <3>2. CASE u # Url(s)
      <4>1. cache'[u] = cache[u] /\ held[k][u]
        BY <1>2, <2>1, <2>2, <3>2 DEF IInv, TypeOK
      <4>2. QED
        BY <4>1 DEF HeldInv
    <3>3. QED
      BY <3>1, <3>2
  <2>3. QED
    BY <1>2, <2>2 DEF HeldInv, Loads
<1>3. QED
  BY <1>1, <1>2
  DEF Next, Load, StartBuild, StartSubscriptions, TemplateFails, Return, Expire,
         Kill, Acquire, Open, Receive, Store,
      RequestError, Rejected, CompatError, CompatRejected, ReadCached,
      CacheUnreadable, Finish, vars

(* The promise of the source cache: once a response of a URL was accepted    *)
(* and stored, no later load of that URL fails as long as the file can be    *)
(* read, provided that sources of different kinds do not share a URL.        *)
THEOREM LastGood == ASSUME OneKindPerUrl PROVE Spec => LastGoodServes
<1>1. Init => HeldInv
  BY DEF Init, HeldInv
<1>2. IInv /\ HeldInv /\ [Next]_vars => HeldInv'
  BY HeldStep
<1>3. IInv /\ HeldInv /\ [Next]_vars =>
        [\A s \in Sources : ReadCached(s) /\ got' = got =>
           ~held[Kind[s]][Url(s)]]_vars
  <2> SUFFICES ASSUME IInv, HeldInv, NEW s \in Sources, ReadCached(s), got' = got,
                      held[Kind[s]][Url(s)]
               PROVE  FALSE
    OBVIOUS
  <2>1. Url(s) \in Urls /\ Kind[s] \in Kinds
    BY UrlInRange, Domains DEF ReadCached, IInv, Progress
  <2>2. Usable(s, cache[Url(s)])
    BY <2>1 DEF HeldInv, Usable
  <2>3. ~CacheOn
    <3>1. got \in [Sources -> Seq(Bodies)] /\ cache[Url(s)] \in Bodies
      BY <2>1, <2>2, Domains DEF Usable, IInv, TypeOK
    <3>2. Append(got[s], cache[Url(s)]) # got[s]
      <4>1. Len(Append(got[s], cache[Url(s)])) = Len(got[s]) + 1 /\ Len(got[s]) \in Nat
        BY <3>1, AppendProperties, LenProperties
      <4>2. QED
        BY <4>1
    <3>3. ~NextUrl(s, Append(got[s], cache[Url(s)]))
      BY <3>1, <3>2 DEF NextUrl
    <3>4. QED
      BY <2>2, <3>3 DEF ReadCached
  <2>4. QED
    BY <2>1, <2>3 DEF HeldInv
<1>4. QED
  BY <1>1, <1>2, <1>3, Inductive, PTL DEF LastGoodServes, Spec

-----------------------------------------------------------------------------
(* An offline build is never on its way to the network or to the cache       *)
(* directory.                                                                *)
Silent == phase # "idle" /\ offline =>
              \A s \in Sources : pc[s] \notin {"request", "compat", "store"}

LEMMA SilentStep == ASSUME IInv, Stages, Silent, [Next]_vars PROVE Silent'
<1>1. ASSUME NEW off \in BOOLEAN, StartBuild(off) PROVE Silent'
  BY <1>1 DEF StartBuild, Silent
<1>2. ASSUME NEW s \in Sources, Load(s), offline, phase # "idle" PROVE Silent'
  <2>1. pc[s] \notin {"request", "compat", "store"}
    BY <1>2 DEF Silent
  <2>2. CASE Open(s) \/ ReadCached(s)
    <3>1. PICK l : l \notin {"request", "compat", "store"} /\ Goto(s, l)
      BY <1>2, <2>2, Zenon DEF Open, ReadCached, NextUrl
    <3>2. QED
      BY <1>2, <3>1 DEF Goto, Silent, IInv, TypeOK
  <2>3. CASE Acquire(s) \/ CacheUnreadable(s) \/ Finish(s)
    BY <1>2, <2>3 DEF Acquire, CacheUnreadable, Finish, Goto, Silent, IInv, TypeOK
  <2>4. QED
    BY <1>2, <2>1, <2>2, <2>3 DEF Load, Receive, RequestError, Rejected,
       CompatError, CompatRejected, Store
<1>3. CASE UNCHANGED vars \/ TemplateFails \/ Return \/ Expire \/ Kill
  BY <1>3 DEF vars, TemplateFails, Return, Expire, Kill, Silent
<1>4. CASE StartSubscriptions
  BY <1>4 DEF StartSubscriptions, Silent
<1>5. ASSUME NEW s \in Sources, Load(s) PROVE UNCHANGED <<phase, offline>>
  BY <1>5 DEF Load, Acquire, Open, Receive, RequestError, Rejected, CompatError,
              CompatRejected, Store, ReadCached, CacheUnreadable, Finish
<1>6. QED
  BY <1>1, <1>2, <1>3, <1>4, <1>5 DEF Next, Silent

LEMMA SilentAlways == Spec => []Silent
<1>1. Init => Silent
  BY DEF Init, Silent
<1>2. IInv /\ Stages /\ Silent /\ [Next]_vars => Silent'
  BY SilentStep
<1>3. QED
  BY <1>1, <1>2, Inductive, PTL DEF Spec

(* An offline build neither asks the network nor changes the cache.          *)
THEOREM Offline == Spec => OfflineSilent
<1>1. IInv /\ Silent /\ Silent' /\ [Next]_vars =>
        [phase # "idle" /\ offline /\ phase' # "idle" =>
           /\ UNCHANGED cache
           /\ \A s \in Sources : pc'[s] \notin {"request", "compat"}]_vars
  <2> SUFFICES ASSUME IInv, Silent, Silent', [Next]_vars,
                      phase # "idle", offline, phase' # "idle"
               PROVE  /\ UNCHANGED cache
                      /\ \A s \in Sources : pc'[s] \notin {"request", "compat"}
    OBVIOUS
  <2>1. offline'
    BY DEF Next, Load, StartBuild, StartSubscriptions, TemplateFails, Return, Expire,
           Kill, Acquire, Open, Receive, RequestError, Rejected, CompatError,
           CompatRejected, Store, ReadCached, CacheUnreadable, Finish, vars
  <2>2. ASSUME NEW s \in Sources PROVE ~Store(s)
    BY DEF Store, Silent
  <2>3. UNCHANGED cache
    BY <2>2 DEF Next, Load, StartBuild, StartSubscriptions, TemplateFails, Return,
                Expire, Kill, Acquire, Open, Receive, RequestError, Rejected,
                CompatError, CompatRejected, ReadCached, CacheUnreadable, Finish, vars
  <2>4. QED
    BY <2>1, <2>3 DEF Silent
<1>2. QED
  BY <1>1, Inductive, SilentAlways, PTL DEF OfflineSilent, Spec

-----------------------------------------------------------------------------
(* The rounds of a trail, and the order in which requests follow each other. *)
Rounds(t) == {i \in 1..Len(t) : t[i] \in {"error", "rejected"}}

Ordered(t) ==
    \A i \in 1..Len(t) :
        /\ t[i] \in {"compatError", "compatRejected"} => i > 1 /\ t[i - 1] = "rejected"
        /\ t[i] = "rejected" /\ i < Len(t) => t[i + 1] \in {"compatError", "compatRejected"}
        /\ t[i] = "compatRejected" => i = Len(t)

Follows(t, o) ==
    \/ o \in {"error", "rejected"}
         /\ (Len(t) = 0 \/ t[Len(t)] \in {"error", "compatError"})
    \/ o \in {"compatError", "compatRejected"} /\ Len(t) # 0 /\ t[Len(t)] = "rejected"

LEMMA OneMoreRequest ==
  ASSUME NEW t \in Seq(Outcomes), NEW o \in Outcomes, Ordered(t), Follows(t, o)
  PROVE  LET u == Append(t, o) IN
         /\ Ordered(u) /\ Len(u) # 0 /\ u[Len(u)] = o
         /\ Cardinality(Rounds(u)) = IF o \in {"error", "rejected"}
                                     THEN Cardinality(Rounds(t)) + 1
                                     ELSE Cardinality(Rounds(t))
<1> DEFINE u == Append(t, o)
<1>1. /\ Len(t) \in Nat /\ Len(u) = Len(t) + 1
      /\ \A i \in 1..Len(t) : u[i] = t[i]
      /\ u[Len(u)] = o
  BY AppendProperties, LenProperties
<1> HIDE DEF u
<1>2. Ordered(u)
  BY <1>1 DEF Ordered, Follows
<1>3. Rounds(u) = IF o \in {"error", "rejected"} THEN Rounds(t) \union {Len(u)}
                                               ELSE Rounds(t)
  BY <1>1 DEF Rounds
<1>4. IsFiniteSet(Rounds(t)) /\ Len(u) \notin Rounds(t)
  <2>1. IsFiniteSet(1..Len(t))
    BY <1>1, FS_Interval
  <2>2. Rounds(t) \subseteq 1..Len(t) /\ Len(u) \notin 1..Len(t)
    BY <1>1 DEF Rounds
  <2>3. QED
    BY <2>1, <2>2, FS_Subset
<1>5. QED
  BY <1>1, <1>2, <1>3, <1>4, FS_AddElement DEF u

LEMMA NoRequest == Ordered(<<>>) /\ Cardinality(Rounds(<<>>)) = 0
<1>1. Rounds(<<>>) = {}
  BY EmptySeq DEF Rounds
<1>2. QED
  BY <1>1, FS_EmptySet, EmptySeq DEF Ordered

(* Where a source stands in the loop of loadURLRemote. *)
Asked(s) ==
    LET t == trail[s] IN
    /\ Ordered(t)
    /\ Cardinality(Rounds(t)) <= Retries + 1
    /\ pc[s] = "request" =>
         /\ Cardinality(Rounds(t)) = attempt[s]
         /\ Len(t) = 0 \/ t[Len(t)] \in {"error", "compatError"}
    /\ pc[s] = "compat" =>
         /\ Cardinality(Rounds(t)) = attempt[s] + 1
         /\ Len(t) # 0 /\ t[Len(t)] = "rejected"

AllAsked == \A s \in Sources : Asked(s)

(* What the last request of a step has added to the trail. *)
LEMMA AskedNext ==
  ASSUME IInv, AllAsked, NEW s \in Sources, NEW o \in Outcomes, Note(s, o),
         Follows(trail[s], o), NEW l, Goto(s, l),
         o \in {"error", "rejected"} => pc[s] = "request",
         o \in {"compatError", "compatRejected"} => pc[s] = "compat",
         \/ /\ UNCHANGED attempt
            /\ l = "cached" \/ (l = "compat" /\ o = "rejected")
         \/ /\ attempt' = [attempt EXCEPT ![s] = @ + 1]
            /\ l = "request" /\ o \in {"error", "compatError"}
  PROVE  AllAsked'
<1>1. trail[s] \in Seq(Outcomes) /\ attempt[s] \in 0..Retries /\ Retries \in Nat
  BY FetchAssumption DEF IInv, TypeOK
<1>2. trail'[s] = Append(trail[s], o) /\ pc'[s] = l
  BY DEF Note, Goto, IInv, TypeOK
<1>3. \A t \in Sources \ {s} :
         trail'[t] = trail[t] /\ pc'[t] = pc[t] /\ attempt'[t] = attempt[t]
  BY DEF Note, Goto, IInv, TypeOK
<1>4. attempt'[s] = IF l = "request" THEN attempt[s] + 1 ELSE attempt[s]
  BY DEF IInv, TypeOK
<1>5. Cardinality(Rounds(trail[s])) = IF pc[s] = "request" THEN attempt[s] ELSE attempt[s] + 1
  BY DEF AllAsked, Asked, Outcomes
<1>6. /\ Ordered(trail'[s]) /\ Len(trail'[s]) # 0 /\ trail'[s][Len(trail'[s])] = o
      /\ Cardinality(Rounds(trail'[s])) = attempt[s] + 1
  BY <1>1, <1>2, <1>5, OneMoreRequest DEF AllAsked, Asked, Outcomes
<1>7. Asked(s)'
  BY <1>1, <1>2, <1>4, <1>6 DEF Asked
<1>8. ASSUME NEW t \in Sources \ {s} PROVE Asked(t)'
  BY <1>3, <1>8 DEF AllAsked, Asked
<1>9. QED
  BY <1>7, <1>8 DEF AllAsked

(* A step that leaves the loop of every source alone, or goes to the next    *)
(* URL with a new one.                                                       *)
LEMMA AskedElse ==
  ASSUME IInv, AllAsked,
         \A s \in Sources :
            \/ /\ trail'[s] = trail[s]
               /\ pc'[s] \notin {"request", "compat"}
                    \/ (pc'[s] = pc[s] /\ attempt'[s] = attempt[s])
            \/ trail'[s] = <<>> /\ pc'[s] # "compat" /\ attempt'[s] = 0
  PROVE  AllAsked'
<1>1. Retries \in Nat
  BY FetchAssumption
<1>2. QED
  BY <1>1, NoRequest, EmptySeq DEF AllAsked, Asked

LEMMA AskedStep == ASSUME IInv, Stages, AllAsked, [Next]_vars PROVE AllAsked'
<1>1. ASSUME NEW s \in Sources,
             RequestError(s) \/ Rejected(s) \/ CompatError(s) \/ CompatRejected(s)
      PROVE  AllAsked'
  <2>1. CASE RequestError(s)
    <3>1. Follows(trail[s], "error") /\ pc[s] = "request" /\ Note(s, "error")
      BY <2>1 DEF RequestError, AllAsked, Asked, Follows
    <3>2. QED
      BY <2>1, <3>1, AskedNext DEF RequestError, Again, Outcomes
  <2>2. CASE Rejected(s)
    <3>1. Follows(trail[s], "rejected") /\ pc[s] = "request" /\ Note(s, "rejected")
      BY <2>2 DEF Rejected, AllAsked, Asked, Follows
    <3>2. QED
      BY <2>2, <3>1, AskedNext DEF Rejected, Outcomes
  <2>3. CASE CompatError(s)
    <3>1. Follows(trail[s], "compatError") /\ pc[s] = "compat" /\ Note(s, "compatError")
      BY <2>3 DEF CompatError, AllAsked, Asked, Follows
    <3>2. QED
      BY <2>3, <3>1, AskedNext DEF CompatError, Again, Outcomes
  <2>4. CASE CompatRejected(s)
    <3>1. Follows(trail[s], "compatRejected") /\ pc[s] = "compat" /\ Note(s, "compatRejected")
      BY <2>4 DEF CompatRejected, AllAsked, Asked, Follows
    <3>2. QED
      BY <2>4, <3>1, AskedNext DEF CompatRejected, Outcomes
  <2>5. QED
    BY <1>1, <2>1, <2>2, <2>3, <2>4
<1>2. ASSUME NEW s \in Sources, NEW g, NextUrl(s, g) PROVE AllAsked'
  <2>1. PICK l : l # "compat" /\ Goto(s, l)
    BY <1>2, Zenon DEF NextUrl
  <2>2. trail' = [trail EXCEPT ![s] = <<>>] /\ attempt' = [attempt EXCEPT ![s] = 0]
    BY <1>2 DEF NextUrl
  <2>3. QED
    BY <2>1, <2>2, AskedElse DEF Goto, IInv, TypeOK
<1>3. ASSUME NEW s \in Sources,
             \/ Acquire(s) \/ Receive(s) \/ Finish(s)
             \/ Goto(s, "error") /\ UNCHANGED <<attempt, body, got, trail>>
      PROVE  AllAsked'
  BY <1>3, AskedElse DEF Acquire, Receive, Finish, Goto, IInv, TypeOK
<1>4. ASSUME NEW s \in Sources, Load(s) PROVE AllAsked'
  BY <1>1, <1>2, <1>3, <1>4 DEF Load, Open, Store, ReadCached, CacheUnreadable
<1>5. ASSUME NEW off \in BOOLEAN, StartBuild(off) PROVE AllAsked'
  BY <1>5, AskedElse DEF StartBuild
<1>6. CASE StartSubscriptions \/ Kill
  BY <1>6, AskedElse DEF StartSubscriptions, Kill
<1>7. CASE UNCHANGED vars \/ TemplateFails \/ Return \/ Expire
  BY <1>7 DEF vars, TemplateFails, Return, Expire, AllAsked, Asked
<1>8. QED
  BY <1>4, <1>5, <1>6, <1>7 DEF Next

(* The requests for one URL: a request without headers follows a 401/403     *)
(* and nothing else, a second 401/403 is final, and the loop of              *)
(* loadURLRemote goes round at most fetch.retries + 1 times.                 *)
THEOREM Protocol == Spec => []RequestProtocol
<1>1. Init => AllAsked
  BY FetchAssumption, NoRequest, EmptySeq DEF Init, AllAsked, Asked
<1>2. IInv /\ Stages /\ AllAsked /\ [Next]_vars => AllAsked'
  BY AskedStep
<1>3. AllAsked => RequestProtocol
  BY DEF AllAsked, Asked, RequestProtocol, Ordered, Rounds
<1>4. QED
  BY <1>1, <1>2, <1>3, Inductive, PTL DEF Spec

==============================================================================
