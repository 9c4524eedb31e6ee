----------------------------- MODULE SourceFetch -----------------------------
(***************************************************************************)
(* The template and the subscriptions of one profile, loaded by build      *)
(* after build (internal/source).  LoadTemplate comes first, by itself;    *)
(* then LoadSubscriptions starts one goroutine per subscription behind a   *)
(* semaphore.  Each loads the URLs of its source one after the other with  *)
(* retries, a compatibility request after 401/403 and a fallback to the    *)
(* private cache; all share the deadline of the build and the cache        *)
(* directory.                                                              *)
(*                                                                         *)
(* A response body is a value of Bodies; what the validators make of it is *)
(* the constant Accepts.  Empty, oversized and non-2xx responses are       *)
(* errors before any validator sees them.  A cache file is replaced        *)
(* atomically: see PrivateFile.                                            *)
(***************************************************************************)
EXTENDS Naturals, Sequences, FiniteSets

CONSTANTS
    Subs,         \* the subscriptions of the profile
    Template,     \* its template, if it has one: a set of at most one source
    Urls,         \* URLs after the fragment is stripped: the cache keys
    Kinds,        \* how a body is parsed: as a subscription, as nodes, as YAML
    Bodies,       \* response bodies
    Accepts,      \* Accepts[k]: the bodies the validator of kind k accepts
    Kind,         \* Kind[s]: the validator source s uses
    UrlsOf,       \* UrlsOf[s]: the URLs s loads, in order; <<>> for a file
    Local,        \* the sources that start from a local file
    Concurrency,  \* fetch.concurrency
    Retries,      \* fetch.retries
    CacheOn,      \* whether fetch.cacheDir is set
    None          \* no cache file, no body in hand

Sources == Subs \union Template

ASSUME FetchAssumption ==
    /\ IsFiniteSet(Subs)
    /\ Subs \cap Template = {}
    /\ \A t, u \in Template : t = u
    /\ Accepts \in [Kinds -> SUBSET Bodies]
    /\ Kind \in [Sources -> Kinds]
    /\ UrlsOf \in [Sources -> Seq(Urls)]
    /\ Local \subseteq Sources
    /\ Concurrency \in Nat \ {0}
    /\ Retries \in Nat
    /\ CacheOn \in BOOLEAN
    /\ None \notin Bodies

VARIABLES
    phase,    \* whether a build is in LoadTemplate or in LoadSubscriptions
    offline,  \* fetch.offline or --offline of this build
    expired,  \* the deadline of this build has passed
    slots,    \* len(sem)
    pc,       \* where the loading of each source is
    attempt,  \* the loop variable of loadURLRemote
    body,     \* the response being validated and stored
    got,      \* the bodies loadURLValidated has returned to the goroutine
    results,  \* what LoadTemplate and LoadSubscriptions return
    trail,    \* history: how the requests for the current URL ended
    cache,    \* the cache directory
    held      \* history: held[k][u], a body of u accepted by k was stored

vars == <<phase, offline, expired, slots, pc, attempt, body, got, results,
          trail, cache, held>>

(* source.Result: Data and Err of one subscription. *)
Results == [state : {"none", "ok", "failed"}, data : Seq(Bodies)]
NoResult == [state |-> "none", data |-> <<>>]
Failed == [state |-> "failed", data |-> <<>>]

Outcomes == {"error", "rejected", "compatError", "compatRejected"}
Locations == {"off", "queued", "open", "request", "compat", "store", "cached",
              "finish", "error", "done"}
Holding == {"open", "request", "compat", "store", "cached", "finish", "error"}

TypeOK ==
    /\ phase \in {"idle", "template", "loading"}
    /\ offline \in BOOLEAN /\ expired \in BOOLEAN
    /\ slots \in 0..Concurrency
    /\ pc \in [Sources -> Locations]
    /\ attempt \in [Sources -> 0..Retries]
    /\ body \in [Sources -> Bodies \union {None}]
    /\ got \in [Sources -> Seq(Bodies)]
    /\ results \in [Sources -> Results]
    /\ trail \in [Sources -> Seq(Outcomes)]
    /\ cache \in [Urls -> Bodies \union {None}]
    /\ held \in [Kinds -> [Urls -> BOOLEAN]]

Init ==
    /\ phase = "idle" /\ offline = FALSE /\ expired = FALSE
    /\ slots = 0
    /\ pc = [s \in Sources |-> "off"]
    /\ attempt = [s \in Sources |-> 0]
    /\ body = [s \in Sources |-> None]
    /\ got = [s \in Sources |-> <<>>]
    /\ results = [s \in Sources |-> NoResult]
    /\ trail = [s \in Sources |-> <<>>]
    /\ cache \in [Urls -> Bodies \union {None}]
    /\ held = [k \in Kinds |-> [u \in Urls |-> FALSE]]

-----------------------------------------------------------------------------
Url(s) == UrlsOf[s][Len(got[s]) + 1]
Usable(s, b) == b \in Accepts[Kind[s]]

Goto(s, l) == pc' = [pc EXCEPT ![s] = l]
Note(s, o) == trail' = [trail EXCEPT ![s] = Append(@, o)]

(* Mutation: offline is not looked at. *)
NextUrlOnline(s, g) ==
    /\ got' = [got EXCEPT ![s] = g]
    /\ attempt' = [attempt EXCEPT ![s] = 0]
    /\ trail' = [trail EXCEPT ![s] = <<>>]
    /\ body' = [body EXCEPT ![s] = None]
    /\ \/ Goto(s, IF Len(g) = Len(UrlsOf[s]) THEN "finish" ELSE "request")
       \/ s \in Local /\ Goto(s, "error")

(* loadOne goes on with g in hand: to the next URL of a nodes file, to its   *)
(* end, or to a line of the local file that cannot be read or parsed.        *)
NextUrl(s, g) ==
    /\ got' = [got EXCEPT ![s] = g]
    /\ attempt' = [attempt EXCEPT ![s] = 0]
    /\ trail' = [trail EXCEPT ![s] = <<>>]
    /\ body' = [body EXCEPT ![s] = None]
    /\ \/ Goto(s, CASE Len(g) = Len(UrlsOf[s]) -> "finish"
                    [] Len(g) # Len(UrlsOf[s]) /\ offline -> "cached"
                    [] OTHER -> "request")
       \/ s \in Local /\ Goto(s, "error")

(* A build starts with its template. *)
StartBuild(off) ==
    /\ phase = "idle"
    /\ phase' = "template" /\ offline' = off /\ expired' = FALSE
    /\ pc' = [s \in Sources |-> IF s \in Template THEN "open" ELSE "off"]
    /\ results' = [s \in Sources |-> NoResult]
    /\ UNCHANGED <<slots, attempt, body, got, trail, cache, held>>

(* It goes on only with the template: LoadSubscriptions makes a semaphore    *)
(* and starts a goroutine per subscription.                                  *)
StartSubscriptions ==
    /\ phase = "template"
    /\ \A t \in Template : results[t].state = "ok"
    /\ phase' = "loading"
    /\ slots' = 0
    /\ pc' = [s \in Sources |-> IF s \in Subs THEN "queued" ELSE pc[s]]
    /\ UNCHANGED <<offline, expired, attempt, body, got, results, trail, cache,
                   held>>

TemplateFails ==
    /\ phase = "template"
    /\ \E t \in Template : results[t].state = "failed"
    /\ phase' = "idle"
    /\ UNCHANGED <<offline, expired, slots, pc, attempt, body, got, results,
                   trail, cache, held>>

(* sem <- struct{}{} blocks while the channel is full. *)
Acquire(s) ==
    /\ pc[s] = "queued"
    /\ slots < Concurrency
    /\ slots' = slots + 1
    /\ Goto(s, "open")
    /\ UNCHANGED <<phase, offline, expired, attempt, body, got, results, trail,
                   cache, held>>

(* loadOne reads the local file, or starts with its URL. *)
Open(s) ==
    /\ pc[s] = "open"
    /\ NextUrl(s, <<>>)
    /\ UNCHANGED <<phase, offline, expired, slots, results, cache, held>>

-----------------------------------------------------------------------------
(* Mutation: the response is stored before it is validated. *)
ReceiveAny(s) ==
    /\ pc[s] \in {"request", "compat"}
    /\ ~expired
    /\ \E b \in Bodies : body' = [body EXCEPT ![s] = b]
    /\ Goto(s, "store")
    /\ UNCHANGED <<phase, offline, expired, slots, attempt, got, results, trail,
                   cache, held>>

(* A complete 2xx response of either request, then the validator. *)
Receive(s) ==
    /\ pc[s] \in {"request", "compat"}
    /\ ~expired
    /\ \E b \in Bodies :
           /\ body' = [body EXCEPT ![s] = b]
           /\ Goto(s, IF Usable(s, b) THEN "store" ELSE "cached")
    /\ UNCHANGED <<phase, offline, expired, slots, attempt, got, results, trail,
                   cache, held>>

(* Mutation: one round too many. *)
AgainOnce(s) ==
    IF expired \/ attempt[s] > Retries
    THEN Goto(s, "cached") /\ UNCHANGED attempt
    ELSE Goto(s, "request") /\ attempt' = [attempt EXCEPT ![s] = @ + 1]

(* The loop goes round, unless the deadline or the last attempt ends it. *)
Again(s) ==
    IF expired \/ attempt[s] = Retries
    THEN Goto(s, "cached") /\ UNCHANGED attempt
    ELSE Goto(s, "request") /\ attempt' = [attempt EXCEPT ![s] = @ + 1]

(* The request with the default headers fails in any way but 401/403. *)
RequestError(s) ==
    /\ pc[s] = "request"
    /\ Again(s)
    /\ Note(s, "error")
    /\ UNCHANGED <<phase, offline, expired, slots, body, got, results, cache, held>>

(* 401/403: one request without headers follows at once. *)
Rejected(s) ==
    /\ pc[s] = "request"
    /\ ~expired
    /\ Goto(s, "compat")
    /\ Note(s, "rejected")
    /\ UNCHANGED <<phase, offline, expired, slots, attempt, body, got, results,
                   cache, held>>

(* The request without headers fails in any way but 401/403: the loop goes on. *)
CompatError(s) ==
    /\ pc[s] = "compat"
    /\ Again(s)
    /\ Note(s, "compatError")
    /\ UNCHANGED <<phase, offline, expired, slots, body, got, results, cache, held>>

(* Mutation: the loop goes on after the second 401/403. *)
CompatRejectedAgain(s) ==
    /\ pc[s] = "compat"
    /\ ~expired
    /\ Again(s)
    /\ Note(s, "compatRejected")
    /\ UNCHANGED <<phase, offline, expired, slots, body, got, results, cache, held>>

(* 401/403 for the second time ends the loop. *)
CompatRejected(s) ==
    /\ pc[s] = "compat"
    /\ ~expired
    /\ Goto(s, "cached")
    /\ Note(s, "compatRejected")
    /\ UNCHANGED <<phase, offline, expired, slots, attempt, body, got, results,
                   cache, held>>

(* Mutation: a store that fails has emptied the cache file. *)
StoreInPlace(s) ==
    /\ pc[s] = "store"
    /\ \/ /\ CacheOn
          /\ cache' = [cache EXCEPT ![Url(s)] = body[s]]
          /\ held' = [held EXCEPT ![Kind[s]][Url(s)] = TRUE]
       \/ cache' = [cache EXCEPT ![Url(s)] = None] /\ UNCHANGED held
    /\ NextUrl(s, Append(got[s], body[s]))
    /\ UNCHANGED <<phase, offline, expired, slots, results>>

(* The accepted body replaces the cache file, or fails to and is used all    *)
(* the same.                                                                 *)
Store(s) ==
    /\ pc[s] = "store"
    /\ \/ /\ CacheOn
          /\ cache' = [cache EXCEPT ![Url(s)] = body[s]]
          /\ held' = [held EXCEPT ![Kind[s]][Url(s)] = TRUE]
       \/ UNCHANGED <<cache, held>>
    /\ NextUrl(s, Append(got[s], body[s]))
    /\ UNCHANGED <<phase, offline, expired, slots, results>>

(* Mutation: the cache file is not validated. *)
ReadAnyCached(s) ==
    /\ pc[s] = "cached"
    /\ \/ CacheOn /\ cache[Url(s)] # None /\ NextUrl(s, Append(got[s], cache[Url(s)]))
       \/ /\ ~(CacheOn /\ cache[Url(s)] # None)
          /\ Goto(s, "error") /\ UNCHANGED <<attempt, body, got, trail>>
    /\ UNCHANGED <<phase, offline, expired, slots, results, cache, held>>

(* The cache file stands in if this validator accepts it; the remote error   *)
(* or the offline error fails the subscription otherwise.                    *)
ReadCached(s) ==
    /\ pc[s] = "cached"
    /\ \/ CacheOn /\ Usable(s, cache[Url(s)]) /\ NextUrl(s, Append(got[s], cache[Url(s)]))
       \/ /\ ~(CacheOn /\ Usable(s, cache[Url(s)]))
          /\ Goto(s, "error") /\ UNCHANGED <<attempt, body, got, trail>>
    /\ UNCHANGED <<phase, offline, expired, slots, results, cache, held>>

(* os.ReadFile fails on a cache file that is there. *)
CacheUnreadable(s) ==
    /\ pc[s] = "cached"
    /\ CacheOn /\ cache[Url(s)] # None
    /\ Goto(s, "error")
    /\ UNCHANGED <<phase, offline, expired, slots, attempt, body, got, results, trail,
                   cache, held>>

(* Only a goroutine has a token. *)
GivesBack(s) == slots' = IF s \in Subs THEN slots - 1 ELSE slots

(* Mutation: the token is given back on success only. *)
FinishLeaking(s) ==
    /\ pc[s] \in {"finish", "error"}
    /\ results' = [results EXCEPT ![s] =
           IF pc[s] = "finish" THEN [state |-> "ok", data |-> got[s]] ELSE Failed]
    /\ IF pc[s] = "finish" THEN GivesBack(s) ELSE UNCHANGED slots
    /\ attempt' = [attempt EXCEPT ![s] = 0]
    /\ body' = [body EXCEPT ![s] = None]
    /\ got' = [got EXCEPT ![s] = <<>>]
    /\ trail' = [trail EXCEPT ![s] = <<>>]
    /\ Goto(s, "done")
    /\ UNCHANGED <<phase, offline, expired, cache, held>>

(* LoadTemplate returns; or results[i] is assigned, then the deferred        *)
(* receive from sem and wg.Done.  Local variables end here.                  *)
Finish(s) ==
    /\ pc[s] \in {"finish", "error"}
    /\ results' = [results EXCEPT ![s] =
           IF pc[s] = "finish" THEN [state |-> "ok", data |-> got[s]] ELSE Failed]
    /\ GivesBack(s)
    /\ attempt' = [attempt EXCEPT ![s] = 0]
    /\ body' = [body EXCEPT ![s] = None]
    /\ got' = [got EXCEPT ![s] = <<>>]
    /\ trail' = [trail EXCEPT ![s] = <<>>]
    /\ Goto(s, "done")
    /\ UNCHANGED <<phase, offline, expired, cache, held>>

(* wg.Wait returns. *)
Return ==
    /\ phase = "loading"
    /\ \A s \in Subs : pc[s] = "done"
    /\ phase' = "idle"
    /\ UNCHANGED <<offline, expired, slots, pc, attempt, body, got, results,
                   trail, cache, held>>

(* The deadline of the build passes. *)
Expire ==
    /\ phase # "idle"
    /\ ~expired
    /\ expired' = TRUE
    /\ UNCHANGED <<phase, offline, slots, pc, attempt, body, got, results,
                   trail, cache, held>>

(* The process is killed: only the cache directory outlives it. *)
Kill ==
    /\ phase # "idle"
    /\ phase' = "idle" /\ offline' = FALSE /\ expired' = FALSE
    /\ slots' = 0
    /\ pc' = [s \in Sources |-> "off"]
    /\ attempt' = [s \in Sources |-> 0]
    /\ body' = [s \in Sources |-> None]
    /\ got' = [s \in Sources |-> <<>>]
    /\ results' = [s \in Sources |-> NoResult]
    /\ trail' = [s \in Sources |-> <<>>]
    /\ UNCHANGED <<cache, held>>

Load(s) == \/ Acquire(s) \/ Open(s) \/ Receive(s) \/ RequestError(s)
           \/ Rejected(s) \/ CompatError(s) \/ CompatRejected(s)
           \/ Store(s) \/ ReadCached(s) \/ CacheUnreadable(s) \/ Finish(s)

Next ==
    \/ \E off \in BOOLEAN : StartBuild(off)
    \/ \E s \in Sources : Load(s)
    \/ StartSubscriptions
    \/ TemplateFails
    \/ Return
    \/ Expire
    \/ Kill

(* A request that the deadline has cut off returns by itself. *)
Cancel(s) == expired /\ (RequestError(s) \/ CompatError(s))

(* The runtime runs every goroutine that can go on and the timer fires; no   *)
(* server has to answer.                                                     *)
Fairness ==
    /\ \A s \in Sources :
           WF_vars(Acquire(s) \/ Open(s) \/ Cancel(s) \/ Store(s)
                   \/ ReadCached(s) \/ Finish(s))
    /\ WF_vars(StartSubscriptions \/ TemplateFails \/ Return)
    /\ WF_vars(Expire)

Spec == Init /\ [][Next]_vars
FairSpec == Spec /\ Fairness

-----------------------------------------------------------------------------
(* The semaphore counts exactly the goroutines inside loadOne: no path out   *)
(* of loadOne keeps a token or gives one back twice.                         *)
SlotsExact == slots = Cardinality({s \in Subs : pc[s] \in Holding})

(* What a build has loaded: every slot is filled, and a source that did not  *)
(* fail is complete, each of its bodies accepted by its own validator,       *)
(* whether it came from the network or from the cache.                       *)
ResultsComplete ==
    phase = "idle" /\ (\A s \in Sources : pc[s] = "done") =>
        \A s \in Sources :
            /\ results[s].state # "none"
            /\ results[s].state = "ok" =>
                 /\ Len(results[s].data) = Len(UrlsOf[s])
                 /\ \A i \in 1..Len(results[s].data) :
                        results[s].data[i] \in Accepts[Kind[s]]

(* "HTTP failures and invalid responses use the last accepted response":     *)
(* once a response of u was accepted and stored for a kind of source, no     *)
(* later load of u by that kind fails, unless reading the file itself fails  *)
(* (CacheUnreadable).                                                        *)
LastGoodServes ==
    [][\A s \in Sources : ReadCached(s) /\ got' = got =>
           ~held[Kind[s]][Url(s)]]_vars

(* The requests for one URL: a request without headers follows a 401/403     *)
(* and nothing else, a second 401/403 is final, and there are at most        *)
(* Retries + 1 rounds.                                                       *)
RequestProtocol ==
    \A s \in Sources : LET t == trail[s] IN
        /\ Cardinality({i \in 1..Len(t) : t[i] \in {"error", "rejected"}}) <= Retries + 1
        /\ \A i \in 1..Len(t) :
             /\ t[i] \in {"compatError", "compatRejected"} => i > 1 /\ t[i - 1] = "rejected"
             /\ t[i] = "rejected" /\ i < Len(t) => t[i + 1] \in {"compatError", "compatRejected"}
             /\ t[i] = "compatRejected" => i = Len(t)

(* An offline build neither asks the network nor changes the cache.          *)
OfflineSilent ==
    [][phase # "idle" /\ offline /\ phase' # "idle" =>
           /\ UNCHANGED cache
           /\ \A s \in Sources : pc'[s] \notin {"request", "compat"}]_vars

(* A cache file is only ever replaced by a body that the validator of a      *)
(* source with that URL accepts.                                             *)
CacheAccepted ==
    [][\A u \in Urls : cache'[u] # cache[u] =>
           \E s \in Sources : /\ \E i \in 1..Len(UrlsOf[s]) : UrlsOf[s][i] = u
                           /\ cache'[u] \in Accepts[Kind[s]]]_vars

(* Loading returns although servers may never answer, whatever the number    *)
(* of subscriptions that wait for a slot, and also when the template has     *)
(* used up the deadline.                                                     *)
LoadReturns == phase # "idle" ~> phase = "idle"
==============================================================================
