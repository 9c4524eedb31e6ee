---------------------------- MODULE NodeIdentity ----------------------------
(***************************************************************************)
(* How nodes and the references to them travel from the source files into  *)
(* the built configuration when naming is enabled: what internal/source    *)
(* makes of a configuration, of node links and of a nodes file (source     *)
(* labels, suffixes, numbers, the PROXY group), naming.Identify on every   *)
(* file, merge.SubscriptionInto, naming.Apply and naming.Export, in the    *)
(* order of build.Run.                                                     *)
(*                                                                         *)
(* Names are tagged tuples: what a source calls a node (a sequence of      *)
(* parts, texts and numbers: a suffix or a number is one part more), its   *)
(* name under a source label, its internal identity, and the label it ends *)
(* up with (distinct for distinct nodes: see NodeLabels).  Different       *)
(* sequences of parts stand for different names.  The field means          *)
(* of a reference is history: the endpoints its file means by it, however  *)
(* it is spelled later.                                                    *)
(***************************************************************************)
EXTENDS Naturals, Sequences, FiniteSets, SequencesExt, FiniteSetsExt

CONSTANTS
    Endpoints,  \* what a node is but for its name and its dialer-proxy
    Texts,      \* the texts that names are made of
    Profiles,   \* for each profile the sources it lists, the template first:
                \* what the file may hold, whether it is a configuration, the
                \* links of a URL or the lines of a nodes file, and whether
                \* its URL has a source label
    Optimized   \* the texts that contain the optimization label

NoName == <<"none">>
Raw(l) == <<"raw", <<<<l>>>>>>
Nameless == <<"raw", <<>>>>
Sourced(i, j) == <<"source", i, j>>
Identity(k) == <<"mcb", k>>
Display(j) == <<"node", j>>

(* What a file may hold.  Nothing refers to a node without a name: no rename  *)
(* applies to the empty string.                                              *)
Parts == {<<t>> : t \in Texts} \union ({"-"} \X Nat)
Spelled == {"raw"} \X Seq(Parts)
Targets == Spelled \ {Nameless}
Relays == Targets \union {NoName}
Nodes == [ep : Endpoints, relay : Relays, name : Spelled]
Lines == [suffix : Texts \union {""}, nodes : Seq(Nodes)]
Refs == [site : {"group", "rule"}, target : Targets]

ASSUME IdentityAssumption ==
    /\ "NODE" \in Texts /\ Optimized \subseteq Texts \ {"NODE"}
    /\ "-" \notin Optimized
    /\ \A p \in Profiles :
           /\ p \in Seq([files : {p[i].files : i \in DOMAIN p},
                        form : {"config", "links", "lines"}, tagged : BOOLEAN])
           /\ p # <<>> /\ p[1].form = "config" /\ ~p[1].tagged
           /\ \A i \in DOMAIN p :
                  IF p[i].form = "lines"
                  THEN ~p[i].tagged /\ \A f \in p[i].files :
                           f \in [lines : Seq(Lines)]
                  ELSE \A f \in p[i].files : f \in [nodes : Seq(Nodes), refs : SUBSET Refs]

VARIABLES
    profile, \* the profile being built
    stage,   \* the file to be merged next, or past the last: naming.Apply
    files,   \* history: the files merged, nodes in order and references to nodes
    cfg      \* the configuration being built

vars == <<profile, stage, files, cfg>>

(* A name with a part more: a text, or a number. *)
Extended(n, part) == <<"raw", Append(n[2], part)>>
Numbered(n, i) == Extended(n, <<"-", i>>)

(* The nodes of the lines of a nodes file, under the suffix of their line:   *)
(* appendProxyNameSuffix, which leaves dialer-proxy alone.                   *)
Suffixed(n, s) ==
    IF s = "" THEN n ELSE Extended(IF n = Nameless THEN Raw("NODE") ELSE n, <<s>>)
WithLine(nodes, line) ==
    nodes \o [j \in DOMAIN line.nodes |->
                 [line.nodes[j] EXCEPT !.name = Suffixed(@, line.suffix)]]
Listed(f) == FoldLeft(WithLine, <<>>, f.lines)

(* The nodes that a file offers, under the names it gives them. *)
Offered(f) == IF "lines" \in DOMAIN f THEN Listed(f) ELSE f.nodes

(* Key hashes every field but the name: the endpoint, and the dialer-proxy   *)
(* as it is spelled at that moment.                                          *)
Key(p) == <<p.ep, p.relay>>

(* The endpoints of node j of a file, its own and that of its dialer-proxy. *)
First(names, n) == SelectInSeq(names, LAMBDA x : x = n)
Latest(names, n) == SelectLastInSeq(names, LAMBDA x : x = n)
NamesOf(nodes) == [j \in DOMAIN nodes |-> nodes[j].name]
Chain(nodes, j) ==
    LET r == First(NamesOf(nodes), nodes[j].relay)
    IN  <<nodes[j].ep, IF r = 0 THEN NoName ELSE nodes[r].ep>>
Means(nodes, n) ==
    LET j == First(NamesOf(nodes), n) IN IF j = 0 THEN <<>> ELSE Chain(nodes, j)

(* A file as it is decoded. *)
Decoded(f) ==
    [nodes  |-> f.nodes,
     refs   |-> {[site |-> r.site, target |-> r.target, means |-> Means(f.nodes, r.target)] :
                   r \in f.refs},
     labels |-> {}]

-----------------------------------------------------------------------------
(* The renames of a list of nodes: of the nodes that share an old name the   *)
(* first one counts, or the last.                                            *)
FirstWins(old, new) == [n \in ToSet(old) |-> new[First(old, n)]]
LastWins(old, new) == [n \in ToSet(old) |-> new[Latest(old, n)]]

Rename(names, n) == IF n \in DOMAIN names THEN names[n] ELSE n
Renamed(nodes, new) == [j \in DOMAIN nodes |-> [nodes[j] EXCEPT !.name = new[j]]]

(* RewriteReferences: dialer-proxy, groups, rules, sub-rules, DNS selectors. *)
Redirected(nodes, names) ==
    [j \in DOMAIN nodes |-> [nodes[j] EXCEPT !.relay = Rename(names, @)]]
Retargeted(refs, names) == {[r EXCEPT !.target = Rename(names, @)] : r \in refs}
Rewritten(c, names) ==
    [nodes  |-> Redirected(c.nodes, names), refs |-> Retargeted(c.refs, names),
     labels |-> c.labels]

(* A source label renames every node of the subscription, and the group      *)
(* members that refer to them (rewriteProxyGroupRefs).                       *)
Normalized(i, c) ==
    IF ~profile[i].tagged THEN c ELSE
    LET old == NamesOf(c.nodes)
        new == [j \in DOMAIN c.nodes |-> Sourced(i, j)]
    IN  [nodes  |-> Renamed(c.nodes, new),
         refs   |-> {r \in c.refs : r.site # "group"} \union
                    Retargeted({r \in c.refs : r.site = "group"}, FirstWins(old, new)),
         labels |-> c.labels]

(* ensureUniqueProxyName: the names of a nodes file, one after the other.    *)
(* counts only remembers where to go on, all smaller numbers being taken;    *)
(* a node without a name gets that of its line.                              *)
Free(seen, n) == {i \in 2..(Len(seen) + 2) : Numbered(n, i) \notin ToSet(seen)}
AddName(seen, n) ==
    Append(seen, IF n \notin ToSet(seen) THEN n ELSE Numbered(n, Min(Free(seen, n))))
Unique(names) == FoldLeft(AddName, <<>>, names)
LineOf(f, j) ==
    Min({i \in DOMAIN f.lines : j <= Len(Listed([lines |-> SubSeq(f.lines, 1, i)]))})
NamesInFile(f) ==
    LET ns == NamesOf(Listed(f))
    IN  Unique([j \in DOMAIN ns |-> IF ns[j] = Nameless THEN Numbered(Raw("NODE"), LineOf(f, j))
                                                      ELSE ns[j]])

(* buildSubscriptionYAMLFromProxies: a group that lists every node. *)
Listing(nodes) ==
    [nodes  |-> nodes,
     refs   |-> {[site |-> "group", target |-> nodes[j].name, means |-> Chain(nodes, j)] :
                   j \in {k \in DOMAIN nodes : nodes[k].name # Nameless}},
     labels |-> {}]

(* Mutation: the names in a nodes file are left as they are. *)
LoadedAsNamed(i, f) ==
    CASE profile[i].form = "config" -> Normalized(i, Decoded(f))
      [] profile[i].form = "links"  -> Listing(Normalized(i, Decoded(f)).nodes)
      [] profile[i].form = "lines"  -> Listing(Listed(f))

(* loadOne *)
Loaded(i, f) ==
    CASE profile[i].form = "config" -> Normalized(i, Decoded(f))
      [] profile[i].form = "links"  -> Listing(Normalized(i, Decoded(f)).nodes)
      [] profile[i].form = "lines"  -> Listing(Renamed(Listed(f), NamesInFile(f)))

(* captureOptimized keeps the key of a node whose name contains the label;   *)
(* source labels do not contain it.                                          *)
HasLabel(n) == n[1] = "raw" /\ \E i \in DOMAIN n[2] : n[2][i][1] \in Optimized
Marked(nodes) == {j \in DOMAIN nodes : HasLabel(nodes[j].name)}
(* Mutation: a label is filed under the name that the provider gave. *)
CapturedByName(c) == c.labels \union {c.nodes[j].name : j \in Marked(c.nodes)}

Captured(c) == c.labels \union {Key(c.nodes[j]) : j \in Marked(c.nodes)}

(* Mutation: the names of the sources are kept. *)
NotIdentified(c) == [c EXCEPT !.labels = Captured(c)]

(* naming.Identify *)
Identified(c) ==
    LET old == NamesOf(c.nodes)
        new == [j \in DOMAIN c.nodes |-> Identity(Key(c.nodes[j]))]
    IN  Rewritten([nodes |-> Renamed(c.nodes, new), refs |-> c.refs, labels |-> Captured(c)],
                  FirstWins(old, new))

(* SubscriptionInto appends, then keeps the first node of each name. *)
AddNode(kept, n) == IF First(NamesOf(kept), n.name) = 0 THEN Append(kept, n) ELSE kept
Deduplicated(nodes) == FoldLeft(AddNode, <<>>, nodes)

(* Lists are appended.  Groups of one name become one that has the members   *)
(* of both (deduplicateProxyGroups), so no reference of either is lost.      *)
Referring(c, d) == c.refs \union d.refs

(* Mutation: of two sets of labels the one already there is kept. *)
JoinedFirstLabels(c, d) ==
    [nodes  |-> Deduplicated(c.nodes \o d.nodes),
     refs   |-> Referring(c, d),
     labels |-> IF c.labels = {} THEN d.labels ELSE c.labels]

Joined(c, d) ==
    [nodes  |-> Deduplicated(c.nodes \o d.nodes),
     refs   |-> Referring(c, d),
     labels |-> c.labels \union d.labels]

Applied(c) ==
    LET old == NamesOf(c.nodes)
        new == [j \in DOMAIN c.nodes |-> Display(j)]
    IN  Rewritten([nodes |-> Renamed(c.nodes, new), refs |-> c.refs, labels |-> Captured(c)],
                  LastWins(old, new))

-----------------------------------------------------------------------------
Init ==
    /\ profile \in Profiles
    /\ stage = 1
    /\ files = <<>>
    /\ cfg = [nodes |-> <<>>, refs |-> {}, labels |-> {}]

(* The template is the configuration that everything is merged into. *)
LoadTemplate ==
    /\ stage = 1
    /\ \E f \in profile[1].files :
           /\ files' = <<f>>
           /\ cfg' = Identified(Decoded(f))
    /\ stage' = 2
    /\ UNCHANGED profile

(* The subscriptions are merged in profile order.  One that failed, or cannot *)
(* be merged, ends the build here unless SkipSource applies.                 *)
MergeSource ==
    /\ stage \in 2..Len(profile)
    /\ \E f \in profile[stage].files :
           /\ files' = Append(files, f)
           /\ cfg' = Joined(cfg, Identified(Loaded(stage, f)))
    /\ stage' = stage + 1
    /\ UNCHANGED profile

(* fetch.ignoreFailed: a subscription that failed is passed over, unless     *)
(* none of them is left.                                                     *)
SkipSource ==
    /\ stage \in 2..Len(profile)
    /\ stage = Len(profile) => Len(files) > 1
    /\ stage' = stage + 1
    /\ UNCHANGED <<profile, files, cfg>>

ApplyNames ==
    /\ stage = Len(profile) + 1
    /\ cfg' = Applied(cfg)
    /\ stage' = stage + 1
    /\ UNCHANGED <<profile, files>>

Next == LoadTemplate \/ MergeSource \/ SkipSource \/ ApplyNames

Spec == Init /\ [][Next]_vars

-----------------------------------------------------------------------------
Built == stage = Len(profile) + 2

(* Where a name leads in the configuration: the endpoints behind it. *)
Leads(n) == Means(cfg.nodes, n)

(* naming.Export: the names that carry the optimization badge. *)
Exported ==
    {cfg.nodes[j].name : j \in Marked(cfg.nodes) \union
                               {k \in DOMAIN cfg.nodes : Key(cfg.nodes[k]) \in cfg.labels}}

ChainsOf(nodes, js) == {Chain(nodes, j) : j \in js}
MergedChains == UNION {ChainsOf(Offered(f), DOMAIN Offered(f)) : f \in ToSet(files)}
MarkedChains == UNION {ChainsOf(Offered(f), Marked(Offered(f))) : f \in ToSet(files)}

Keys == Endpoints \X Relays
Chains == Endpoints \X (Endpoints \union {NoName})
SourceNames == {"source"} \X Nat \X Nat
Identities == {"mcb"} \X Keys
Displays == {"node"} \X Nat
GivenNames == Identities \union Displays

TypeOK ==
    /\ profile \in Profiles
    /\ stage \in 1..(Len(profile) + 2)
    /\ Len(files) <= Len(profile)
    /\ \A k \in DOMAIN files : \E i \in DOMAIN profile : files[k] \in profile[i].files
    /\ cfg \in [nodes  : Seq([ep : Endpoints, relay : Relays \union GivenNames,
                             name : GivenNames]),
               refs   : SUBSET [site : {"group", "rule"}, means : Chains \union {<<>>},
                                target : Spelled \union SourceNames \union GivenNames],
               labels : SUBSET Keys]

(* "Different nodes with the same original label survive merging", and so    *)
(* does every node that some source has and another has not: each chain of   *)
(* endpoints of a merged file leads somewhere in the configuration.          *)
NodesSurvive ==
    stage > 1 => MergedChains \subseteq {Leads(cfg.nodes[j].name) : j \in DOMAIN cfg.nodes}

(* "Group, rule, dialer and DNS references follow renames": at every stage a *)
(* reference leads to the endpoints that its own file meant by it.           *)
ReferencesFollow ==
    \A r \in cfg.refs : r.means # <<>> => Leads(r.target) = r.means

(* The optimization badge belongs to the endpoint: a node is exported with   *)
(* it exactly if a merged source gives some node of that endpoint the label. *)
BadgeFollows ==
    Built => {Leads(n) : n \in Exported} = MarkedChains

-----------------------------------------------------------------------------
(* Under which conditions.  Dialer-proxies survive loading: the nodes that    *)
(* are listed line by line, or renamed by a source label, have none.         *)
ChainsKept ==
    \A i \in DOMAIN profile : \A f \in profile[i].files : \A j \in DOMAIN Offered(f) :
        profile[i].form # "config" \/ profile[i].tagged => Offered(f)[j].relay = NoName

(* Nodes of the merged files that have one key have one chain of endpoints.  *)
KeysTellApart ==
    \A f, g \in ToSet(files) : \A j \in DOMAIN Offered(f), k \in DOMAIN Offered(g) :
        Key(Offered(f)[j]) = Key(Offered(g)[k]) => Chain(Offered(f), j) = Chain(Offered(g), k)

(* References survive loading: only groups refer to the nodes that a source   *)
(* label renames, and no links of one URL share a name.                      *)
RefsKept ==
    \A i \in DOMAIN profile : \A f \in profile[i].files :
        /\ profile[i].form = "config" /\ profile[i].tagged =>
               \A r \in f.refs : r.site = "group" \/ Means(f.nodes, r.target) = <<>>
        /\ profile[i].form = "links" /\ ~profile[i].tagged => IsInjective(NamesOf(f.nodes))

(* A node with the optimization label has no dialer-proxy and keeps its name. *)
LabelsKept ==
    \A i \in DOMAIN profile : \A f \in profile[i].files : \A j \in Marked(Offered(f)) :
        ~profile[i].tagged /\ Offered(f)[j].relay = NoName

==============================================================================
