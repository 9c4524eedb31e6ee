--------------------------- MODULE MCNodeIdentity ---------------------------
(* Small source files for NodeIdentity: at most two nodes and one reference. *)
EXTENDS NodeIdentity, Functions

Names(S) == {Raw(l) : l \in S}
NodeRecords(labels, relays) == [ep : Endpoints, name : Names(labels), relay : relays]

(* Nodes refer to nodes of their file as dialer-proxy, never to themselves,  *)
(* and a dialer-proxy has none of its own.                                   *)
WellFormed(ps) ==
    \A j \in DOMAIN ps : ps[j].relay # NoName =>
        LET r == First(NamesOf(ps), ps[j].relay) IN r \notin {0, j} /\ ps[r].relay = NoName

(* Files over some node names, whose reference is to a node of the file. *)
FilesOver(labels, relays) ==
    {[nodes |-> ps, refs |-> rs] :
       ps \in {q \in BoundedSeq(NodeRecords(labels, relays), 2) : WellFormed(q)},
       rs \in {{}} \union {{[site |-> s, target |-> n]} :
                             s \in {"group", "rule"}, n \in Names(labels)}}
Meaningful(S) == {f \in S : \A r \in f.refs : r.target \in {f.nodes[j].name : j \in DOMAIN f.nodes}}

Empty == [nodes |-> <<>>, refs |-> {}]
NoRefs(S) == {f \in S : f.refs = {}}

Source(S) == [files |-> S, form |-> "config", tagged |-> FALSE]
Labelled(S) == [files |-> S, form |-> "config", tagged |-> TRUE]
Links(S, t) == [files |-> S, form |-> "links", tagged |-> t]
NodesFile(S) == [files |-> S, form |-> "lines", tagged |-> FALSE]

(* Three files that share their node names, one of them with the label. *)
Plain == Meaningful(FilesOver({"a", "fast"}, {NoName}))
Shared == <<Source({f \in Plain : Len(f.nodes) < 2}),
            Source({f \in Plain : Len(f.nodes) = 2 \/ f.refs = {}}),
            Source(NoRefs(Plain))>>

(* Chains: each file has node names of its own. *)
Chained(l, m) ==
    {f \in Meaningful(FilesOver({l, m}, Names({l, m}) \union {NoName})) :
        IsInjective(NamesOf(f.nodes))}
OwnNames == <<Source(NoRefs(Chained("a", "b"))), Source(Chained("c", "d"))>>

(* A subscription with a source label: only groups refer to its nodes, and  *)
(* none has the optimization label.                                          *)
Grouped == <<Source(NoRefs(Chained("a", "b"))),
             Labelled({f \in Meaningful(FilesOver({"a", "b"}, {NoName})) :
                          \A r \in f.refs : r.site = "group"})>>

(* Two lines of a nodes file, some nodes without a name, some named as if    *)
(* they had been numbered, some marked by the suffix of their line.          *)
LineNames == {Raw("a"), Numbered(Raw("a"), 2), Nameless}
LineNodes == [ep : Endpoints, name : LineNames, relay : {NoName}]
TwoLines(m, n) ==
    {[lines |-> <<[suffix |-> s, nodes |-> ps], [suffix |-> "", nodes |-> qs]>>] :
        s \in {"", "fast"}, ps \in TupleOf(LineNodes, m), qs \in TupleOf(LineNodes, n)}

(* Nodes of links, under names of their own or under a source label.         *)
Linked == NoRefs({f \in Plain : IsInjective(NamesOf(f.nodes))})
NodeLists == <<Source({Empty}), NodesFile(TwoLines(2, 1) \union TwoLines(1, 2)),
           Links({f \in Linked : Len(f.nodes) = 2}, FALSE)>>
Several == <<Source(NoRefs({f \in Plain : Len(f.nodes) = 1})),
             Links(NoRefs(FilesOver({"a", "b"}, {NoName})), TRUE), NodesFile(TwoLines(1, 1))>>

MCProfiles == {Shared, OwnNames, Grouped, NodeLists, Several}

(* Any subscription with a source label. *)
MCLabelled == {<<Source({Empty}), Labelled(Plain)>>}

(* Chains: the files use the same node names for nodes of their own. *)
MCSameNames == {<<Source({Empty}), Source(NoRefs(Chained("a", "b"))),
                  Source(NoRefs(Chained("a", "b")))>>}

(* Chains of a file where one of the names has the label. *)
MCFastChain == {<<Source({Empty}), Source(NoRefs(Chained("a", "fast")))>>}

MCOptimized == {"fast"}
MCTexts == {"a", "b", "c", "d", "fast", "NODE"}
==============================================================================
