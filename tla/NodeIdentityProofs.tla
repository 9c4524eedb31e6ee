------------------------- MODULE NodeIdentityProofs --------------------------
(***************************************************************************)
(* NodeIdentity's invariants for every profile, every file and every       *)
(* failure of a source.  The internal identity of a node is its key and    *)
(* nothing else: whoever is renamed by identity can be found by it again,  *)
(* from whichever file it came.  So the argument is one invariant: until   *)
(* the labels are applied the configuration Represents the merged files,   *)
(* and Applied keeps what a configuration that does so means.              *)
(***************************************************************************)
EXTENDS NodeIdentity, FoldLemmas

-----------------------------------------------------------------------------
(* What a sequence is over, sequences of the same length, and where a name    *)
(* stands in a sequence.                                                     *)
LEMMA Over ==
  ASSUME NEW E, NEW s \in Seq(E)
  PROVE  /\ \A j \in DOMAIN s : s[j] \in E
         /\ Len(s) \in Nat /\ DOMAIN s = 1..Len(s)
OBVIOUS

LEMMA Single ==
  ASSUME NEW E, NEW e \in E
  PROVE  <<e>> \in Seq(E)
OBVIOUS

LEMMA Mapped ==
  ASSUME NEW E, NEW s \in Seq(E), NEW Y, NEW g, g = [j \in DOMAIN s |-> g[j]],
         \A j \in DOMAIN s : g[j] \in Y
  PROVE  g \in Seq(Y) /\ Len(g) = Len(s) /\ DOMAIN g = DOMAIN s
<1>1. Len(s) \in Nat /\ DOMAIN s = 1..Len(s)
  OBVIOUS
<1>2. g \in [1..Len(s) -> Y]
  BY <1>1
<1>3. QED
  BY <1>1, <1>2

LEMMA FirstFound ==
  ASSUME NEW E, NEW s \in Seq(E), NEW n
  PROVE  /\ First(s, n) # 0 => First(s, n) \in DOMAIN s /\ s[First(s, n)] = n
         /\ First(s, n) = 0 <=> \A j \in DOMAIN s : s[j] # n
         /\ n \in ToSet(s) <=> First(s, n) # 0
<1> DEFINE T == {i \in 1..Len(s) : s[i] = n}
<1>1. First(s, n) = IF T # {} THEN Min(T) ELSE 0
  BY DEF First, SelectInSeq
<1>2. T \in SUBSET Nat /\ 0 \notin T /\ DOMAIN s = 1..Len(s)
  OBVIOUS
<1>3. T # {} => Min(T) \in T
  BY <1>2, MinProperties
<1>4. n \in ToSet(s) <=> T # {}
  BY <1>2 DEF ToSet
<1>5. QED
  BY <1>1, <1>2, <1>3, <1>4

LEMMA FirstOfOne ==
  ASSUME NEW E, NEW s \in Seq(E), NEW j \in DOMAIN s, \A k \in DOMAIN s : s[k] = s[j] => k = j
  PROVE  First(s, s[j]) = j
BY FirstFound

LEMMA LatestFound ==
  ASSUME NEW E, NEW s \in Seq(E), NEW n \in ToSet(s)
  PROVE  Latest(s, n) \in DOMAIN s /\ s[Latest(s, n)] = n
<1> DEFINE T == {i \in 1..Len(s) : s[i] = n}
<1>1. Latest(s, n) = IF T # {} THEN Max(T) ELSE 0
  BY DEF Latest, SelectLastInSeq
<1>2. T \in SUBSET (1..Len(s)) /\ Len(s) \in Nat /\ DOMAIN s = 1..Len(s)
  OBVIOUS
<1>3. T # {}
  BY <1>2 DEF ToSet
<1>4. Max(T) \in T
  BY <1>2, <1>3, MaxProperties
<1>5. QED
  BY <1>1, <1>2, <1>3, <1>4

LEMMA NamesOfNodes ==
  ASSUME NEW E, NEW s \in Seq(E), NEW N, \A j \in DOMAIN s : s[j].name \in N
  PROVE  /\ NamesOf(s) \in Seq(N) /\ DOMAIN NamesOf(s) = DOMAIN s
         /\ \A j \in DOMAIN s : NamesOf(s)[j] = s[j].name
<1>1. /\ NamesOf(s) = [j \in DOMAIN s |-> NamesOf(s)[j]]
      /\ \A j \in DOMAIN s : NamesOf(s)[j] = s[j].name
  BY DEF NamesOf
<1>2. QED
  BY <1>1, Mapped

-----------------------------------------------------------------------------
(* The names and the configurations of each stage.                           *)
NodesOver(R, N) == [ep : Endpoints, relay : R, name : N]
LoadedNodes == NodesOver(Relays, Spelled \union SourceNames)
IdentifiedNodes == NodesOver(Relays \union Identities, Identities)
RefsTo(T) == [site : {"group", "rule"}, target : T, means : Chains \union {<<>>}]
LoadedFiles == [nodes : Seq(LoadedNodes), refs : SUBSET RefsTo(Spelled \union SourceNames),
                labels : {{}}]
Merged == [nodes : Seq(IdentifiedNodes), refs : SUBSET RefsTo(Spelled \union SourceNames \union Identities),
           labels : SUBSET Keys]

(* No name is of two kinds. *)
LEMMA Kinds ==
  /\ \A n \in Spelled : n[1] = "raw"
  /\ \A n \in Identities : n[1] = "mcb"
  /\ \A n \in Displays : n[1] = "node"
  /\ \A n \in SourceNames : n[1] = "source"
  /\ NoName[1] = "none"
BY DEF Spelled, Identities, Displays, SourceNames, NoName

LEMMA IdentityOfKey ==
  /\ \A k \in Keys : Identity(k) \in Identities
  /\ \A k, l : Identity(k) = Identity(l) => k = l
BY DEF Identity, Identities

LEMMA KeysOfNodes ==
  ASSUME NEW n, n.ep \in Endpoints, n.relay \in Relays
  PROVE  Key(n) \in Keys /\ Key(n) = <<n.ep, n.relay>>
BY DEF Key, Keys

-----------------------------------------------------------------------------
(* A list is renamed or redirected node by node.                             *)
RenamedTo(ns, new, R, M, ms) ==
    /\ ms \in Seq(NodesOver(R, M)) /\ DOMAIN ms = DOMAIN ns
    /\ \A j \in DOMAIN ns : ms[j] = [ep |-> ns[j].ep, relay |-> ns[j].relay, name |-> new[j]]
RedirectedTo(ns, names, T, N, ms) ==
    /\ ms \in Seq(NodesOver(T, N)) /\ DOMAIN ms = DOMAIN ns
    /\ \A j \in DOMAIN ns :
          ms[j] = [ep |-> ns[j].ep, relay |-> Rename(names, ns[j].relay), name |-> ns[j].name]
RetargetedTo(rs, names, B, qs) ==
    /\ qs \in SUBSET RefsTo(B)
    /\ \A q \in qs : \E r \in rs :
          q.site = r.site /\ q.means = r.means /\ q.target = Rename(names, r.target)

LEMMA RenamedNodes ==
  ASSUME NEW R, NEW N, NEW ns \in Seq(NodesOver(R, N)), NEW M, NEW new,
         \A j \in DOMAIN ns : new[j] \in M
  PROVE  RenamedTo(ns, new, R, M, Renamed(ns, new))
<1>1. \A j \in DOMAIN ns : ns[j] \in NodesOver(R, N)
  BY Over
<1>2. \A j \in DOMAIN ns :
         Renamed(ns, new)[j] = [ep |-> ns[j].ep, relay |-> ns[j].relay, name |-> new[j]]
  BY <1>1 DEF Renamed, NodesOver
<1>3. Renamed(ns, new) = [j \in DOMAIN ns |-> Renamed(ns, new)[j]]
  BY DEF Renamed
<1>4. \A j \in DOMAIN ns : ns[j].ep \in Endpoints /\ ns[j].relay \in R /\ ns[j].name \in N
  BY <1>1 DEF NodesOver
<1> DEFINE Y == NodesOver(R, M)
           g == Renamed(ns, new)
<1>5. ASSUME NEW j \in DOMAIN ns PROVE g[j] \in Y
  <2>1. [ep |-> ns[j].ep, relay |-> ns[j].relay, name |-> new[j]] \in Y
    BY <1>4 DEF NodesOver
  <2>2. g[j] = [ep |-> ns[j].ep, relay |-> ns[j].relay, name |-> new[j]]
    BY <1>2
  <2> HIDE DEF Y, g
  <2>3. QED
    BY <2>1, <2>2
<1> HIDE DEF Y, g
<1>6. g \in Seq(Y) /\ DOMAIN g = DOMAIN ns
  BY <1>3, <1>5, Mapped DEF g
<1>7. QED
  BY <1>2, <1>6 DEF Y, g, RenamedTo

LEMMA RedirectedNodes ==
  ASSUME NEW R, NEW N, NEW ns \in Seq(NodesOver(R, N)), NEW T, NEW names,
         \A j \in DOMAIN ns : Rename(names, ns[j].relay) \in T
  PROVE  RedirectedTo(ns, names, T, N, Redirected(ns, names))
<1>1. \A j \in DOMAIN ns : ns[j] \in NodesOver(R, N)
  BY Over
<1>2. \A j \in DOMAIN ns : Redirected(ns, names)[j] =
               [ep |-> ns[j].ep, relay |-> Rename(names, ns[j].relay), name |-> ns[j].name]
  BY <1>1 DEF Redirected, NodesOver
<1>3. Redirected(ns, names) = [j \in DOMAIN ns |-> Redirected(ns, names)[j]]
  BY DEF Redirected
<1>4. \A j \in DOMAIN ns : ns[j].ep \in Endpoints /\ ns[j].relay \in R /\ ns[j].name \in N
  BY <1>1 DEF NodesOver
<1> DEFINE Y == NodesOver(T, N)
           g == Redirected(ns, names)
<1>5. ASSUME NEW j \in DOMAIN ns PROVE g[j] \in Y
  <2>1. [ep |-> ns[j].ep, relay |-> Rename(names, ns[j].relay), name |-> ns[j].name] \in Y
    BY <1>4 DEF NodesOver
  <2>2. g[j] = [ep |-> ns[j].ep, relay |-> Rename(names, ns[j].relay), name |-> ns[j].name]
    BY <1>2
  <2> HIDE DEF Y, g
  <2>3. QED
    BY <2>1, <2>2
<1> HIDE DEF Y, g
<1>6. g \in Seq(Y) /\ DOMAIN g = DOMAIN ns
  BY <1>3, <1>5, Mapped DEF g
<1>7. QED
  BY <1>2, <1>6 DEF Y, g, RedirectedTo

LEMMA RetargetedRefs ==
  ASSUME NEW A, NEW B, NEW rs \in SUBSET RefsTo(A), NEW names,
         \A r \in rs : Rename(names, r.target) \in B
  PROVE  RetargetedTo(rs, names, B, Retargeted(rs, names))
<1>1. ASSUME NEW s \in Retargeted(rs, names)
      PROVE  /\ s \in RefsTo(B)
             /\ \E r \in rs : s.site = r.site /\ s.means = r.means /\ s.target = Rename(names, r.target)
  <2>1. PICK r \in rs : s = [r EXCEPT !.target = Rename(names, @)]
    BY DEF Retargeted
  <2>2. r \in RefsTo(A) /\ Rename(names, r.target) \in B
    BY <2>1
  <2>3. s = [site |-> r.site, target |-> Rename(names, r.target), means |-> r.means]
    BY <2>1, <2>2 DEF RefsTo
  <2>4. QED
    BY <2>2, <2>3 DEF RefsTo
<1>2. QED
  BY <1>1 DEF RetargetedTo

-----------------------------------------------------------------------------
(* The first of the nodes of a name gives it its identity.                   *)
ByIdentity(ns, n) ==
    IF First(NamesOf(ns), n) = 0 THEN n ELSE Identity(Key(ns[First(NamesOf(ns), n)]))

LEMMA LoadedNames ==
  ASSUME NEW ns \in Seq(LoadedNodes)
  PROVE  /\ NamesOf(ns) \in Seq(Spelled \union SourceNames) /\ DOMAIN NamesOf(ns) = DOMAIN ns
         /\ \A j \in DOMAIN ns : NamesOf(ns)[j] = ns[j].name
<1>1. \A j \in DOMAIN ns : ns[j] \in LoadedNodes
  BY Over
<1>2. \A j \in DOMAIN ns : ns[j].name \in Spelled \union SourceNames
  BY <1>1 DEF LoadedNodes, NodesOver
<1>3. QED
  BY <1>2, NamesOfNodes

LEMMA Identifying ==
  ASSUME NEW ns \in Seq(LoadedNodes), NEW n
  PROVE  Rename(FirstWins(NamesOf(ns), [j \in DOMAIN ns |-> Identity(Key(ns[j]))]), n) = ByIdentity(ns, n)
<1> DEFINE old == NamesOf(ns)
           new == [j \in DOMAIN ns |-> Identity(Key(ns[j]))]
<1>1. old \in Seq(Spelled \union SourceNames) /\ DOMAIN old = DOMAIN ns
  BY LoadedNames
<1>2. /\ First(old, n) # 0 => First(old, n) \in DOMAIN ns
      /\ n \in ToSet(old) <=> First(old, n) # 0
  BY <1>1, FirstFound
<1>3. CASE n \in ToSet(old)
  BY <1>2, <1>3 DEF Rename, FirstWins, ByIdentity
<1>4. CASE n \notin ToSet(old)
  BY <1>2, <1>4 DEF Rename, FirstWins, ByIdentity
<1>5. QED
  BY <1>3, <1>4

LEMMA ByIdentityKinds ==
  ASSUME NEW ns \in Seq(LoadedNodes), NEW n
  PROVE  ByIdentity(ns, n) \in Identities \union {n}
<1>1. NamesOf(ns) \in Seq(Spelled \union SourceNames) /\ DOMAIN NamesOf(ns) = DOMAIN ns
  BY LoadedNames
<1>2. First(NamesOf(ns), n) # 0 => First(NamesOf(ns), n) \in DOMAIN ns
  BY <1>1, FirstFound
<1>3. \A j \in DOMAIN ns : ns[j] \in LoadedNodes
  BY Over
<1>4. \A j \in DOMAIN ns : Identity(Key(ns[j])) \in Identities
  BY <1>3, KeysOfNodes, IdentityOfKey DEF LoadedNodes, NodesOver
<1>5. QED
  BY <1>2, <1>4 DEF ByIdentity

-----------------------------------------------------------------------------
(* naming.Identify: every node is named by its key, and what referred to a    *)
(* node of the file by its name refers to it by its identity.                *)
IdentifiedTo(c, d) ==
    /\ d \in Merged /\ DOMAIN d.nodes = DOMAIN c.nodes
    /\ \A j \in DOMAIN c.nodes :
          /\ d.nodes[j].ep = c.nodes[j].ep
          /\ d.nodes[j].relay = ByIdentity(c.nodes, c.nodes[j].relay)
          /\ d.nodes[j].name = Identity(Key(c.nodes[j]))
    /\ \A q \in d.refs : \E r \in c.refs :
          q.means = r.means /\ q.target = ByIdentity(c.nodes, r.target)
    /\ d.labels = {Key(c.nodes[j]) : j \in Marked(c.nodes)}

LEMMA IdentifiedFile ==
  ASSUME NEW c \in LoadedFiles
  PROVE  IdentifiedTo(c, Identified(c))
<1> DEFINE ns == c.nodes
           rs == c.refs
           A == Spelled \union SourceNames
           ids == [j \in DOMAIN ns |-> Identity(Key(ns[j]))]
           names == FirstWins(NamesOf(ns), ids)
           marks == {Key(ns[j]) : j \in Marked(ns)}
           is == Renamed(ns, ids)
           redirected == Redirected(is, names)
           retargeted == Retargeted(rs, names)
           T == Relays \union Identities
           B == A \union Identities
<1>1. /\ ns \in Seq(LoadedNodes) /\ rs \in SUBSET RefsTo(A)
      /\ c = [nodes |-> ns, refs |-> rs, labels |-> {}]
  BY DEF LoadedFiles
<1>2. \A j \in DOMAIN ns : ns[j] \in LoadedNodes
  BY <1>1, Over
<1>3. \A j \in DOMAIN ns : ns[j].ep \in Endpoints /\ ns[j].relay \in Relays
  BY <1>2 DEF LoadedNodes, NodesOver
<1>4. \A j \in DOMAIN ns : Key(ns[j]) \in Keys /\ Identity(Key(ns[j])) \in Identities
  BY <1>3, KeysOfNodes, IdentityOfKey
<1>5. Identified(c) = [nodes |-> redirected, refs |-> retargeted, labels |-> marks]
  <2>1. Captured(c) = marks
    BY <1>1 DEF Captured
  <2>2. Identified(c) = Rewritten([nodes |-> is, refs |-> rs, labels |-> marks], names)
    BY <2>1 DEF Identified
  <2> HIDE DEF marks, names, is, rs
  <2>3. QED
    BY <2>2 DEF Rewritten, redirected, retargeted
<1>6. \A n : Rename(names, n) = ByIdentity(ns, n)
  BY <1>1, Identifying
<1>7. \A n : ByIdentity(ns, n) \in Identities \union {n}
  BY <1>1, ByIdentityKinds
<1>8. RenamedTo(ns, ids, Relays, Identities, is)
  <2>1. ns \in Seq(NodesOver(Relays, A))
    BY <1>1 DEF LoadedNodes
  <2>2. \A j \in DOMAIN ns : ids[j] \in Identities
    BY <1>4
  <2> HIDE DEF A, ids
  <2>3. QED
    BY <2>1, <2>2, RenamedNodes
<1>9. \A j \in DOMAIN ns : ids[j] = Identity(Key(ns[j]))
  OBVIOUS
<1> HIDE DEF names, ids, is
<1>10. RedirectedTo(is, names, T, Identities, redirected)
  <2>1. \A j \in DOMAIN is : is[j].relay \in Relays
    <3>1. ASSUME NEW j \in DOMAIN ns PROVE is[j].relay = ns[j].relay
      <4>1. is[j] = [ep |-> ns[j].ep, relay |-> ns[j].relay, name |-> ids[j]]
        BY <1>8 DEF RenamedTo
      <4>2. QED
        BY <4>1
    <3>2. QED
      BY <1>3, <1>8, <3>1 DEF RenamedTo
  <2>2. \A j \in DOMAIN is : Rename(names, is[j].relay) \in T
    BY <1>6, <1>7, <2>1
  <2>3. is \in Seq(NodesOver(Relays, Identities))
    BY <1>8 DEF RenamedTo
  <2> HIDE DEF T
  <2>4. QED
    BY <2>2, <2>3, RedirectedNodes
<1>11. /\ redirected \in Seq(IdentifiedNodes) /\ DOMAIN redirected = DOMAIN ns
       /\ \A j \in DOMAIN ns : /\ redirected[j].ep = ns[j].ep
                               /\ redirected[j].relay = ByIdentity(ns, ns[j].relay)
                               /\ redirected[j].name = Identity(Key(ns[j]))
  <2>1. redirected \in Seq(IdentifiedNodes) /\ DOMAIN redirected = DOMAIN ns /\ DOMAIN is = DOMAIN ns
    BY <1>8, <1>10 DEF IdentifiedNodes, RenamedTo, RedirectedTo
  <2>2. ASSUME NEW j \in DOMAIN ns
        PROVE  /\ redirected[j].ep = ns[j].ep
               /\ redirected[j].relay = ByIdentity(ns, ns[j].relay)
               /\ redirected[j].name = Identity(Key(ns[j]))
    <3>1. is[j] = [ep |-> ns[j].ep, relay |-> ns[j].relay, name |-> ids[j]]
      BY <1>8 DEF RenamedTo
    <3>2. redirected[j] = [ep |-> is[j].ep, relay |-> Rename(names, is[j].relay), name |-> is[j].name]
      BY <1>10, <2>1 DEF RedirectedTo
    <3> HIDE DEF redirected
    <3>3. QED
      BY <1>6, <1>9, <3>1, <3>2
  <2> HIDE DEF redirected
  <2>3. QED
    BY <2>1, <2>2
<1>12. RetargetedTo(rs, names, B, retargeted)
  <2>1. \A r \in rs : r.target \in A
    BY <1>1 DEF RefsTo
  <2>2. \A r \in rs : Rename(names, r.target) \in B
    BY <1>6, <1>7, <2>1
  <2> HIDE DEF A, B, rs
  <2>3. QED
    BY <1>1, <2>2, RetargetedRefs
<1>13. marks \in SUBSET Keys
  BY <1>4 DEF Marked
<1> HIDE DEF redirected, retargeted, marks
<1>14. Identified(c) \in Merged
  <2>1. retargeted \in SUBSET RefsTo(B)
    BY <1>12 DEF RetargetedTo
  <2>2. Merged = [nodes : Seq(IdentifiedNodes), refs : SUBSET RefsTo(B), labels : SUBSET Keys]
    BY DEF Merged
  <2> HIDE DEF B
  <2>3. QED
    BY <1>5, <1>11, <1>13, <2>1, <2>2
<1>15. \A q \in retargeted : \E r \in rs : q.means = r.means /\ q.target = ByIdentity(ns, r.target)
  BY <1>6, <1>12 DEF RetargetedTo
<1>16. QED
  BY <1>5, <1>11, <1>14, <1>15 DEF marks, IdentifiedTo

-----------------------------------------------------------------------------
(* Names as files spell them, with a suffix or a number more.                *)
LEMMA ExtendedName ==
  ASSUME NEW n \in Spelled, NEW q \in Parts
  PROVE  /\ Extended(n, q) \in Spelled
         /\ HasLabel(Extended(n, q)) <=> HasLabel(n) \/ q[1] \in Optimized
<1> DEFINE s == n[2]
           a == Append(s, q)
<1>1. s \in Seq(Parts) /\ n[1] = "raw"
  BY DEF Spelled
<1>2. /\ a \in Seq(Parts) /\ Len(s) \in Nat /\ DOMAIN s = 1..Len(s) /\ DOMAIN a = 1..(Len(s) + 1)
      /\ a[Len(s) + 1] = q /\ \A i \in 1..Len(s) : a[i] = s[i]
  <2> HIDE DEF s
  <2>1. QED
    BY <1>1
<1>3. Extended(n, q) = <<"raw", a>>
  BY DEF Extended
<1> HIDE DEF a, s
<1>4. HasLabel(Extended(n, q)) <=> \E i \in 1..(Len(s) + 1) : a[i][1] \in Optimized
  BY <1>2, <1>3 DEF HasLabel
<1>5. HasLabel(n) <=> \E i \in 1..Len(s) : s[i][1] \in Optimized
  BY <1>1, <1>2 DEF HasLabel, s
<1>6. \A i \in 1..(Len(s) + 1) : i \in 1..Len(s) \/ i = Len(s) + 1
  BY <1>2
<1>7. (\A i \in 1..Len(s) : i \in 1..(Len(s) + 1)) /\ Len(s) + 1 \in 1..(Len(s) + 1)
  BY <1>2
<1>8. HasLabel(Extended(n, q)) <=> HasLabel(n) \/ q[1] \in Optimized
  BY <1>2, <1>4, <1>5, <1>6, <1>7
<1>9. QED
  BY <1>2, <1>3, <1>8 DEF Spelled

LEMMA NumberedName ==
  ASSUME NEW n \in Spelled, NEW i \in Nat
  PROVE  Numbered(n, i) \in Spelled /\ (HasLabel(Numbered(n, i)) <=> HasLabel(n))
<1>1. <<"-", i>> \in Parts /\ <<"-", i>>[1] \notin Optimized
  BY IdentityAssumption DEF Parts
<1>2. QED
  BY <1>1, ExtendedName DEF Numbered

LEMMA NumbersDiffer ==
  ASSUME NEW n \in Spelled, NEW i \in Nat, NEW k \in Nat, Numbered(n, i) = Numbered(n, k)
  PROVE  i = k
<1> DEFINE s == n[2]
<1>1. s \in Seq(Parts) /\ <<"-", i>> \in Parts /\ <<"-", k>> \in Parts
  BY DEF Spelled, Parts
<1>2. Append(s, <<"-", i>>) = Append(s, <<"-", k>>)
  BY DEF Numbered, Extended
<1> HIDE DEF s
<1>3. Append(s, <<"-", i>>)[Len(s) + 1] = <<"-", i>> /\ Append(s, <<"-", k>>)[Len(s) + 1] = <<"-", k>>
  BY <1>1
<1>4. QED
  BY <1>2, <1>3

(* A file has fewer names than there are numbers to try. *)
LEMMA FreeNumber ==
  ASSUME NEW seen \in Seq(Spelled), NEW n \in Spelled
  PROVE  Min(Free(seen, n)) \in Nat /\ Numbered(n, Min(Free(seen, n))) \notin ToSet(seen)
<1> DEFINE m == Len(seen)
           tries == 2..(m + 2)
<1>1. m \in Nat /\ DOMAIN seen = 1..m
  OBVIOUS
<1>2. ASSUME Free(seen, n) = {} PROVE FALSE
  <2>1. \A i \in tries : \E j \in 1..m : seen[j] = Numbered(n, i)
    BY <1>1, <1>2 DEF Free, ToSet
  <2> DEFINE f == [i \in tries |-> CHOOSE j \in 1..m : seen[j] = Numbered(n, i)]
  <2>2. \A i \in tries : f[i] \in 1..m /\ seen[f[i]] = Numbered(n, i)
    BY <2>1
  <2>3. f \in [tries -> 1..m]
    BY <2>2
  <2>4. \A i, k \in tries : f[i] = f[k] => i = k
    <3>1. \A i \in tries : i \in Nat
      BY <1>1
    <3> HIDE DEF f, tries
    <3>2. QED
      BY <2>2, <3>1, NumbersDiffer
  <2>5. IsFiniteSet(1..m) /\ Cardinality(1..m) = m
    BY <1>1, FS_Interval
  <2>6. IsFiniteSet(tries) /\ Cardinality(tries) = m + 1
    BY <1>1, FS_Interval
  <2>7. Cardinality(tries) <= Cardinality(1..m)
    <3> HIDE DEF f, tries
    <3>1. f \in Injection(tries, 1..m)
      BY <2>3, <2>4 DEF Injection, IsInjective
    <3>2. QED
      BY <2>5, <3>1, FS_Injection
  <2>8. QED
    BY <1>1, <2>5, <2>6, <2>7
<1>3. Free(seen, n) \in SUBSET Nat
  BY <1>1 DEF Free
<1>4. Min(Free(seen, n)) \in Free(seen, n)
  BY <1>2, <1>3, MinProperties
<1>5. QED
  BY <1>3, <1>4 DEF Free

LEMMA SuffixedName ==
  ASSUME NEW n \in Spelled, NEW s \in Texts \union {""}
  PROVE  Suffixed(n, s) \in Spelled
<1>1. Raw("NODE") \in Spelled
  <2>1. <<"NODE">> \in Parts
    BY IdentityAssumption DEF Parts
  <2>2. <<<<"NODE">>>> \in Seq(Parts)
    BY <2>1, Single
  <2>3. QED
    BY <2>2 DEF Raw, Spelled
<1>2. s # "" => <<s>> \in Parts
  BY DEF Parts
<1>3. QED
  BY <1>1, <1>2, ExtendedName DEF Suffixed

-----------------------------------------------------------------------------
(* The nodes of a nodes file, line by line.                                  *)
LEMMA LineTypes ==
  ASSUME NEW ns \in Seq(Nodes), NEW l \in Lines
  PROVE  WithLine(ns, l) \in Seq(Nodes)
<1> DEFINE ms == [j \in DOMAIN l.nodes |-> [l.nodes[j] EXCEPT !.name = Suffixed(@, l.suffix)]]
<1>1. l.nodes \in Seq(Nodes) /\ l.suffix \in Texts \union {""}
  BY DEF Lines
<1>2. ASSUME NEW j \in DOMAIN l.nodes PROVE ms[j] \in Nodes
  <2>1. l.nodes[j] \in Nodes
    BY <1>1, Over
  <2>2. ms[j] = [ep |-> l.nodes[j].ep, relay |-> l.nodes[j].relay,
                 name |-> Suffixed(l.nodes[j].name, l.suffix)]
    BY <2>1 DEF Nodes
  <2>3. /\ l.nodes[j].ep \in Endpoints /\ l.nodes[j].relay \in Relays
        /\ Suffixed(l.nodes[j].name, l.suffix) \in Spelled
    BY <1>1, <2>1, SuffixedName DEF Nodes
  <2> HIDE DEF ms
  <2>4. QED
    BY <2>2, <2>3 DEF Nodes
<1>3. ms = [j \in DOMAIN l.nodes |-> ms[j]]
  OBVIOUS
<1>4. WithLine(ns, l) = ns \o ms
  BY DEF WithLine
<1> HIDE DEF ms
<1>5. ms \in Seq(Nodes)
  BY <1>1, <1>2, <1>3, Mapped
<1>6. QED
  BY <1>4, <1>5

LEMMA UnfoldLines ==
  ASSUME NEW f, f.lines \in Seq(Lines)
  PROVE  \E h : /\ h[1..0] = <<>> /\ h[1..Len(f.lines)] = Listed(f)
                /\ \A k \in Nat : k < Len(f.lines) => h[1..(k + 1)] = WithLine(h[1..k], f.lines[k + 1])
<1> DEFINE G == [p \in Seq(Nodes) \X Lines |-> WithLine(p[1], p[2])]
           Step(g) == [t \in SUBSET (DOMAIN f.lines) |->
                         IF t = {} THEN <<>> ELSE WithLine(g[t \ {Max(t)}], f.lines[Max(t)])]
<1>1. G \in [Seq(Nodes) \X Lines -> Seq(Nodes)]
  BY LineTypes
<1>2. PICK g \in [SUBSET (DOMAIN f.lines) -> Seq(Nodes)] : Folding(g, G, <<>>, f.lines, DOMAIN f.lines)
  <2> HIDE DEF G
  <2>1. <<>> \in Seq(Nodes)
    OBVIOUS
  <2>2. QED
    BY <1>1, <2>1, FoldExists
<1>3. \E iter : iter = Step(iter)
  <2>1. ASSUME NEW t \in SUBSET (DOMAIN f.lines), t # {}
        PROVE  G[<<g[t \ {Max(t)}], f.lines[Max(t)]>>] = WithLine(g[t \ {Max(t)}], f.lines[Max(t)])
    BY <1>2, <2>1, LastIndex
  <2>2. \A t \in SUBSET (DOMAIN f.lines) : g[t] = Step(g)[t]
    BY <1>2, <2>1 DEF Folding
  <2>3. QED
    BY <1>2, <2>2
<1> DEFINE h == CHOOSE iter : iter = Step(iter)
<1>4. h = Step(h)
  <2> HIDE DEF Step
  <2>1. QED
    BY <1>3
<1>5. Listed(f) = h[DOMAIN f.lines]
  BY Zenon DEF Listed, FoldLeft, MapThenFoldSet
<1> HIDE DEF h
<1>6. h[1..0] = <<>>
  BY <1>4, NoIndices
<1>7. ASSUME NEW k \in Nat, k < Len(f.lines)
      PROVE  h[1..(k + 1)] = WithLine(h[1..k], f.lines[k + 1])
  <2>1. /\ 1..(k + 1) \in SUBSET (DOMAIN f.lines) /\ 1..(k + 1) # {}
        /\ Max(1..(k + 1)) = k + 1 /\ (1..(k + 1)) \ {k + 1} = 1..k
    BY <1>7, FirstIndices
  <2>2. h[1..(k + 1)] = WithLine(h[(1..(k + 1)) \ {Max(1..(k + 1))}], f.lines[Max(1..(k + 1))])
    BY <1>4, <2>1
  <2>3. QED
    BY <2>1, <2>2
<1>8. QED
  BY <1>5, <1>6, <1>7, NoIndices

LEMMA ListedNodes ==
  ASSUME NEW f, f.lines \in Seq(Lines)
  PROVE  Listed(f) \in Seq(Nodes)
<1> DEFINE n == Len(f.lines)
           I == [k \in Nat |-> Seq(Nodes)]
<1>1. PICK h : /\ h[1..0] = <<>> /\ h[1..n] = Listed(f)
               /\ \A k \in Nat : k < n => h[1..(k + 1)] = WithLine(h[1..k], f.lines[k + 1])
  BY UnfoldLines
<1>2. n \in Nat /\ \A k \in Nat : k < n => f.lines[k + 1] \in Lines
  OBVIOUS
<1>3. h[1..0] \in I[0]
  BY <1>1
<1>4. ASSUME NEW k \in Nat, k < n, h[1..k] \in I[k] PROVE h[1..(k + 1)] \in I[k + 1]
  <2>1. h[1..k] \in Seq(Nodes) /\ f.lines[k + 1] \in Lines
    BY <1>2, <1>4
  <2>2. h[1..(k + 1)] = WithLine(h[1..k], f.lines[k + 1])
    BY <1>1, <1>4
  <2>3. WithLine(h[1..k], f.lines[k + 1]) \in Seq(Nodes)
    BY <2>1, LineTypes
  <2>4. QED
    BY <2>2, <2>3
<1>5. h[1..n] \in I[n]
  <2> HIDE DEF n, I
  <2>1. QED
    BY <1>2, <1>3, <1>4, FoldInvariant
<1>6. QED
  BY <1>1, <1>2, <1>5

-----------------------------------------------------------------------------
(* ensureUniqueProxyName: the names of a nodes file become different names,   *)
(* with the optimization label where they had it.                            *)
LEMMA NameTypes ==
  ASSUME NEW seen \in Seq(Spelled), NEW n \in Spelled
  PROVE  AddName(seen, n) \in Seq(Spelled)
BY FreeNumber, NumberedName DEF AddName

LEMMA UnfoldUnique ==
  ASSUME NEW ns \in Seq(Spelled)
  PROVE  \E h : /\ h[1..0] = <<>> /\ h[1..Len(ns)] = Unique(ns)
                /\ \A k \in Nat : k < Len(ns) => h[1..(k + 1)] = AddName(h[1..k], ns[k + 1])
<1> DEFINE G == [p \in Seq(Spelled) \X Spelled |-> AddName(p[1], p[2])]
           Step(g) == [t \in SUBSET (DOMAIN ns) |->
                         IF t = {} THEN <<>> ELSE AddName(g[t \ {Max(t)}], ns[Max(t)])]
<1>1. G \in [Seq(Spelled) \X Spelled -> Seq(Spelled)]
  BY NameTypes
<1>2. PICK g \in [SUBSET (DOMAIN ns) -> Seq(Spelled)] : Folding(g, G, <<>>, ns, DOMAIN ns)
  <2> HIDE DEF G
  <2>1. <<>> \in Seq(Spelled)
    OBVIOUS
  <2>2. QED
    BY <1>1, <2>1, FoldExists
<1>3. \E iter : iter = Step(iter)
  <2>1. ASSUME NEW t \in SUBSET (DOMAIN ns), t # {}
        PROVE  G[<<g[t \ {Max(t)}], ns[Max(t)]>>] = AddName(g[t \ {Max(t)}], ns[Max(t)])
    BY <1>2, <2>1, LastIndex
  <2>2. \A t \in SUBSET (DOMAIN ns) : g[t] = Step(g)[t]
    BY <1>2, <2>1 DEF Folding
  <2>3. QED
    BY <1>2, <2>2
<1> DEFINE h == CHOOSE iter : iter = Step(iter)
<1>4. h = Step(h)
  <2> HIDE DEF Step
  <2>1. QED
    BY <1>3
<1>5. Unique(ns) = h[DOMAIN ns]
  BY Zenon DEF Unique, FoldLeft, MapThenFoldSet
<1> HIDE DEF h
<1>6. h[1..0] = <<>>
  BY <1>4, NoIndices
<1>7. ASSUME NEW k \in Nat, k < Len(ns)
      PROVE  h[1..(k + 1)] = AddName(h[1..k], ns[k + 1])
  <2>1. /\ 1..(k + 1) \in SUBSET (DOMAIN ns) /\ 1..(k + 1) # {}
        /\ Max(1..(k + 1)) = k + 1 /\ (1..(k + 1)) \ {k + 1} = 1..k
    BY <1>7, FirstIndices
  <2>2. h[1..(k + 1)] = AddName(h[(1..(k + 1)) \ {Max(1..(k + 1))}], ns[Max(1..(k + 1))])
    BY <1>4, <2>1
  <2>3. QED
    BY <2>1, <2>2
<1>8. QED
  BY <1>5, <1>6, <1>7, NoIndices

Apart(ns, r, k) ==
    /\ r \in Seq(Spelled) /\ Len(r) = k /\ IsInjective(r)
    /\ \A j \in 1..k : HasLabel(r[j]) <=> HasLabel(ns[j])

LEMMA UniqueNames ==
  ASSUME NEW ns \in Seq(Spelled)
  PROVE  Apart(ns, Unique(ns), Len(ns))
<1> DEFINE n == Len(ns)
           I == [k \in Nat |-> {r \in Seq(Spelled) : Apart(ns, r, k)}]
<1>1. PICK h : /\ h[1..0] = <<>> /\ h[1..n] = Unique(ns)
               /\ \A k \in Nat : k < n => h[1..(k + 1)] = AddName(h[1..k], ns[k + 1])
  BY UnfoldUnique
<1>2. n \in Nat /\ \A k \in Nat : k < n => ns[k + 1] \in Spelled
  OBVIOUS
<1>3. h[1..0] \in I[0]
  BY <1>1 DEF Apart, IsInjective
<1>4. ASSUME NEW k \in Nat, k < n, h[1..k] \in I[k] PROVE h[1..(k + 1)] \in I[k + 1]
  <2> DEFINE r == h[1..k]
             e == ns[k + 1]
  <2>1. Apart(ns, r, k) /\ r \in Seq(Spelled) /\ e \in Spelled
    BY <1>2, <1>4
  <2>2. h[1..(k + 1)] = AddName(r, e)
    BY <1>1, <1>4
  <2> HIDE DEF r, e
  <2>3. PICK m \in Spelled : /\ AddName(r, e) = Append(r, m) /\ m \notin ToSet(r)
                             /\ HasLabel(m) <=> HasLabel(e)
    <3>1. CASE e \notin ToSet(r)
      BY <2>1, <3>1 DEF AddName
    <3>2. CASE e \in ToSet(r)
      BY <2>1, <3>2, FreeNumber, NumberedName DEF AddName
    <3>3. QED
      BY <3>1, <3>2
  <2>4. Append(r, m) \in Seq(Spelled) /\ IsInjective(Append(r, m))
    BY <2>1, <2>3, ElementsOfAppend DEF Apart
  <2>5. /\ Len(Append(r, m)) = k + 1 /\ Append(r, m)[k + 1] = m
        /\ \A j \in 1..k : Append(r, m)[j] = r[j]
    BY <2>1 DEF Apart
  <2>6. ASSUME NEW j \in 1..(k + 1) PROVE HasLabel(Append(r, m)[j]) <=> HasLabel(ns[j])
    <3>1. CASE j \in 1..k
      BY <2>1, <2>5, <3>1 DEF Apart
    <3>2. CASE j = k + 1
      BY <2>3, <2>5, <3>2 DEF e
    <3>3. j \in 1..k \/ j = k + 1
      OBVIOUS
    <3>4. QED
      BY <3>1, <3>2, <3>3, Zenon
  <2>7. Apart(ns, AddName(r, e), k + 1)
    BY <2>3, <2>4, <2>5, <2>6 DEF Apart
  <2>8. QED
    BY <2>2, <2>3, <2>4, <2>7
<1>5. h[1..n] \in I[n]
  <2> HIDE DEF n, I
  <2>1. QED
    BY <1>2, <1>3, <1>4, FoldInvariant
<1>6. QED
  BY <1>1, <1>2, <1>5

-----------------------------------------------------------------------------
(* What a profile promises of its files.                                     *)
Shape(p, i, f) ==
    /\ p[i].form \in {"config", "links", "lines"} /\ p[i].tagged \in BOOLEAN
    /\ p[i].form # "lines" =>
          f.nodes \in Seq(Nodes) /\ f.refs \in SUBSET Refs /\ Offered(f) = f.nodes
    /\ p[i].form = "lines" => ~p[i].tagged /\ Offered(f) = Listed(f)
    /\ Offered(f) \in Seq(Nodes)

LEMMA ProfileIndex ==
  ASSUME NEW p \in Profiles, NEW i \in DOMAIN p
  PROVE  i \in Nat
<1> DEFINE R == [files : {p[k].files : k \in DOMAIN p},
                 form : {"config", "links", "lines"}, tagged : BOOLEAN]
<1>1. p \in Seq(R)
  BY IdentityAssumption
<1> HIDE DEF R
<1>2. QED
  BY <1>1, Over

LEMMA FileShapes ==
  ASSUME NEW p \in Profiles, NEW i \in DOMAIN p, NEW f \in p[i].files
  PROVE  Shape(p, i, f)
<1>1. p[i].form \in {"config", "links", "lines"} /\ p[i].tagged \in BOOLEAN
  <2> DEFINE R == [files : {p[k].files : k \in DOMAIN p},
                   form : {"config", "links", "lines"}, tagged : BOOLEAN]
  <2>1. p \in Seq(R)
    BY IdentityAssumption
  <2>2. p[i] \in R
    <3> HIDE DEF R
    <3>1. QED
      BY <2>1, Over
  <2>3. QED
    BY <2>2
<1>2. CASE p[i].form = "lines"
  <2>1. ~p[i].tagged /\ f \in [lines : Seq(Lines)]
    BY <1>2, IdentityAssumption
  <2>2. f.lines \in Seq(Lines) /\ "lines" \in DOMAIN f
    BY <2>1
  <2>3. Offered(f) = Listed(f)
    BY <2>2 DEF Offered
  <2>4. QED
    BY <1>1, <1>2, <2>1, <2>2, <2>3, ListedNodes DEF Shape
<1>3. CASE p[i].form # "lines"
  <2>1. f \in [nodes : Seq(Nodes), refs : SUBSET Refs]
    BY <1>3, IdentityAssumption
  <2>2. f.nodes \in Seq(Nodes) /\ f.refs \in SUBSET Refs /\ "lines" \notin DOMAIN f
    BY <2>1
  <2>3. Offered(f) = f.nodes
    BY <2>2 DEF Offered
  <2>4. QED
    BY <1>1, <1>3, <2>2, <2>3 DEF Shape
<1>4. QED
  BY <1>2, <1>3

-----------------------------------------------------------------------------
(* Chains of nodes that have any names.                                      *)
LEMMA NodesTyped ==
  ASSUME NEW R, NEW N, NEW ns \in Seq(NodesOver(R, N))
  PROVE  \A j \in DOMAIN ns : ns[j].ep \in Endpoints /\ ns[j].relay \in R /\ ns[j].name \in N
<1>1. \A j \in DOMAIN ns : ns[j] \in NodesOver(R, N)
  BY Over
<1>2. QED
  BY <1>1 DEF NodesOver

LEMMA ChainKinds ==
  ASSUME NEW R, NEW N, NEW ns \in Seq(NodesOver(R, N))
  PROVE  /\ \A j \in DOMAIN ns : Chain(ns, j) \in Chains
         /\ \A n : Means(ns, n) \in Chains \union {<<>>}
<1>1. \A j \in DOMAIN ns : ns[j].ep \in Endpoints /\ ns[j].name \in N
  BY NodesTyped
<1>2. NamesOf(ns) \in Seq(N) /\ DOMAIN NamesOf(ns) = DOMAIN ns
  BY <1>1, NamesOfNodes
<1>3. \A n : First(NamesOf(ns), n) # 0 => First(NamesOf(ns), n) \in DOMAIN ns
  BY <1>2, FirstFound
<1>4. \A j \in DOMAIN ns : Chain(ns, j) \in Chains
  BY <1>1, <1>3 DEF Chain, Chains
<1>5. QED
  BY <1>3, <1>4 DEF Means

LEMMA NoDialer ==
  ASSUME NEW R, NEW N, NEW ns \in Seq(NodesOver(R, N)), NoName \notin N,
         NEW j \in DOMAIN ns, ns[j].relay = NoName
  PROVE  Chain(ns, j) = <<ns[j].ep, NoName>>
<1>1. \A k \in DOMAIN ns : ns[k].name \in N
  BY NodesTyped
<1>2. NamesOf(ns) \in Seq(N) /\ DOMAIN NamesOf(ns) = DOMAIN ns /\ \A k \in DOMAIN ns : NamesOf(ns)[k] \in N
  BY <1>1, NamesOfNodes
<1>3. First(NamesOf(ns), NoName) = 0
  BY <1>2, FirstFound
<1>4. QED
  BY <1>3 DEF Chain

LEMMA NoNameIsNone == NoName \notin Spelled \union SourceNames \union Identities \union Displays
BY Kinds

LEMMA FileNodes == Nodes = NodesOver(Relays, Spelled)
BY DEF Nodes, NodesOver

LEMMA FileNodesLoad ==
  ASSUME NEW ns \in Seq(Nodes)
  PROVE  ns \in Seq(LoadedNodes)
<1>1. Nodes \subseteq LoadedNodes
  BY DEF Nodes, LoadedNodes, NodesOver
<1>2. ASSUME NEW A, NEW B, A \subseteq B, NEW s \in Seq(A) PROVE s \in Seq(B)
  BY <1>2
<1>3. QED
  BY <1>1, <1>2

-----------------------------------------------------------------------------
(* loadOne: whatever a source is, the configuration made of it has the nodes  *)
(* that the source offers, in order, maybe under other names.                *)
SameNodes(ns, ms) ==
    /\ DOMAIN ms = DOMAIN ns
    /\ \A j \in DOMAIN ns : ms[j].ep = ns[j].ep /\ ms[j].relay = ns[j].relay

LEMMA DecodedFile ==
  ASSUME NEW f, f.nodes \in Seq(Nodes), f.refs \in SUBSET Refs
  PROVE  /\ Decoded(f) \in LoadedFiles
         /\ Decoded(f).nodes = f.nodes
         /\ \A q \in Decoded(f).refs : \E r \in f.refs :
               q.site = r.site /\ q.target = r.target /\ q.means = Means(f.nodes, r.target)
<1> DEFINE rs == {[site |-> r.site, target |-> r.target, means |-> Means(f.nodes, r.target)] : r \in f.refs}
           A == Spelled \union SourceNames
<1>1. Decoded(f) = [nodes |-> f.nodes, refs |-> rs, labels |-> {}]
  BY DEF Decoded
<1>2. f.nodes \in Seq(LoadedNodes)
  BY FileNodesLoad
<1>3. \A n : Means(f.nodes, n) \in Chains \union {<<>>}
  BY ChainKinds, FileNodes
<1>4. ASSUME NEW r \in f.refs
      PROVE  [site |-> r.site, target |-> r.target, means |-> Means(f.nodes, r.target)] \in RefsTo(A)
  <2>1. r.site \in {"group", "rule"} /\ r.target \in A
    BY DEF Refs, Targets
  <2>2. QED
    BY <1>3, <2>1 DEF RefsTo
<1>5. rs \in SUBSET RefsTo(A)
  BY <1>4
<1>6. ASSUME NEW q \in rs
      PROVE  \E r \in f.refs : q.site = r.site /\ q.target = r.target /\ q.means = Means(f.nodes, r.target)
  OBVIOUS
<1>7. LoadedFiles = [nodes : Seq(LoadedNodes), refs : SUBSET RefsTo(A), labels : {{}}]
  BY DEF LoadedFiles
<1> HIDE DEF rs, A
<1>8. Decoded(f) \in LoadedFiles
  BY <1>1, <1>2, <1>5, <1>7
<1>9. QED
  BY <1>1, <1>6, <1>8

Bent(i, f, n) ==
    Rename(FirstWins(NamesOf(f.nodes), [j \in DOMAIN f.nodes |-> Sourced(i, j)]), n)
NormalizedTo(i, f, d) ==
    /\ d \in LoadedFiles /\ SameNodes(f.nodes, d.nodes)
    /\ \A j \in DOMAIN f.nodes : d.nodes[j].name = Sourced(i, j)
    /\ \A q \in d.refs : \E r \in f.refs :
          /\ q.means = Means(f.nodes, r.target)
          /\ q.target = IF r.site = "group" THEN Bent(i, f, r.target) ELSE r.target

LEMMA BentKinds ==
  ASSUME NEW i \in Nat, NEW f, f.nodes \in Seq(Nodes), NEW n
  PROVE  /\ Bent(i, f, n) \in SourceNames \union {n}
         /\ First(NamesOf(f.nodes), n) # 0 => Bent(i, f, n) = Sourced(i, First(NamesOf(f.nodes), n))
<1> DEFINE ns == f.nodes
           old == NamesOf(ns)
<1>1. \A j \in DOMAIN ns : ns[j].name \in Spelled
  BY NodesTyped, FileNodes
<1>2. old \in Seq(Spelled) /\ DOMAIN old = DOMAIN ns /\ DOMAIN ns = 1..Len(ns) /\ Len(ns) \in Nat
  BY <1>1, NamesOfNodes
<1>3. /\ First(old, n) # 0 => First(old, n) \in DOMAIN ns
      /\ n \in ToSet(old) <=> First(old, n) # 0
  BY <1>2, FirstFound
<1>4. \A j \in DOMAIN ns : Sourced(i, j) \in SourceNames
  BY <1>2 DEF Sourced, SourceNames
<1>5. CASE First(old, n) # 0
  BY <1>3, <1>4, <1>5 DEF Bent, Rename, FirstWins
<1>6. CASE First(old, n) = 0
  BY <1>3, <1>6 DEF Bent, Rename, FirstWins
<1>7. QED
  BY <1>5, <1>6

LEMMA NormalizedFile ==
  ASSUME NEW i \in Nat, profile[i].tagged = TRUE,
         NEW f, f.nodes \in Seq(Nodes), f.refs \in SUBSET Refs
  PROVE  NormalizedTo(i, f, Normalized(i, Decoded(f)))
<1> DEFINE ns == f.nodes
           rs == Decoded(f).refs
           A == Spelled \union SourceNames
           new == [j \in DOMAIN ns |-> Sourced(i, j)]
           names == FirstWins(NamesOf(ns), new)
           group == {q \in rs : q.site = "group"}
           ms == Renamed(ns, new)
           qs == {q \in rs : q.site # "group"} \union Retargeted(group, names)
<1>1. Normalized(i, Decoded(f)) = [nodes |-> ms, refs |-> qs, labels |-> {}]
  <2>1. Decoded(f).nodes = ns /\ Decoded(f).labels = {}
    BY DEF Decoded
  <2>2. QED
    BY <2>1 DEF Normalized
<1>2. /\ rs \in SUBSET RefsTo(A)
      /\ \A q \in rs : \E r \in f.refs :
            q.site = r.site /\ q.target = r.target /\ q.means = Means(ns, r.target)
  BY DecodedFile DEF LoadedFiles
<1>3. /\ ms \in Seq(LoadedNodes) /\ SameNodes(ns, ms)
      /\ \A j \in DOMAIN ns : ms[j].name = Sourced(i, j)
  <2>1. \A j \in DOMAIN ns : new[j] \in A
    <3>1. \A j \in DOMAIN ns : j \in Nat
      BY Over
    <3>2. QED
      BY <3>1 DEF Sourced, SourceNames
  <2>2. ns \in Seq(NodesOver(Relays, Spelled))
    BY FileNodes
  <2>3. RenamedTo(ns, new, Relays, A, ms)
    <3> HIDE DEF A, new, ns
    <3>1. QED
      BY <2>1, <2>2, RenamedNodes DEF ms
  <2>4. ASSUME NEW j \in DOMAIN ns
        PROVE  ms[j].ep = ns[j].ep /\ ms[j].relay = ns[j].relay /\ ms[j].name = Sourced(i, j)
    <3>1. ms[j] = [ep |-> ns[j].ep, relay |-> ns[j].relay, name |-> new[j]]
      BY <2>3 DEF RenamedTo
    <3> HIDE DEF ms
    <3>2. QED
      BY <3>1
  <2> HIDE DEF ms, new
  <2>5. QED
    BY <2>3, <2>4 DEF RenamedTo, SameNodes, LoadedNodes
<1>4. \A n : Rename(names, n) = Bent(i, f, n)
  BY DEF Bent
<1>5. RetargetedTo(group, names, A, Retargeted(group, names))
  <2>1. group \in SUBSET RefsTo(A)
    BY <1>2
  <2>2. \A q \in group : q.target \in A
    BY <2>1 DEF RefsTo
  <2>3. \A n \in A : Bent(i, f, n) \in A
    BY BentKinds
  <2>4. \A q \in group : Rename(names, q.target) \in A
    <3> HIDE DEF A, group, names
    <3>1. QED
      BY <1>4, <2>2, <2>3
  <2> HIDE DEF A, group, names
  <2>5. QED
    BY <2>1, <2>4, RetargetedRefs
<1>6. qs \in SUBSET RefsTo(A)
  BY <1>2, <1>5 DEF RetargetedTo
<1>7. ASSUME NEW q \in qs
      PROVE  \E r \in f.refs : /\ q.means = Means(ns, r.target)
                               /\ q.target = IF r.site = "group" THEN Bent(i, f, r.target) ELSE r.target
  <2>1. CASE q \in rs /\ q.site # "group"
    BY <1>2, <2>1
  <2>2. CASE q \in Retargeted(group, names)
    <3>1. PICK s \in group : q.means = s.means /\ q.target = Rename(names, s.target)
      BY <1>5, <2>2 DEF RetargetedTo
    <3>2. PICK r \in f.refs : s.site = r.site /\ s.target = r.target /\ s.means = Means(ns, r.target)
      BY <1>2, <3>1
    <3>3. s.site = "group"
      OBVIOUS
    <3> HIDE DEF names
    <3>4. QED
      BY <1>4, <3>1, <3>2, <3>3
  <2>3. QED
    BY <2>1, <2>2
<1>8. LoadedFiles = [nodes : Seq(LoadedNodes), refs : SUBSET RefsTo(A), labels : {{}}]
  BY DEF LoadedFiles
<1> HIDE DEF ms, qs, A
<1>9. Normalized(i, Decoded(f)) \in LoadedFiles
  BY <1>1, <1>3, <1>6, <1>8
<1>10. QED
  BY <1>1, <1>3, <1>7, <1>9 DEF NormalizedTo

ListingTo(ns, d) ==
    /\ d \in LoadedFiles /\ d.nodes = ns
    /\ \A q \in d.refs : \E j \in DOMAIN ns : q.target = ns[j].name /\ q.means = Chain(ns, j)

LEMMA ListingFile ==
  ASSUME NEW ns \in Seq(LoadedNodes)
  PROVE  ListingTo(ns, Listing(ns))
<1> DEFINE A == Spelled \union SourceNames
           L == {k \in DOMAIN ns : ns[k].name # Nameless}
           rs == {[site |-> "group", target |-> ns[j].name, means |-> Chain(ns, j)] : j \in L}
<1>1. Listing(ns) = [nodes |-> ns, refs |-> rs, labels |-> {}]
  BY DEF Listing
<1>2. \A j \in DOMAIN ns : ns[j].name \in A
  BY NodesTyped DEF LoadedNodes
<1>3. \A j \in DOMAIN ns : Chain(ns, j) \in Chains
  BY ChainKinds DEF LoadedNodes
<1>4. ASSUME NEW j \in L
      PROVE  [site |-> "group", target |-> ns[j].name, means |-> Chain(ns, j)] \in RefsTo(A)
  BY <1>2, <1>3 DEF RefsTo
<1>5. rs \in SUBSET RefsTo(A)
  BY <1>4
<1>6. ASSUME NEW q \in rs
      PROVE  \E j \in DOMAIN ns : q.target = ns[j].name /\ q.means = Chain(ns, j)
  OBVIOUS
<1>7. LoadedFiles = [nodes : Seq(LoadedNodes), refs : SUBSET RefsTo(A), labels : {{}}]
  BY DEF LoadedFiles
<1> HIDE DEF rs, A
<1>8. Listing(ns) \in LoadedFiles
  BY <1>1, <1>5, <1>7
<1>9. QED
  BY <1>1, <1>6, <1>8 DEF ListingTo

Meant(f, ns, q) ==
    \E l \in DOMAIN Offered(f) : /\ q.means = Chain(Offered(f), l)
                                 /\ ByIdentity(ns, q.target) = Identity(Key(Offered(f)[l]))
LoadedTo(i, f, d) ==
    /\ d \in LoadedFiles /\ SameNodes(Offered(f), d.nodes)
    /\ ChainsKept /\ (profile[i].form # "config" \/ profile[i].tagged) =>
          \A j \in DOMAIN Offered(f) : Offered(f)[j].relay = NoName
    /\ profile[i].form = "config" /\ ~profile[i].tagged => d.nodes = Offered(f)
    /\ LabelsKept => Marked(d.nodes) = Marked(Offered(f))
    /\ ChainsKept /\ RefsKept => \A q \in d.refs : q.means # <<>> => Meant(f, d.nodes, q)

LEMMA SourcedNodes ==
  ASSUME NEW i \in Nat, NEW ns \in Seq(LoadedNodes),
         \A j \in DOMAIN ns : ns[j].name = Sourced(i, j)
  PROVE  /\ \A j \in DOMAIN ns : First(NamesOf(ns), Sourced(i, j)) = j
         /\ Marked(ns) = {}
<1>1. /\ NamesOf(ns) \in Seq(Spelled \union SourceNames) /\ DOMAIN NamesOf(ns) = DOMAIN ns
      /\ \A j \in DOMAIN ns : NamesOf(ns)[j] = Sourced(i, j)
  BY LoadedNames
<1>2. \A j, k : Sourced(i, j) = Sourced(i, k) => j = k
  BY DEF Sourced
<1>3. \A j \in DOMAIN ns : First(NamesOf(ns), Sourced(i, j)) = j
  BY <1>1, <1>2, FirstOfOne
<1>4. \A j \in DOMAIN ns : ~HasLabel(ns[j].name)
  BY DEF Sourced, HasLabel
<1>5. QED
  BY <1>3, <1>4 DEF Marked

LEMMA SameKeys ==
  ASSUME NEW ns, NEW ms, SameNodes(ns, ms), NEW j \in DOMAIN ns
  PROVE  Key(ms[j]) = Key(ns[j])
BY DEF SameNodes, Key

(* A reference to one of several names that all differ. *)
LEMMA MeantByName ==
  ASSUME NEW f, Offered(f) \in Seq(Nodes),
         NEW ns \in Seq(LoadedNodes), SameNodes(Offered(f), ns), IsInjective(NamesOf(ns)),
         \A j \in DOMAIN Offered(f) : Offered(f)[j].relay = NoName,
         NEW q, NEW j \in DOMAIN ns, q.target = ns[j].name, q.means = Chain(ns, j)
  PROVE  Meant(f, ns, q)
<1> DEFINE os == Offered(f)
<1>1. j \in DOMAIN os /\ ns[j].relay = NoName /\ os[j].relay = NoName /\ ns[j].ep = os[j].ep
  BY DEF SameNodes
<1>2. NoName \notin Spelled /\ NoName \notin Spelled \union SourceNames
  BY NoNameIsNone
<1>3. Chain(os, j) = <<os[j].ep, NoName>>
  BY <1>1, <1>2, NoDialer, FileNodes
<1>4. Chain(ns, j) = <<ns[j].ep, NoName>>
  BY <1>1, <1>2, NoDialer DEF LoadedNodes
<1>5. /\ NamesOf(ns) \in Seq(Spelled \union SourceNames) /\ DOMAIN NamesOf(ns) = DOMAIN ns
      /\ NamesOf(ns)[j] = ns[j].name
  BY LoadedNames
<1>6. First(NamesOf(ns), ns[j].name) = j
  BY <1>5, FirstOfOne DEF IsInjective
<1>7. j # 0
  BY Over
<1>8. Key(ns[j]) = Key(os[j])
  BY <1>1, SameKeys
<1>9. ByIdentity(ns, q.target) = Identity(Key(os[j]))
  BY <1>6, <1>7, <1>8 DEF ByIdentity
<1>10. QED
  BY <1>1, <1>3, <1>4, <1>9 DEF Meant

LEMMA LoadedConfig ==
  ASSUME profile \in Profiles, NEW i \in DOMAIN profile, NEW f \in profile[i].files,
         profile[i].form = "config", ~profile[i].tagged
  PROVE  LoadedTo(i, f, Loaded(i, f))
<1> DEFINE d == Decoded(f)
           ns == f.nodes
<1>1. f.nodes \in Seq(Nodes) /\ f.refs \in SUBSET Refs /\ Offered(f) = f.nodes
  BY FileShapes DEF Shape
<1>2. Loaded(i, f) = d
  BY DEF Loaded, Normalized
<1>3. /\ d \in LoadedFiles /\ d.nodes = ns
      /\ \A q \in d.refs : \E r \in f.refs :
            q.site = r.site /\ q.target = r.target /\ q.means = Means(ns, r.target)
  BY <1>1, DecodedFile
<1> HIDE DEF d
<1>4. ASSUME NEW q \in d.refs, q.means # <<>> PROVE Meant(f, ns, q)
  <2>1. q.means = Means(ns, q.target)
    BY <1>3
  <2>2. First(NamesOf(ns), q.target) # 0 /\ q.means = Chain(ns, First(NamesOf(ns), q.target))
    BY <1>4, <2>1 DEF Means
  <2>3. NamesOf(ns) \in Seq(Spelled \union SourceNames) /\ DOMAIN NamesOf(ns) = DOMAIN ns
    BY <1>1, FileNodesLoad, LoadedNames
  <2>4. First(NamesOf(ns), q.target) \in DOMAIN ns
    BY <2>2, <2>3, FirstFound
  <2>5. QED
    BY <1>1, <2>2, <2>4 DEF Meant, ByIdentity
<1>5. SameNodes(ns, ns)
  BY DEF SameNodes
<1>6. QED
  BY <1>1, <1>2, <1>3, <1>4, <1>5 DEF LoadedTo

LEMMA LoadedTagged ==
  ASSUME profile \in Profiles, NEW i \in DOMAIN profile, NEW f \in profile[i].files,
         profile[i].form = "config", profile[i].tagged
  PROVE  LoadedTo(i, f, Loaded(i, f))
<1> DEFINE d == Normalized(i, Decoded(f))
           ns == f.nodes
<1>1. f.nodes \in Seq(Nodes) /\ f.refs \in SUBSET Refs /\ Offered(f) = ns /\ profile[i].tagged = TRUE
  BY FileShapes DEF Shape
<1>2. Loaded(i, f) = d
  BY DEF Loaded
<1>3. i \in Nat
  BY ProfileIndex
<1>4. NormalizedTo(i, f, d)
  BY <1>1, <1>3, NormalizedFile
<1> HIDE DEF d
<1>5. /\ d \in LoadedFiles /\ d.nodes \in Seq(LoadedNodes) /\ SameNodes(ns, d.nodes)
      /\ DOMAIN d.nodes = DOMAIN ns
  BY <1>4 DEF NormalizedTo, LoadedFiles, SameNodes
<1>6. /\ \A j \in DOMAIN ns : First(NamesOf(d.nodes), Sourced(i, j)) = j
      /\ Marked(d.nodes) = {}
  <2>1. \A j \in DOMAIN d.nodes : d.nodes[j].name = Sourced(i, j)
    BY <1>4, <1>5 DEF NormalizedTo
  <2>2. QED
    BY <1>3, <1>5, <2>1, SourcedNodes
<1>7. LabelsKept => Marked(ns) = {}
  BY <1>1 DEF LabelsKept
<1>8. ASSUME ChainsKept PROVE \A j \in DOMAIN ns : ns[j].relay = NoName
  BY <1>1, <1>8 DEF ChainsKept
<1>9. ASSUME RefsKept, NEW q \in d.refs, q.means # <<>> PROVE Meant(f, d.nodes, q)
  <2>1. PICK r \in f.refs : /\ q.means = Means(ns, r.target)
                            /\ q.target = IF r.site = "group" THEN Bent(i, f, r.target) ELSE r.target
    BY <1>4 DEF NormalizedTo
  <2>2. r.site = "group"
    BY <1>9, <2>1 DEF RefsKept
  <2> DEFINE l == First(NamesOf(ns), r.target)
  <2>3. l # 0 /\ q.means = Chain(ns, l)
    BY <1>9, <2>1 DEF Means
  <2>4. NamesOf(ns) \in Seq(Spelled \union SourceNames) /\ DOMAIN NamesOf(ns) = DOMAIN ns
    BY <1>1, FileNodesLoad, LoadedNames
  <2>5. l \in DOMAIN ns
    BY <2>3, <2>4, FirstFound
  <2>6. q.target = Sourced(i, l)
    BY <1>1, <1>3, <2>1, <2>2, <2>3, BentKinds
  <2> HIDE DEF l
  <2>7. First(NamesOf(d.nodes), Sourced(i, l)) = l /\ Key(d.nodes[l]) = Key(ns[l])
    BY <1>5, <1>6, <2>5, SameKeys
  <2>8. ByIdentity(d.nodes, q.target) = Identity(Key(ns[l]))
    BY <2>3, <2>6, <2>7 DEF ByIdentity
  <2>9. QED
    BY <1>1, <2>3, <2>5, <2>8 DEF Meant
<1>10. QED
  BY <1>1, <1>2, <1>5, <1>6, <1>7, <1>8, <1>9 DEF LoadedTo

(* The group that lists the nodes of links or lines. *)
LEMMA LoadedListing ==
  ASSUME profile \in Profiles, NEW i \in DOMAIN profile, NEW f \in profile[i].files,
         profile[i].form # "config",
         NEW ns \in Seq(LoadedNodes), SameNodes(Offered(f), ns),
         LabelsKept => Marked(ns) = Marked(Offered(f)),
         RefsKept => IsInjective(NamesOf(ns))
  PROVE  LoadedTo(i, f, Listing(ns))
<1> DEFINE d == Listing(ns)
<1>1. Offered(f) \in Seq(Nodes)
  BY FileShapes DEF Shape
<1>2. ListingTo(ns, d)
  BY ListingFile
<1> HIDE DEF d
<1>3. ASSUME ChainsKept PROVE \A j \in DOMAIN Offered(f) : Offered(f)[j].relay = NoName
  BY <1>3 DEF ChainsKept
<1>4. ASSUME ChainsKept, RefsKept, NEW q \in d.refs PROVE Meant(f, d.nodes, q)
  <2>1. PICK j \in DOMAIN ns : q.target = ns[j].name /\ q.means = Chain(ns, j)
    BY <1>2 DEF ListingTo
  <2>2. IsInjective(NamesOf(ns)) /\ \A k \in DOMAIN Offered(f) : Offered(f)[k].relay = NoName
    BY <1>3, <1>4
  <2>3. Meant(f, ns, q)
    BY <1>1, <2>1, <2>2, MeantByName
  <2>4. QED
    BY <1>2, <2>3 DEF ListingTo
<1>5. QED
  BY <1>2, <1>3, <1>4 DEF LoadedTo, ListingTo, d

LEMMA LoadedLinks ==
  ASSUME profile \in Profiles, NEW i \in DOMAIN profile, NEW f \in profile[i].files,
         profile[i].form = "links"
  PROVE  LoadedTo(i, f, Loaded(i, f))
<1> DEFINE d == Normalized(i, Decoded(f))
           ns == d.nodes
<1>1. /\ f.nodes \in Seq(Nodes) /\ f.refs \in SUBSET Refs /\ Offered(f) = f.nodes
      /\ profile[i].tagged \in BOOLEAN
  BY FileShapes DEF Shape
<1>2. Loaded(i, f) = Listing(ns)
  BY DEF Loaded
<1>3. CASE ~profile[i].tagged
  <2>1. ns = f.nodes
    BY <1>1, <1>3, DecodedFile DEF Normalized
  <2>2. f.nodes \in Seq(LoadedNodes) /\ SameNodes(f.nodes, f.nodes)
    BY <1>1, FileNodesLoad DEF SameNodes
  <2>3. RefsKept => IsInjective(NamesOf(f.nodes))
    BY <1>3 DEF RefsKept
  <2> HIDE DEF ns
  <2>4. QED
    BY <1>1, <1>2, <2>1, <2>2, <2>3, LoadedListing
<1>4. CASE profile[i].tagged
  <2>1. i \in Nat
    BY ProfileIndex
  <2>2. NormalizedTo(i, f, d)
    BY <1>1, <1>4, <2>1, NormalizedFile
  <2> HIDE DEF d
  <2>3. /\ ns \in Seq(LoadedNodes) /\ SameNodes(Offered(f), ns) /\ DOMAIN ns = DOMAIN f.nodes
        /\ \A j \in DOMAIN ns : ns[j].name = Sourced(i, j)
    BY <1>1, <2>2 DEF NormalizedTo, LoadedFiles, SameNodes
  <2>4. Marked(ns) = {}
    BY <2>1, <2>3, SourcedNodes
  <2>5. LabelsKept => Marked(Offered(f)) = {}
    BY <1>4 DEF LabelsKept
  <2>6. IsInjective(NamesOf(ns))
    <3>1. \A j, k : Sourced(i, j) = Sourced(i, k) => j = k
      BY DEF Sourced
    <3>2. DOMAIN NamesOf(ns) = DOMAIN ns /\ \A j \in DOMAIN ns : NamesOf(ns)[j] = Sourced(i, j)
      BY <2>3, LoadedNames
    <3>3. QED
      BY <3>1, <3>2 DEF IsInjective
  <2> HIDE DEF ns
  <2>7. QED
    BY <1>2, <2>3, <2>4, <2>5, <2>6, LoadedListing
<1>5. QED
  BY <1>1, <1>3, <1>4

LEMMA LineNumber ==
  ASSUME NEW f, f.lines \in Seq(Lines), NEW j \in DOMAIN Listed(f)
  PROVE  LineOf(f, j) \in Nat
<1> DEFINE n == Len(f.lines)
           T == {i \in DOMAIN f.lines : j <= Len(Listed([lines |-> SubSeq(f.lines, 1, i)]))}
<1>1. n \in Nat /\ DOMAIN f.lines = 1..n
  OBVIOUS
<1>2. Listed(f) \in Seq(Nodes)
  BY ListedNodes
<1>3. j \in Nat /\ 1 <= j /\ j <= Len(Listed(f))
  BY <1>2
<1>4. n # 0
  <2>1. PICK h : h[1..0] = <<>> /\ h[1..n] = Listed(f)
    BY UnfoldLines
  <2>2. n = 0 => Listed(f) = <<>>
    BY <2>1
  <2>3. QED
    BY <1>3, <2>2
<1>5. SubSeq(f.lines, 1, n) = f.lines
  BY <1>1
<1>6. Listed([lines |-> f.lines]) = Listed(f)
  BY Zenon DEF Listed
<1>7. n \in T
  <2>1. Listed([lines |-> SubSeq(f.lines, 1, n)]) = Listed(f)
    BY <1>5, <1>6, Zenon
  <2>2. n \in DOMAIN f.lines
    BY <1>1, <1>4
  <2>3. QED
    BY <1>3, <2>1, <2>2
<1>8. T \in SUBSET Nat
  BY <1>1
<1>9. Min(T) \in T
  <2> HIDE DEF T
  <2>1. QED
    BY <1>7, <1>8, MinProperties
<1>10. QED
  BY <1>8, <1>9 DEF LineOf

LEMMA LoadedLines ==
  ASSUME profile \in Profiles, NEW i \in DOMAIN profile, NEW f \in profile[i].files,
         profile[i].form = "lines"
  PROVE  LoadedTo(i, f, Loaded(i, f))
<1> DEFINE os == Listed(f)
           old == NamesOf(os)
           filled == [j \in DOMAIN old |-> IF old[j] = Nameless THEN Numbered(Raw("NODE"), LineOf(f, j))
                                                              ELSE old[j]]
           new == NamesInFile(f)
           ns == Renamed(os, new)
<1>1. f.lines \in Seq(Lines) /\ Offered(f) = os /\ os \in Seq(Nodes)
  <2>1. f \in [lines : Seq(Lines)]
    BY IdentityAssumption
  <2>2. QED
    BY <2>1, FileShapes DEF Shape
<1>2. Loaded(i, f) = Listing(ns)
  BY DEF Loaded
<1>3. /\ old \in Seq(Spelled) /\ DOMAIN old = DOMAIN os
      /\ \A j \in DOMAIN os : old[j] = os[j].name /\ old[j] \in Spelled
  <2>1. \A j \in DOMAIN os : os[j].name \in Spelled
    BY <1>1, NodesTyped, FileNodes
  <2>2. QED
    BY <1>1, <2>1, NamesOfNodes
<1>4. Raw("NODE") \in Spelled /\ ~HasLabel(Raw("NODE")) /\ ~HasLabel(Nameless)
  <2>1. <<"NODE">> \in Parts /\ "NODE" \notin Optimized
    BY IdentityAssumption DEF Parts
  <2>2. <<<<"NODE">>>> \in Seq(Parts)
    BY <2>1, Single
  <2>3. QED
    <3>1. Raw("NODE") \in Spelled
      BY <2>2 DEF Raw, Spelled
    <3>2. ~HasLabel(Raw("NODE"))
      <4>1. Raw("NODE")[2] = <<<<"NODE">>>>
        BY DEF Raw
      <4>2. DOMAIN Raw("NODE")[2] = {1} /\ Raw("NODE")[2][1][1] = "NODE"
        BY <4>1
      <4>3. QED
        BY <2>1, <4>2 DEF HasLabel
    <3>3. ~HasLabel(Nameless)
      BY DEF HasLabel, Nameless
    <3>4. QED
      BY <3>1, <3>2, <3>3
<1>5. ASSUME NEW j \in DOMAIN old
      PROVE  filled[j] \in Spelled /\ (HasLabel(filled[j]) <=> HasLabel(old[j]))
  <2>1. LineOf(f, j) \in Nat
    BY <1>1, <1>3, LineNumber
  <2>2. /\ Numbered(Raw("NODE"), LineOf(f, j)) \in Spelled
        /\ HasLabel(Numbered(Raw("NODE"), LineOf(f, j))) <=> HasLabel(Raw("NODE"))
    BY <1>4, <2>1, NumberedName
  <2>3. CASE old[j] = Nameless
    BY <1>4, <2>2, <2>3
  <2>4. CASE old[j] # Nameless
    BY <1>3, <2>4
  <2>5. QED
    BY <2>3, <2>4
<1>6. new = Unique(filled)
  BY DEF NamesInFile
<1>7. filled = [j \in DOMAIN old |-> filled[j]]
  OBVIOUS
<1> HIDE DEF filled, old, new, os
<1>8. filled \in Seq(Spelled) /\ Len(filled) = Len(old)
  BY <1>3, <1>5, <1>7, Mapped
<1>9. Apart(filled, new, Len(old))
  BY <1>6, <1>8, UniqueNames
<1>10. DOMAIN os = 1..Len(old) /\ DOMAIN new = DOMAIN os
  BY <1>3, <1>9 DEF Apart
<1>11. ASSUME NEW j \in DOMAIN os
       PROVE  new[j] \in Spelled /\ (HasLabel(new[j]) <=> HasLabel(os[j].name))
  <2>1. HasLabel(new[j]) <=> HasLabel(filled[j])
    BY <1>9, <1>10 DEF Apart
  <2>2. new[j] \in Spelled
    BY <1>9, <1>10 DEF Apart
  <2>3. QED
    BY <1>3, <1>5, <2>1, <2>2
<1>12. RenamedTo(os, new, Relays, Spelled, ns)
  <2>1. os \in Seq(NodesOver(Relays, Spelled))
    BY <1>1, FileNodes
  <2>2. QED
    BY <1>11, <2>1, RenamedNodes
<1>13. ns \in Seq(Nodes)
  BY <1>12, FileNodes DEF RenamedTo
<1>14. ASSUME NEW j \in DOMAIN os
       PROVE  ns[j].ep = os[j].ep /\ ns[j].relay = os[j].relay /\ ns[j].name = new[j]
  <2>1. ns[j] = [ep |-> os[j].ep, relay |-> os[j].relay, name |-> new[j]]
    BY <1>12 DEF RenamedTo
  <2> HIDE DEF ns
  <2>2. QED
    BY <2>1
<1>15. DOMAIN ns = DOMAIN os
  BY <1>12 DEF RenamedTo
<1> HIDE DEF ns
<1>16. ns \in Seq(LoadedNodes) /\ SameNodes(Offered(f), ns)
  BY <1>1, <1>13, <1>14, <1>15, FileNodesLoad DEF SameNodes
<1>17. Marked(ns) = Marked(Offered(f))
  BY <1>1, <1>11, <1>14, <1>15 DEF Marked
<1>18. IsInjective(NamesOf(ns))
  <2>1. \A j \in DOMAIN ns : NamesOf(ns)[j] = new[j]
    BY <1>14, <1>15 DEF NamesOf
  <2>2. DOMAIN NamesOf(ns) = DOMAIN new
    BY <1>10, <1>15 DEF NamesOf
  <2>3. QED
    BY <1>9, <1>10, <1>15, <2>1, <2>2 DEF Apart, IsInjective
<1>19. QED
  BY <1>2, <1>16, <1>17, <1>18, LoadedListing

LEMMA LoadedFile ==
  ASSUME profile \in Profiles, NEW i \in DOMAIN profile, NEW f \in profile[i].files
  PROVE  LoadedTo(i, f, Loaded(i, f))
<1>1. profile[i].form \in {"config", "links", "lines"} /\ profile[i].tagged \in BOOLEAN
  BY FileShapes DEF Shape
<1>2. QED
  BY <1>1, LoadedConfig, LoadedTagged, LoadedLinks, LoadedLines

-----------------------------------------------------------------------------
(* DeduplicateProxyLike: every name keeps a node.                            *)
LEMMA IdentifiedNames ==
  ASSUME NEW ns \in Seq(IdentifiedNodes)
  PROVE  /\ NamesOf(ns) \in Seq(Identities) /\ DOMAIN NamesOf(ns) = DOMAIN ns
         /\ \A j \in DOMAIN ns : NamesOf(ns)[j] = ns[j].name
<1>1. \A j \in DOMAIN ns : ns[j].name \in Identities
  BY NodesTyped DEF IdentifiedNodes
<1>2. QED
  BY <1>1, NamesOfNodes

LEMMA NodeTypes ==
  ASSUME NEW kept \in Seq(IdentifiedNodes), NEW n \in IdentifiedNodes
  PROVE  AddNode(kept, n) \in Seq(IdentifiedNodes)
BY DEF AddNode

LEMMA UnfoldDeduplicated ==
  ASSUME NEW ns \in Seq(IdentifiedNodes)
  PROVE  \E h : /\ h[1..0] = <<>> /\ h[1..Len(ns)] = Deduplicated(ns)
                /\ \A k \in Nat : k < Len(ns) => h[1..(k + 1)] = AddNode(h[1..k], ns[k + 1])
<1> DEFINE G == [p \in Seq(IdentifiedNodes) \X IdentifiedNodes |-> AddNode(p[1], p[2])]
           Step(g) == [t \in SUBSET (DOMAIN ns) |->
                         IF t = {} THEN <<>> ELSE AddNode(g[t \ {Max(t)}], ns[Max(t)])]
<1>1. G \in [Seq(IdentifiedNodes) \X IdentifiedNodes -> Seq(IdentifiedNodes)]
  BY NodeTypes
<1>2. PICK g \in [SUBSET (DOMAIN ns) -> Seq(IdentifiedNodes)] : Folding(g, G, <<>>, ns, DOMAIN ns)
  <2> HIDE DEF G
  <2>1. <<>> \in Seq(IdentifiedNodes)
    OBVIOUS
  <2>2. QED
    BY <1>1, <2>1, FoldExists
<1>3. \E iter : iter = Step(iter)
  <2>1. ASSUME NEW t \in SUBSET (DOMAIN ns), t # {}
        PROVE  G[<<g[t \ {Max(t)}], ns[Max(t)]>>] = AddNode(g[t \ {Max(t)}], ns[Max(t)])
    BY <1>2, <2>1, LastIndex
  <2>2. \A t \in SUBSET (DOMAIN ns) : g[t] = Step(g)[t]
    BY <1>2, <2>1 DEF Folding
  <2>3. QED
    BY <1>2, <2>2
<1> DEFINE h == CHOOSE iter : iter = Step(iter)
<1>4. h = Step(h)
  <2> HIDE DEF Step
  <2>1. QED
    BY <1>3
<1>5. Deduplicated(ns) = h[DOMAIN ns]
  BY Zenon DEF Deduplicated, FoldLeft, MapThenFoldSet
<1> HIDE DEF h
<1>6. h[1..0] = <<>>
  BY <1>4, NoIndices
<1>7. ASSUME NEW k \in Nat, k < Len(ns)
      PROVE  h[1..(k + 1)] = AddNode(h[1..k], ns[k + 1])
  <2>1. /\ 1..(k + 1) \in SUBSET (DOMAIN ns) /\ 1..(k + 1) # {}
        /\ Max(1..(k + 1)) = k + 1 /\ (1..(k + 1)) \ {k + 1} = 1..k
    BY <1>7, FirstIndices
  <2>2. h[1..(k + 1)] = AddNode(h[(1..(k + 1)) \ {Max(1..(k + 1))}], ns[Max(1..(k + 1))])
    BY <1>4, <2>1
  <2>3. QED
    BY <2>1, <2>2
<1>8. QED
  BY <1>5, <1>6, <1>7, NoIndices

Kept(ns, r, k) ==
    /\ r \in Seq(IdentifiedNodes) /\ ToSet(r) \subseteq ToSet(ns)
    /\ \A i \in 1..k : \E m \in ToSet(r) : m.name = ns[i].name

LEMMA DeduplicatedNodes ==
  ASSUME NEW ns \in Seq(IdentifiedNodes)
  PROVE  Kept(ns, Deduplicated(ns), Len(ns))
<1> DEFINE n == Len(ns)
           I == [k \in Nat |-> {r \in Seq(IdentifiedNodes) : Kept(ns, r, k)}]
<1>1. PICK h : /\ h[1..0] = <<>> /\ h[1..n] = Deduplicated(ns)
               /\ \A k \in Nat : k < n => h[1..(k + 1)] = AddNode(h[1..k], ns[k + 1])
  BY UnfoldDeduplicated
<1>2. n \in Nat /\ DOMAIN ns = 1..n
  OBVIOUS
<1>3. \A k \in Nat : k < n => ns[k + 1] \in IdentifiedNodes /\ ns[k + 1] \in ToSet(ns)
  <2>1. \A k \in Nat : k < n => k + 1 \in DOMAIN ns
    BY <1>2
  <2>2. QED
    BY <2>1, Over DEF ToSet
<1>4. h[1..0] \in I[0]
  <2>1. ToSet(<<>>) = {} /\ 1..0 = {} /\ <<>> \in Seq(IdentifiedNodes)
    BY DEF ToSet
  <2>2. Kept(ns, <<>>, 0)
    BY <2>1 DEF Kept
  <2>3. QED
    BY <1>1, <2>1, <2>2
<1>5. ASSUME NEW k \in Nat, k < n, h[1..k] \in I[k] PROVE h[1..(k + 1)] \in I[k + 1]
  <2> DEFINE r == h[1..k]
             e == ns[k + 1]
  <2>1. Kept(ns, r, k) /\ r \in Seq(IdentifiedNodes) /\ e \in IdentifiedNodes /\ e \in ToSet(ns)
    BY <1>3, <1>5
  <2>2. h[1..(k + 1)] = AddNode(r, e)
    BY <1>1, <1>5
  <2> HIDE DEF r
  <2>3. /\ AddNode(r, e) \in Seq(IdentifiedNodes)
        /\ ToSet(r) \subseteq ToSet(AddNode(r, e)) /\ ToSet(AddNode(r, e)) \subseteq ToSet(r) \union {e}
        /\ \E m \in ToSet(AddNode(r, e)) : m.name = e.name
    <3>1. CASE First(NamesOf(r), e.name) = 0
      <4>1. AddNode(r, e) = Append(r, e)
        BY <3>1 DEF AddNode
      <4> HIDE DEF e
      <4>2. Append(r, e) \in Seq(IdentifiedNodes) /\ ToSet(Append(r, e)) = ToSet(r) \union {e}
        BY <2>1, ElementsOfAppend
      <4>3. QED
        BY <4>1, <4>2
    <3>2. CASE First(NamesOf(r), e.name) # 0
      <4>1. AddNode(r, e) = r
        BY <3>2 DEF AddNode
      <4>2. /\ First(NamesOf(r), e.name) \in DOMAIN r
            /\ r[First(NamesOf(r), e.name)].name = e.name
        BY <2>1, <3>2, IdentifiedNames, FirstFound
      <4>3. r[First(NamesOf(r), e.name)] \in ToSet(r)
        BY <4>2 DEF ToSet
      <4>4. QED
        BY <2>1, <4>1, <4>2, <4>3
    <3>3. QED
      BY <3>1, <3>2
  <2>4. ASSUME NEW i \in 1..(k + 1) PROVE \E m \in ToSet(AddNode(r, e)) : m.name = ns[i].name
    <3>1. i \in 1..k \/ i = k + 1
      OBVIOUS
    <3>2. QED
      BY <2>1, <2>3, <3>1 DEF Kept
  <2>5. Kept(ns, AddNode(r, e), k + 1)
    BY <2>1, <2>3, <2>4 DEF Kept
  <2>6. QED
    BY <2>2, <2>3, <2>5
<1>6. h[1..n] \in I[n]
  <2> HIDE DEF n, I
  <2>1. QED
    BY <1>2, <1>4, <1>5, FoldInvariant
<1>7. QED
  BY <1>1, <1>2, <1>6

JoinedTo(c, d, e) ==
    /\ e \in Merged
    /\ ToSet(e.nodes) \subseteq ToSet(c.nodes) \union ToSet(d.nodes)
    /\ \A n \in ToSet(c.nodes) \union ToSet(d.nodes) : \E m \in ToSet(e.nodes) : m.name = n.name
    /\ e.refs = c.refs \union d.refs
    /\ e.labels = c.labels \union d.labels

LEMMA JoinedConfigs ==
  ASSUME NEW c \in Merged, NEW d \in Merged
  PROVE  JoinedTo(c, d, Joined(c, d))
<1> DEFINE ns == c.nodes \o d.nodes
           ms == Deduplicated(ns)
           B == Spelled \union SourceNames \union Identities
<1>1. Joined(c, d) = [nodes |-> ms, refs |-> c.refs \union d.refs, labels |-> c.labels \union d.labels]
  BY DEF Joined, Referring
<1>2. /\ c.nodes \in Seq(IdentifiedNodes) /\ d.nodes \in Seq(IdentifiedNodes)
      /\ c.refs \in SUBSET RefsTo(B) /\ d.refs \in SUBSET RefsTo(B)
      /\ c.labels \in SUBSET Keys /\ d.labels \in SUBSET Keys
  BY DEF Merged
<1>3. ns \in Seq(IdentifiedNodes) /\ ToSet(ns) = ToSet(c.nodes) \union ToSet(d.nodes)
  BY <1>2, ElementsOfConcat
<1> HIDE DEF ns
<1>4. Kept(ns, ms, Len(ns))
  BY <1>3, DeduplicatedNodes
<1>5. \A n \in ToSet(ns) : \E m \in ToSet(ms) : m.name = n.name
  BY <1>3, <1>4 DEF Kept, ToSet
<1>6. ms \in Seq(IdentifiedNodes) /\ ToSet(ms) \subseteq ToSet(ns)
  BY <1>4 DEF Kept
<1>7. Merged = [nodes : Seq(IdentifiedNodes), refs : SUBSET RefsTo(B), labels : SUBSET Keys]
  BY DEF Merged
<1> HIDE DEF ms, B
<1>8. Joined(c, d) \in Merged
  BY <1>1, <1>2, <1>6, <1>7
<1>9. QED
  BY <1>1, <1>3, <1>5, <1>6, <1>8 DEF JoinedTo

-----------------------------------------------------------------------------
(* A configuration that was made of the files F: each of its nodes stems from *)
(* a node of a file, each node of a file is found under its identity, each    *)
(* reference has the identity of what it means, and the labels are the keys   *)
(* of the marked nodes.                                                      *)
Node(f, l) == Offered(f)[l]
Stem(m, f, l) ==
    /\ m.ep = Node(f, l).ep /\ m.name = Identity(Key(Node(f, l)))
    /\ Node(f, l).relay = NoName => m.relay = NoName
    /\ ChainsKept => m.relay = ByIdentity(Offered(f), Node(f, l).relay)
NodesStem(c, F) ==
    \A m \in ToSet(c.nodes) : \E f \in F : \E l \in DOMAIN Offered(f) : Stem(m, f, l)
NodesFound(c, F) ==
    \A f \in F : \A l \in DOMAIN Offered(f) :
        \E m \in ToSet(c.nodes) : m.name = Identity(Key(Node(f, l)))
RefsMean(c, F) ==
    ChainsKept /\ RefsKept => \A q \in c.refs : q.means # <<>> =>
        \E f \in F : \E l \in DOMAIN Offered(f) :
            q.target = Identity(Key(Node(f, l))) /\ q.means = Chain(Offered(f), l)
LabelsMark(c, F) ==
    LabelsKept => \A k : k \in c.labels <=> \E f \in F : \E l \in Marked(Offered(f)) : k = Key(Node(f, l))
Represents(c, F) ==
    /\ c \in Merged
    /\ NodesStem(c, F) /\ NodesFound(c, F) /\ RefsMean(c, F) /\ LabelsMark(c, F)

LEMMA NoNodeOfNoName ==
  ASSUME NEW ns \in Seq(LoadedNodes)
  PROVE  ByIdentity(ns, NoName) = NoName
<1>1. NamesOf(ns) \in Seq(Spelled \union SourceNames) /\ DOMAIN NamesOf(ns) = DOMAIN ns
  BY LoadedNames
<1>2. \A j \in DOMAIN NamesOf(ns) : NamesOf(ns)[j] \in Spelled \union SourceNames
  BY <1>1, Over
<1>3. First(NamesOf(ns), NoName) = 0
  BY <1>1, <1>2, NoNameIsNone, FirstFound
<1>4. QED
  BY <1>3 DEF ByIdentity

LEMMA IdentifiedRepresents ==
  ASSUME profile \in Profiles, NEW i \in DOMAIN profile, NEW f \in profile[i].files
  PROVE  Represents(Identified(Loaded(i, f)), {f})
<1> DEFINE d == Loaded(i, f)
           ns == d.nodes
           os == Offered(f)
           c == Identified(d)
<1>1. LoadedTo(i, f, d)
  BY LoadedFile
<1> HIDE DEF d
<1>2. d \in LoadedFiles /\ ns \in Seq(LoadedNodes) /\ SameNodes(os, ns)
  BY <1>1 DEF LoadedTo, LoadedFiles
<1>3. IdentifiedTo(d, c)
  BY <1>2, IdentifiedFile
<1> HIDE DEF c
<1>4. os \in Seq(Nodes) /\ os \in Seq(LoadedNodes) /\ profile[i].tagged \in BOOLEAN
  BY FileShapes, FileNodesLoad DEF Shape
<1>5. DOMAIN c.nodes = DOMAIN os /\ DOMAIN ns = DOMAIN os
  BY <1>2, <1>3 DEF IdentifiedTo, SameNodes
<1>6. ASSUME NEW l \in DOMAIN os PROVE Stem(c.nodes[l], f, l)
  <2>1. /\ c.nodes[l].ep = ns[l].ep /\ c.nodes[l].relay = ByIdentity(ns, ns[l].relay)
        /\ c.nodes[l].name = Identity(Key(ns[l]))
    BY <1>3, <1>5 DEF IdentifiedTo
  <2>2. ns[l].ep = os[l].ep /\ ns[l].relay = os[l].relay /\ Key(ns[l]) = Key(os[l])
    BY <1>2, SameKeys DEF SameNodes
  <2>3. os[l].relay = NoName => c.nodes[l].relay = NoName
    BY <1>2, <2>1, <2>2, NoNodeOfNoName
  <2>4. ASSUME ChainsKept PROVE c.nodes[l].relay = ByIdentity(os, os[l].relay)
    <3>1. CASE profile[i].form = "config" /\ ~profile[i].tagged
      BY <1>1, <2>1, <3>1 DEF LoadedTo
    <3>2. CASE ~(profile[i].form = "config" /\ ~profile[i].tagged)
      <4>1. os[l].relay = NoName
        BY <1>1, <1>4, <2>4, <3>2 DEF LoadedTo
      <4>2. QED
        BY <1>4, <2>3, <4>1, NoNodeOfNoName
    <3>3. QED
      BY <3>1, <3>2
  <2>5. QED
    BY <2>1, <2>2, <2>3, <2>4 DEF Stem, Node
<1>7. c \in Merged
  BY <1>3 DEF IdentifiedTo
<1>8. NodesStem(c, {f})
  BY <1>5, <1>6 DEF NodesStem, ToSet
<1>9. NodesFound(c, {f})
  <2>1. ASSUME NEW l \in DOMAIN os
        PROVE  \E m \in ToSet(c.nodes) : m.name = Identity(Key(Node(f, l)))
    <3>1. c.nodes[l] \in ToSet(c.nodes)
      BY <1>5 DEF ToSet
    <3>2. QED
      BY <1>6, <3>1 DEF Stem
  <2>2. QED
    BY <2>1 DEF NodesFound
<1>10. RefsMean(c, {f})
  <2> SUFFICES ASSUME ChainsKept, RefsKept, NEW q \in c.refs, q.means # <<>>
               PROVE  \E l \in DOMAIN os : q.target = Identity(Key(Node(f, l))) /\ q.means = Chain(os, l)
    BY DEF RefsMean
  <2>1. PICK r \in d.refs : q.means = r.means /\ q.target = ByIdentity(ns, r.target)
    BY <1>3 DEF IdentifiedTo
  <2>2. Meant(f, ns, r)
    BY <1>1, <2>1 DEF LoadedTo
  <2>3. QED
    BY <2>1, <2>2 DEF Meant, Node
<1>11. LabelsMark(c, {f})
  <2> SUFFICES ASSUME LabelsKept
               PROVE  \A k : k \in c.labels <=> \E l \in Marked(os) : k = Key(Node(f, l))
    BY DEF LabelsMark
  <2>1. c.labels = {Key(ns[l]) : l \in Marked(os)}
    BY <1>1, <1>3 DEF LoadedTo, IdentifiedTo
  <2>2. \A l \in Marked(os) : Key(ns[l]) = Key(os[l])
    BY <1>2, SameKeys DEF Marked
  <2>3. QED
    BY <2>1, <2>2 DEF Node
<1>12. QED
  BY <1>7, <1>8, <1>9, <1>10, <1>11 DEF Represents, c, d

LEMMA JoinedRepresents ==
  ASSUME NEW c, NEW F, Represents(c, F), NEW d, NEW G, Represents(d, G)
  PROVE  Represents(Joined(c, d), F \union G)
<1> DEFINE e == Joined(c, d)
<1>1. JoinedTo(c, d, e)
  BY JoinedConfigs DEF Represents
<1> HIDE DEF e
<1>2. NodesStem(e, F \union G)
  BY <1>1 DEF Represents, NodesStem, JoinedTo
<1>3. NodesFound(e, F \union G)
  <2>1. ASSUME NEW f \in F \union G, NEW l \in DOMAIN Offered(f)
        PROVE  \E m \in ToSet(e.nodes) : m.name = Identity(Key(Node(f, l)))
    <3>1. \E n \in ToSet(c.nodes) \union ToSet(d.nodes) : n.name = Identity(Key(Node(f, l)))
      BY <2>1 DEF Represents, NodesFound
    <3>2. QED
      BY <1>1, <3>1 DEF JoinedTo
  <2>2. QED
    BY <2>1 DEF NodesFound
<1>4. RefsMean(e, F \union G)
  BY <1>1 DEF Represents, RefsMean, JoinedTo
<1>5. LabelsMark(e, F \union G)
  BY <1>1 DEF Represents, LabelsMark, JoinedTo
<1>6. QED
  BY <1>1, <1>2, <1>3, <1>4, <1>5 DEF Represents, JoinedTo, e

-----------------------------------------------------------------------------
(* Where an identity leads: to the endpoints that the file of the node means. *)
Told(F) ==
    \A f, g \in F : \A j \in DOMAIN Offered(f), k \in DOMAIN Offered(g) :
        Key(Offered(f)[j]) = Key(Offered(g)[k]) => Chain(Offered(f), j) = Chain(Offered(g), k)

LEMMA RepresentedNodes ==
  ASSUME NEW c, NEW F, Represents(c, F)
  PROVE  /\ c.nodes \in Seq(IdentifiedNodes)
         /\ NamesOf(c.nodes) \in Seq(Identities) /\ DOMAIN NamesOf(c.nodes) = DOMAIN c.nodes
         /\ \A j \in DOMAIN c.nodes : /\ NamesOf(c.nodes)[j] = c.nodes[j].name
                                      /\ NamesOf(c.nodes)[j] \in Identities
                                      /\ c.nodes[j].ep \in Endpoints
                                      /\ c.nodes[j].relay \in Relays \union Identities
<1>1. c.nodes \in Seq(IdentifiedNodes)
  BY DEF Represents, Merged
<1>2. /\ NamesOf(c.nodes) \in Seq(Identities) /\ DOMAIN NamesOf(c.nodes) = DOMAIN c.nodes
      /\ \A j \in DOMAIN c.nodes : NamesOf(c.nodes)[j] = c.nodes[j].name
  BY <1>1, IdentifiedNames
<1>3. \A j \in DOMAIN c.nodes : /\ c.nodes[j].ep \in Endpoints
                                /\ c.nodes[j].relay \in Relays \union Identities
                                /\ c.nodes[j].name \in Identities
  BY <1>1, NodesTyped DEF IdentifiedNodes
<1>4. QED
  BY <1>1, <1>2, <1>3

LEMMA StemOf ==
  ASSUME NEW c, NEW F, Represents(c, F), NEW j \in DOMAIN c.nodes
  PROVE  \E f \in F : \E l \in DOMAIN Offered(f) : Stem(c.nodes[j], f, l)
BY DEF Represents, NodesStem, ToSet

LEMMA EndpointOfName ==
  ASSUME NEW c, NEW F, Represents(c, F), NEW j \in DOMAIN c.nodes,
         NEW e, NEW r, c.nodes[j].name = Identity(<<e, r>>)
  PROVE  c.nodes[j].ep = e /\ (r = NoName => c.nodes[j].relay = NoName)
<1>1. PICK f \in F : \E l \in DOMAIN Offered(f) : Stem(c.nodes[j], f, l)
  BY StemOf
<1>2. PICK l \in DOMAIN Offered(f) : Stem(c.nodes[j], f, l)
  BY <1>1
<1>3. Key(Node(f, l)) = <<e, r>> /\ Key(Node(f, l)) = <<Node(f, l).ep, Node(f, l).relay>>
  BY <1>2, IdentityOfKey DEF Stem, Key
<1>4. Node(f, l).ep = e /\ Node(f, l).relay = r
  BY <1>3
<1>5. QED
  BY <1>2, <1>4 DEF Stem

LEMMA ChainOfIdentity ==
  ASSUME NEW c, NEW F, Represents(c, F), ChainsKept, Told(F),
         \A f \in F : Offered(f) \in Seq(Nodes),
         NEW f \in F, NEW l \in DOMAIN Offered(f),
         NEW j \in DOMAIN c.nodes, c.nodes[j].name = Identity(Key(Node(f, l)))
  PROVE  Chain(c.nodes, j) = Chain(Offered(f), l)
<1> DEFINE ns == c.nodes
<1>1. PICK g \in F : \E k \in DOMAIN Offered(g) : Stem(ns[j], g, k)
  BY StemOf
<1>2. PICK k \in DOMAIN Offered(g) : Stem(ns[j], g, k)
  BY <1>1
<1> DEFINE os == Offered(g)
           r == First(NamesOf(os), os[k].relay)
           relay == ns[j].relay
           t == First(NamesOf(ns), relay)
<1>3. Key(os[k]) = Key(Node(f, l))
  BY <1>2, IdentityOfKey DEF Stem, Node
<1>4. Chain(os, k) = Chain(Offered(f), l)
  BY <1>3 DEF Told, Node
<1>5. ns[j].ep = os[k].ep /\ relay = ByIdentity(os, os[k].relay)
  BY <1>2 DEF Stem, Node
<1>6. os \in Seq(Nodes) /\ os \in Seq(LoadedNodes) /\ os[k].relay \in Relays
  BY FileNodesLoad, FileNodes, NodesTyped
<1>7. r # 0 => r \in DOMAIN os
  BY <1>6, LoadedNames, FirstFound
<1>8. /\ NamesOf(ns) \in Seq(Identities) /\ DOMAIN NamesOf(ns) = DOMAIN ns
      /\ \A i \in DOMAIN ns : NamesOf(ns)[i] = ns[i].name /\ NamesOf(ns)[i] \in Identities
  BY RepresentedNodes
<1>9. /\ t # 0 => t \in DOMAIN ns /\ ns[t].name = relay
      /\ t = 0 <=> \A i \in DOMAIN ns : ns[i].name # relay
  BY <1>8, FirstFound
<1>10. Chain(ns, j) = <<ns[j].ep, IF t = 0 THEN NoName ELSE ns[t].ep>>
  BY DEF Chain
<1>11. Chain(os, k) = <<os[k].ep, IF r = 0 THEN NoName ELSE os[r].ep>>
  BY DEF Chain
<1>12. CASE r = 0
  <2>1. relay \in Relays
    BY <1>5, <1>6, <1>12 DEF ByIdentity
  <2>2. relay \notin Identities
    BY <2>1, Kinds DEF Relays, Targets
  <2>3. t = 0
    BY <1>8, <1>9, <2>2
  <2>4. QED
    BY <1>4, <1>5, <1>10, <1>11, <1>12, <2>3
<1>13. CASE r # 0
  <2>1. relay = Identity(Key(os[r]))
    BY <1>5, <1>13 DEF ByIdentity
  <2>2. \E i \in DOMAIN ns : ns[i].name = relay
    <3>1. PICK m \in ToSet(ns) : m.name = Identity(Key(Node(g, r)))
      BY <1>7, <1>13 DEF Represents, NodesFound
    <3>2. QED
      BY <2>1, <3>1 DEF Node, ToSet
  <2>3. t \in DOMAIN ns /\ ns[t].name = Identity(<<os[r].ep, os[r].relay>>)
    BY <1>9, <2>1, <2>2 DEF Key
  <2> HIDE DEF t, r, ns, os
  <2>4. ns[t].ep = os[r].ep
    BY <2>3, EndpointOfName DEF ns
  <2>5. t # 0
    BY <1>9, <2>2
  <2>6. QED
    BY <1>4, <1>5, <1>10, <1>11, <1>13, <2>4, <2>5 DEF ns, os
<1>14. QED
  BY <1>12, <1>13

LEMMA MeansOfIdentity ==
  ASSUME NEW c, NEW F, Represents(c, F), ChainsKept, Told(F),
         \A f \in F : Offered(f) \in Seq(Nodes),
         NEW f \in F, NEW l \in DOMAIN Offered(f)
  PROVE  Means(c.nodes, Identity(Key(Node(f, l)))) = Chain(Offered(f), l)
<1> DEFINE ns == c.nodes
           n == Identity(Key(Node(f, l)))
           t == First(NamesOf(ns), n)
<1>1. /\ NamesOf(ns) \in Seq(Identities) /\ DOMAIN NamesOf(ns) = DOMAIN ns
      /\ \A i \in DOMAIN ns : NamesOf(ns)[i] = ns[i].name
  BY RepresentedNodes
<1>2. PICK m \in ToSet(ns) : m.name = n
  BY DEF Represents, NodesFound
<1>3. t # 0 /\ t \in DOMAIN ns /\ ns[t].name = n
  <2>1. \E i \in DOMAIN ns : ns[i].name = n
    BY <1>2 DEF ToSet
  <2> HIDE DEF n
  <2>2. QED
    BY <1>1, <2>1, FirstFound
<1>4. Chain(ns, t) = Chain(Offered(f), l)
  <2> HIDE DEF t
  <2>1. QED
    BY <1>3, ChainOfIdentity
<1>5. QED
  BY <1>3, <1>4 DEF Means

-----------------------------------------------------------------------------
(* naming.Apply: the nodes are named apart, and what referred to a node by    *)
(* its identity refers to the last node that had it.                         *)
ByLabel(ns, n) ==
    IF n \in ToSet(NamesOf(ns)) THEN Display(Latest(NamesOf(ns), n)) ELSE n
Labelled == [nodes : Seq(NodesOver(Relays \union GivenNames, GivenNames)),
             refs : SUBSET RefsTo(Spelled \union SourceNames \union GivenNames),
             labels : SUBSET Keys]
AppliedTo(c, a) ==
    /\ a \in Labelled
    /\ DOMAIN a.nodes = DOMAIN c.nodes
    /\ \A j \in DOMAIN c.nodes : /\ a.nodes[j].ep = c.nodes[j].ep
                                 /\ a.nodes[j].relay = ByLabel(c.nodes, c.nodes[j].relay)
                                 /\ a.nodes[j].name = Display(j)
    /\ \A q \in a.refs : \E r \in c.refs : q.means = r.means /\ q.target = ByLabel(c.nodes, r.target)
    /\ a.labels = c.labels

LEMMA AppliedConfig ==
  ASSUME NEW c, NEW F, Represents(c, F)
  PROVE  AppliedTo(c, Applied(c))
<1> DEFINE ns == c.nodes
           rs == c.refs
           old == NamesOf(ns)
           new == [j \in DOMAIN ns |-> Display(j)]
           names == LastWins(old, new)
           is == Renamed(ns, new)
           redirected == Redirected(is, names)
           retargeted == Retargeted(rs, names)
           R == Relays \union Identities
           T == Relays \union GivenNames
           A == Spelled \union SourceNames \union Identities
           B == Spelled \union SourceNames \union GivenNames
<1>1. /\ ns \in Seq(NodesOver(R, Identities)) /\ rs \in SUBSET RefsTo(A) /\ c.labels \in SUBSET Keys
      /\ DOMAIN ns = 1..Len(ns) /\ Len(ns) \in Nat
  BY Over DEF Represents, Merged, IdentifiedNodes
<1>2. /\ old \in Seq(Identities) /\ DOMAIN old = DOMAIN ns
      /\ \A j \in DOMAIN ns : ns[j].name \in Identities /\ ns[j].relay \in R
  BY RepresentedNodes
<1>3. \A j \in DOMAIN ns : new[j] = Display(j) /\ Display(j) \in Displays
  BY <1>1 DEF Display, Displays
<1>4. \A n \in ToSet(old) : Latest(old, n) \in DOMAIN ns
  BY <1>2, LatestFound
<1>5. \A n : Rename(names, n) = ByLabel(ns, n) /\ ByLabel(ns, n) \in Displays \union {n}
  BY <1>3, <1>4 DEF Rename, LastWins, ByLabel
<1>6. Captured(c) = c.labels
  <2>1. \A j \in DOMAIN ns : ~HasLabel(ns[j].name)
    BY <1>2, Kinds DEF HasLabel
  <2>2. QED
    BY <2>1 DEF Captured, Marked
<1>7. Applied(c) = [nodes |-> redirected, refs |-> retargeted, labels |-> c.labels]
  <2>1. Applied(c) = Rewritten([nodes |-> is, refs |-> rs, labels |-> c.labels], names)
    BY <1>6 DEF Applied
  <2> HIDE DEF names, is, rs
  <2>2. QED
    BY <2>1 DEF Rewritten, redirected, retargeted
<1>8. RenamedTo(ns, new, R, Displays, is)
  <2> HIDE DEF R, new
  <2>1. QED
    BY <1>1, <1>3, RenamedNodes
<1> HIDE DEF new, is, names
<1>9. /\ DOMAIN is = DOMAIN ns
      /\ \A j \in DOMAIN ns : is[j].ep = ns[j].ep /\ is[j].relay = ns[j].relay /\ is[j].name = Display(j)
  <2>1. ASSUME NEW j \in DOMAIN ns
        PROVE  is[j].ep = ns[j].ep /\ is[j].relay = ns[j].relay /\ is[j].name = Display(j)
    <3>1. is[j] = [ep |-> ns[j].ep, relay |-> ns[j].relay, name |-> new[j]]
      BY <1>8 DEF RenamedTo
    <3>2. QED
      BY <1>3, <3>1
  <2>2. QED
    BY <1>8, <2>1 DEF RenamedTo
<1>10. RedirectedTo(is, names, T, Displays, redirected)
  <2>1. \A j \in DOMAIN is : is[j].relay \in R
    BY <1>2, <1>9
  <2>2. \A j \in DOMAIN is : Rename(names, is[j].relay) \in T
    BY <1>5, <2>1 DEF GivenNames
  <2>3. is \in Seq(NodesOver(R, Displays))
    BY <1>8 DEF RenamedTo
  <2> HIDE DEF T, R
  <2>4. QED
    BY <2>2, <2>3, RedirectedNodes
<1> HIDE DEF redirected
<1>11. \A j \in DOMAIN ns : /\ redirected[j].ep = ns[j].ep
                            /\ redirected[j].relay = ByLabel(ns, ns[j].relay)
                            /\ redirected[j].name = Display(j)
  <2>1. ASSUME NEW j \in DOMAIN ns
        PROVE  /\ redirected[j].ep = ns[j].ep
               /\ redirected[j].relay = ByLabel(ns, ns[j].relay)
               /\ redirected[j].name = Display(j)
    <3>1. redirected[j] = [ep |-> is[j].ep, relay |-> Rename(names, is[j].relay), name |-> is[j].name]
      BY <1>9, <1>10 DEF RedirectedTo
    <3>2. QED
      BY <1>5, <1>9, <3>1
  <2>2. QED
    BY <2>1
<1>12. redirected \in Seq(NodesOver(T, GivenNames)) /\ DOMAIN redirected = DOMAIN ns
  <2>1. redirected \in Seq(NodesOver(T, Displays)) /\ DOMAIN redirected = DOMAIN ns
    BY <1>9, <1>10 DEF RedirectedTo
  <2>2. NodesOver(T, Displays) \subseteq NodesOver(T, GivenNames)
    BY DEF NodesOver, GivenNames
  <2>3. ASSUME NEW C, NEW D, C \subseteq D, NEW s \in Seq(C) PROVE s \in Seq(D)
    BY <2>3
  <2> HIDE DEF T
  <2>4. QED
    BY <2>1, <2>2, <2>3
<1>13. RetargetedTo(rs, names, B, retargeted)
  <2>1. \A r \in rs : r.target \in A
    BY <1>1 DEF RefsTo
  <2>2. \A r \in rs : Rename(names, r.target) \in B
    BY <1>5, <2>1 DEF GivenNames
  <2> HIDE DEF A, B, rs
  <2>3. QED
    BY <1>1, <2>2, RetargetedRefs
<1> HIDE DEF retargeted
<1>14. /\ retargeted \in SUBSET RefsTo(B)
       /\ \A q \in retargeted : \E r \in rs : q.means = r.means /\ q.target = ByLabel(ns, r.target)
  BY <1>5, <1>13 DEF RetargetedTo
<1>15. Applied(c) \in Labelled
  <2>1. Labelled = [nodes : Seq(NodesOver(T, GivenNames)), refs : SUBSET RefsTo(B), labels : SUBSET Keys]
    BY DEF Labelled
  <2> HIDE DEF T, B
  <2>2. QED
    BY <1>1, <1>7, <1>12, <1>14, <2>1
<1>16. Applied(c).nodes = redirected /\ Applied(c).refs = retargeted /\ Applied(c).labels = c.labels
  BY <1>7
<1>17. QED
  BY <1>11, <1>12, <1>14, <1>15, <1>16 DEF AppliedTo

(* The label of a node leads to the endpoints that its identity led to.      *)
LEMMA LabelLeads ==
  ASSUME NEW c, NEW F, Represents(c, F), NEW a, AppliedTo(c, a), NEW j \in DOMAIN c.nodes
  PROVE  Means(a.nodes, Display(j)) = Chain(c.nodes, j)
<1> DEFINE ns == c.nodes
           ms == a.nodes
           relay == ns[j].relay
           u == First(NamesOf(ns), relay)
           t == Latest(NamesOf(ns), relay)
<1>1. /\ NamesOf(ns) \in Seq(Identities) /\ DOMAIN NamesOf(ns) = DOMAIN ns
      /\ \A i \in DOMAIN ns : NamesOf(ns)[i] = ns[i].name /\ NamesOf(ns)[i] \in Identities
      /\ relay \in Relays \union Identities
  BY RepresentedNodes
<1>2. /\ DOMAIN ms = DOMAIN ns /\ ms \in Seq(NodesOver(Relays \union GivenNames, GivenNames))
      /\ \A i \in DOMAIN ns : /\ ms[i].ep = ns[i].ep /\ ms[i].name = Display(i)
                              /\ ms[i].relay = ByLabel(ns, ns[i].relay)
  BY DEF AppliedTo, Labelled
<1>3. /\ NamesOf(ms) \in Seq(GivenNames) /\ DOMAIN NamesOf(ms) = DOMAIN ns
      /\ \A i \in DOMAIN ns : NamesOf(ms)[i] = Display(i)
  <2>1. \A i \in DOMAIN ms : ms[i].name \in GivenNames
    BY <1>2, NodesTyped
  <2>2. QED
    BY <1>2, <2>1, NamesOfNodes
<1>4. \A i \in DOMAIN ns : First(NamesOf(ms), Display(i)) = i
  <2>1. \A i, k : Display(i) = Display(k) => i = k
    BY DEF Display
  <2>2. QED
    BY <1>3, <2>1, FirstOfOne
<1>5. j # 0
  BY <1>1, Over
<1>6. Means(ms, Display(j)) = Chain(ms, j)
  BY <1>4, <1>5 DEF Means
<1>7. Chain(ns, j) = <<ns[j].ep, IF u = 0 THEN NoName ELSE ns[u].ep>>
  BY DEF Chain
<1>8. Chain(ms, j) = <<ns[j].ep, IF First(NamesOf(ms), ByLabel(ns, relay)) = 0 THEN NoName
                                 ELSE ms[First(NamesOf(ms), ByLabel(ns, relay))].ep>>
  BY <1>2 DEF Chain
<1>9. /\ u # 0 => u \in DOMAIN ns /\ ns[u].name = relay
      /\ relay \in ToSet(NamesOf(ns)) <=> u # 0
  BY <1>1, FirstFound
<1>10. CASE u # 0
  <2>1. t \in DOMAIN ns /\ ns[t].name = relay
    BY <1>1, <1>9, <1>10, LatestFound
  <2>2. ByLabel(ns, relay) = Display(t)
    BY <1>9, <1>10 DEF ByLabel
  <2>3. First(NamesOf(ms), ByLabel(ns, relay)) = t /\ t # 0
    BY <1>1, <1>4, <2>1, <2>2, Over
  <2>4. ns[t].ep = ns[u].ep
    <3>1. relay \in Identities
      BY <1>1, <2>1
    <3>2. PICK k \in Keys : relay = <<"mcb", k>>
      BY <3>1 DEF Identities
    <3>3. k = <<k[1], k[2]>>
      BY <3>2 DEF Keys
    <3>4. relay = Identity(<<k[1], k[2]>>)
      BY <3>2, <3>3 DEF Identity
    <3> HIDE DEF t, u, relay
    <3>5. ns[t].ep = k[1]
      BY <2>1, <3>4, EndpointOfName
    <3>6. ns[u].ep = k[1]
      BY <1>9, <1>10, <3>4, EndpointOfName
    <3>7. QED
      BY <3>5, <3>6
  <2>5. QED
    BY <1>2, <1>6, <1>7, <1>8, <1>10, <2>1, <2>3, <2>4
<1>11. CASE u = 0
  <2>1. ByLabel(ns, relay) = relay
    BY <1>9, <1>11 DEF ByLabel
  <2>2. relay \notin Displays
    BY <1>1, Kinds DEF Relays, Targets
  <2>3. \A i \in DOMAIN ns : Display(i) \in Displays
    BY <1>1, Over DEF Display, Displays
  <2>4. First(NamesOf(ms), relay) = 0
    BY <1>3, <2>2, <2>3, FirstFound
  <2>5. QED
    BY <1>6, <1>7, <1>8, <1>11, <2>1, <2>4
<1>12. QED
  BY <1>10, <1>11

-----------------------------------------------------------------------------
(* The inductive invariant: until the names are applied the configuration     *)
(* represents the files that were merged, and then it is the named form of    *)
(* one that did.                                                             *)
FilesOf(p) == UNION {p[i].files : i \in DOMAIN p}

IInv ==
    /\ profile \in Profiles
    /\ stage \in 1..(Len(profile) + 2)
    /\ files \in Seq(FilesOf(profile)) /\ Len(files) < stage /\ Len(files) <= Len(profile)
    /\ stage = 1 => files = <<>> /\ cfg = [nodes |-> <<>>, refs |-> {}, labels |-> {}]
    /\ stage \in 2..(Len(profile) + 1) => Represents(cfg, ToSet(files))
    /\ Built => \E c : Represents(c, ToSet(files)) /\ AppliedTo(c, cfg)

LEMMA KeepsRepresenting ==
  ASSUME profile' = profile, NEW c, NEW F
  PROVE  Represents(c, F)' <=> Represents(c, F)
<1>1. ChainsKept' <=> ChainsKept
  BY DEF ChainsKept
<1>2. RefsKept' <=> RefsKept
  BY DEF RefsKept
<1>3. LabelsKept' <=> LabelsKept
  BY DEF LabelsKept
<1>4. QED
  BY <1>1, <1>2, <1>3 DEF Represents, NodesStem, NodesFound, RefsMean, LabelsMark, Stem

LEMMA ProfileShape ==
  ASSUME NEW p \in Profiles
  PROVE  /\ Len(p) \in Nat /\ DOMAIN p = 1..Len(p) /\ 1 \in DOMAIN p
         /\ p[1].form = "config" /\ ~p[1].tagged
<1> DEFINE R == [files : {p[k].files : k \in DOMAIN p},
                 form : {"config", "links", "lines"}, tagged : BOOLEAN]
<1>1. p \in Seq(R) /\ p # <<>> /\ p[1].form = "config" /\ ~p[1].tagged
  BY IdentityAssumption
<1> HIDE DEF R
<1>2. QED
  BY <1>1

LEMMA Starts == Init => IInv
<1> SUFFICES ASSUME Init PROVE IInv
  OBVIOUS
<1>1. profile \in Profiles /\ Len(profile) \in Nat
  BY ProfileShape DEF Init
<1>2. QED
  BY <1>1 DEF Init, IInv, Built

LEMMA FilesGrow ==
  ASSUME IInv, NEW i \in DOMAIN profile, NEW f \in profile[i].files
  PROVE  /\ Append(files, f) \in Seq(FilesOf(profile)) /\ Len(Append(files, f)) = Len(files) + 1
         /\ ToSet(Append(files, f)) = ToSet(files) \union {f}
<1>1. f \in FilesOf(profile) /\ files \in Seq(FilesOf(profile))
  BY DEF IInv, FilesOf
<1>2. QED
  BY <1>1, ElementsOfAppend

LEMMA Inductive ==
  ASSUME IInv, [Next]_vars
  PROVE  IInv'
<1>1. /\ profile \in Profiles /\ Len(profile) \in Nat /\ DOMAIN profile = 1..Len(profile)
      /\ 1 \in DOMAIN profile /\ stage \in 1..(Len(profile) + 2) /\ Len(profile) >= 1
      /\ files \in Seq(FilesOf(profile)) /\ Len(files) < stage /\ Len(files) <= Len(profile)
      /\ Len(files) \in Nat
  BY ProfileShape DEF IInv
<1>2. CASE LoadTemplate
  <2>1. PICK f \in profile[1].files : files' = <<f>> /\ cfg' = Identified(Decoded(f))
    BY <1>2 DEF LoadTemplate
  <2>2. stage = 1 /\ stage' = 2 /\ profile' = profile
    BY <1>2 DEF LoadTemplate
  <2>3. files = <<>> /\ files' = Append(files, f) /\ ToSet(files) = {}
    BY <2>1, <2>2 DEF IInv, ToSet
  <2>4. /\ files' \in Seq(FilesOf(profile)) /\ Len(files') = Len(files) + 1
        /\ ToSet(files') = {f}
    BY <1>1, <2>3, FilesGrow
  <2>5. Loaded(1, f) = Decoded(f)
    BY <1>1, ProfileShape DEF Loaded, Normalized
  <2>6. Represents(Identified(Decoded(f)), {f})
    BY <1>1, <2>5, IdentifiedRepresents
  <2>7. Represents(cfg', ToSet(files'))
    BY <2>1, <2>4, <2>6
  <2>8. Represents(cfg, ToSet(files))'
    BY <2>2, <2>7, KeepsRepresenting
  <2>9. QED
    BY <1>1, <2>2, <2>3, <2>4, <2>8 DEF IInv, Built
<1>3. CASE MergeSource
  <2>1. PICK f \in profile[stage].files :
           files' = Append(files, f) /\ cfg' = Joined(cfg, Identified(Loaded(stage, f)))
    BY <1>3 DEF MergeSource
  <2>2. stage \in 2..Len(profile) /\ stage' = stage + 1 /\ profile' = profile
    BY <1>3 DEF MergeSource
  <2>3. stage \in DOMAIN profile /\ stage \in 2..(Len(profile) + 1)
    BY <1>1, <2>2
  <2>4. /\ files' \in Seq(FilesOf(profile)) /\ Len(files') = Len(files) + 1
        /\ ToSet(files') = ToSet(files) \union {f}
    BY <2>1, <2>3, FilesGrow
  <2>5. Represents(cfg, ToSet(files))
    BY <2>3 DEF IInv
  <2>6. Represents(Identified(Loaded(stage, f)), {f})
    BY <1>1, <2>3, IdentifiedRepresents
  <2>7. Represents(cfg', ToSet(files'))
    BY <2>1, <2>4, <2>5, <2>6, JoinedRepresents
  <2>8. Represents(cfg, ToSet(files))'
    BY <2>2, <2>7, KeepsRepresenting
  <2>9. QED
    BY <1>1, <2>2, <2>4, <2>8 DEF IInv, Built
<1>4. CASE SkipSource
  <2>1. /\ stage \in 2..Len(profile) /\ stage' = stage + 1
        /\ profile' = profile /\ files' = files /\ cfg' = cfg
    BY <1>4 DEF SkipSource
  <2>2. Represents(cfg', ToSet(files'))
    BY <1>1, <2>1 DEF IInv
  <2>3. Represents(cfg, ToSet(files))'
    BY <2>1, <2>2, KeepsRepresenting
  <2>4. QED
    BY <1>1, <2>1, <2>3 DEF IInv, Built
<1>5. CASE ApplyNames
  <2>1. /\ stage = Len(profile) + 1 /\ stage' = stage + 1 /\ cfg' = Applied(cfg)
        /\ profile' = profile /\ files' = files
    BY <1>5 DEF ApplyNames
  <2>2. Represents(cfg, ToSet(files')) /\ AppliedTo(cfg, cfg')
    BY <1>1, <2>1, AppliedConfig DEF IInv
  <2>3. \E c : Represents(c, ToSet(files))' /\ AppliedTo(c, cfg')
    BY <2>1, <2>2, KeepsRepresenting
  <2>4. QED
    BY <1>1, <2>1, <2>3 DEF IInv, Built
<1>6. CASE UNCHANGED vars
  <2>1. stage' = stage /\ profile' = profile /\ files' = files /\ cfg' = cfg
    BY <1>6 DEF vars
  <2>2. \A c : Represents(c, ToSet(files))' <=> Represents(c, ToSet(files))
    BY <2>1, KeepsRepresenting
  <2>3. stage \in 2..(Len(profile) + 1) => Represents(cfg, ToSet(files))'
    BY <2>1, <2>2 DEF IInv
  <2>4. Built => \E c : Represents(c, ToSet(files))' /\ AppliedTo(c, cfg)
    BY <2>2 DEF IInv
  <2>5. QED
    BY <1>1, <2>1, <2>3, <2>4 DEF IInv, Built
<1>7. QED
  BY <1>2, <1>3, <1>4, <1>5, <1>6 DEF Next

LEMMA Invariance == Spec => []IInv
<1>1. Init => IInv
  BY Starts
<1>2. IInv /\ [Next]_vars => IInv'
  BY Inductive
<1>3. QED
  BY <1>1, <1>2, PTL DEF Spec

-----------------------------------------------------------------------------
(* What the invariant says of the merged files.                              *)
LEMMA FilesMerged ==
  ASSUME IInv
  PROVE  /\ \A k \in DOMAIN files : \E i \in DOMAIN profile : files[k] \in profile[i].files
         /\ \A f \in ToSet(files) : \E i \in DOMAIN profile : f \in profile[i].files
         /\ \A f \in ToSet(files) : Offered(f) \in Seq(Nodes)
<1>1. files \in Seq(FilesOf(profile)) /\ profile \in Profiles
  BY DEF IInv
<1>2. \A k \in DOMAIN files : \E i \in DOMAIN profile : files[k] \in profile[i].files
  <2>1. \A k \in DOMAIN files : files[k] \in FilesOf(profile)
    <3> HIDE DEF FilesOf
    <3>1. QED
      BY <1>1, Over
  <2>2. QED
    BY <2>1 DEF FilesOf
<1>3. \A f \in ToSet(files) : \E i \in DOMAIN profile : f \in profile[i].files
  BY <1>2 DEF ToSet
<1>4. QED
  BY <1>1, <1>2, <1>3, FileShapes DEF Shape

LEMMA Stages ==
  ASSUME IInv, stage > 1
  PROVE  \/ Represents(cfg, ToSet(files)) /\ ~Built
         \/ Built /\ \E c : Represents(c, ToSet(files)) /\ AppliedTo(c, cfg)
<1>1. Len(profile) \in Nat /\ stage \in 1..(Len(profile) + 2)
  BY ProfileShape DEF IInv
<1>2. CASE stage = Len(profile) + 2
  BY <1>2 DEF IInv, Built
<1>3. CASE stage # Len(profile) + 2
  <2>1. stage \in 2..(Len(profile) + 1)
    BY <1>1, <1>3
  <2>2. QED
    BY <1>3, <2>1 DEF IInv, Built
<1>4. QED
  BY <1>2, <1>3

-----------------------------------------------------------------------------
LEMMA ConfigTypes ==
  /\ Merged \subseteq [nodes : Seq(NodesOver(Relays \union GivenNames, GivenNames)),
                       refs : SUBSET RefsTo(Spelled \union SourceNames \union GivenNames),
                       labels : SUBSET Keys]
  /\ Labelled = [nodes : Seq(NodesOver(Relays \union GivenNames, GivenNames)),
                 refs : SUBSET RefsTo(Spelled \union SourceNames \union GivenNames),
                 labels : SUBSET Keys]
<1>1. IdentifiedNodes \subseteq NodesOver(Relays \union GivenNames, GivenNames)
  BY DEF IdentifiedNodes, NodesOver, GivenNames
<1>2. ASSUME NEW A, NEW B, A \subseteq B PROVE Seq(A) \subseteq Seq(B)
  BY <1>2
<1>3. Seq(IdentifiedNodes) \subseteq Seq(NodesOver(Relays \union GivenNames, GivenNames))
  <2> HIDE DEF IdentifiedNodes, NodesOver
  <2>1. QED
    BY <1>1, <1>2
<1>4. RefsTo(Spelled \union SourceNames \union Identities)
        \subseteq RefsTo(Spelled \union SourceNames \union GivenNames)
  BY DEF RefsTo, GivenNames
<1>5. QED
  BY <1>3, <1>4 DEF Merged, Labelled

LEMMA TypesHold == IInv => TypeOK
<1> SUFFICES ASSUME IInv PROVE TypeOK
  OBVIOUS
<1> DEFINE N == NodesOver(Relays \union GivenNames, GivenNames)
           R == RefsTo(Spelled \union SourceNames \union GivenNames)
<1>1. cfg \in [nodes : Seq(N), refs : SUBSET R, labels : SUBSET Keys]
  <2>1. CASE stage = 1
    <3>1. cfg = [nodes |-> <<>>, refs |-> {}, labels |-> {}]
      BY <2>1 DEF IInv
    <3> HIDE DEF N, R
    <3>2. <<>> \in Seq(N)
      OBVIOUS
    <3>3. QED
      BY <3>1, <3>2
  <2>2. CASE stage > 1
    <3>1. cfg \in Merged \/ cfg \in Labelled
      BY <2>2, Stages DEF Represents, AppliedTo
    <3>2. QED
      BY <3>1, ConfigTypes
  <2>3. stage = 1 \/ stage > 1
    BY ProfileShape DEF IInv
  <2>4. QED
    BY <2>1, <2>2, <2>3
<1>2. QED
  BY <1>1, FilesMerged DEF TypeOK, IInv, NodesOver, RefsTo

-----------------------------------------------------------------------------
(* Each node of a merged file leads somewhere, before its label and after.   *)
LEMMA NodeOfIdentity ==
  ASSUME NEW c, NEW F, Represents(c, F), NEW f \in F, NEW l \in DOMAIN Offered(f)
  PROVE  \E j \in DOMAIN c.nodes : c.nodes[j].name = Identity(Key(Node(f, l)))
BY DEF Represents, NodesFound, ToSet

LEMMA SurvivesMerging ==
  ASSUME NEW c, NEW F, Represents(c, F), ChainsKept, Told(F),
         \A f \in F : Offered(f) \in Seq(Nodes),
         NEW f \in F, NEW l \in DOMAIN Offered(f)
  PROVE  \E j \in DOMAIN c.nodes : Means(c.nodes, c.nodes[j].name) = Chain(Offered(f), l)
BY NodeOfIdentity, MeansOfIdentity

LEMMA SurvivesApply ==
  ASSUME NEW c, NEW F, Represents(c, F), ChainsKept, Told(F),
         \A f \in F : Offered(f) \in Seq(Nodes), NEW a, AppliedTo(c, a),
         NEW f \in F, NEW l \in DOMAIN Offered(f)
  PROVE  \E j \in DOMAIN a.nodes : Means(a.nodes, a.nodes[j].name) = Chain(Offered(f), l)
<1>1. PICK j \in DOMAIN c.nodes : c.nodes[j].name = Identity(Key(Node(f, l)))
  BY NodeOfIdentity
<1>2. Chain(c.nodes, j) = Chain(Offered(f), l)
  BY <1>1, ChainOfIdentity
<1>3. DOMAIN a.nodes = DOMAIN c.nodes /\ a.nodes[j].name = Display(j)
  BY DEF AppliedTo
<1>4. QED
  BY <1>2, <1>3, LabelLeads

LEMMA NodesHold == IInv => (ChainsKept /\ KeysTellApart => NodesSurvive)
<1> SUFFICES ASSUME IInv, ChainsKept, KeysTellApart, stage > 1,
                    NEW f \in ToSet(files), NEW l \in DOMAIN Offered(f)
             PROVE  \E j \in DOMAIN cfg.nodes :
                       Means(cfg.nodes, cfg.nodes[j].name) = Chain(Offered(f), l)
  BY DEF NodesSurvive, MergedChains, ChainsOf, Leads
<1>1. Told(ToSet(files)) /\ \A g \in ToSet(files) : Offered(g) \in Seq(Nodes)
  BY FilesMerged DEF KeysTellApart, Told
<1>2. QED
  BY <1>1, Stages, SurvivesMerging, SurvivesApply

-----------------------------------------------------------------------------
(* A reference leads to what it means, before the labels and after.          *)
LEMMA FollowsMerging ==
  ASSUME NEW c, NEW F, Represents(c, F), ChainsKept, RefsKept, Told(F),
         \A f \in F : Offered(f) \in Seq(Nodes),
         NEW q \in c.refs, q.means # <<>>
  PROVE  Means(c.nodes, q.target) = q.means
<1>1. PICK f \in F : \E l \in DOMAIN Offered(f) :
         q.target = Identity(Key(Node(f, l))) /\ q.means = Chain(Offered(f), l)
  BY DEF Represents, RefsMean
<1>2. QED
  BY <1>1, MeansOfIdentity

LEMMA FollowsApply ==
  ASSUME NEW c, NEW F, Represents(c, F), ChainsKept, RefsKept, Told(F),
         \A f \in F : Offered(f) \in Seq(Nodes), NEW a, AppliedTo(c, a),
         NEW q \in a.refs, q.means # <<>>
  PROVE  Means(a.nodes, q.target) = q.means
<1>1. PICK r \in c.refs : q.means = r.means /\ q.target = ByLabel(c.nodes, r.target)
  BY DEF AppliedTo
<1>2. PICK f \in F : \E l \in DOMAIN Offered(f) :
         r.target = Identity(Key(Node(f, l))) /\ r.means = Chain(Offered(f), l)
  BY <1>1 DEF Represents, RefsMean
<1>3. PICK l \in DOMAIN Offered(f) :
         r.target = Identity(Key(Node(f, l))) /\ r.means = Chain(Offered(f), l)
  BY <1>2
<1> DEFINE ns == c.nodes
           t == Latest(NamesOf(ns), r.target)
<1>4. NamesOf(ns) \in Seq(Identities) /\ DOMAIN NamesOf(ns) = DOMAIN ns
      /\ \A j \in DOMAIN ns : NamesOf(ns)[j] = ns[j].name
  BY RepresentedNodes
<1>5. r.target \in ToSet(NamesOf(ns))
  <2>1. PICK j \in DOMAIN ns : ns[j].name = r.target
    BY <1>3, NodeOfIdentity
  <2>2. QED
    BY <1>4, <2>1 DEF ToSet
<1>6. t \in DOMAIN ns /\ ns[t].name = r.target
  BY <1>4, <1>5, LatestFound
<1>7. q.target = Display(t)
  BY <1>1, <1>5 DEF ByLabel
<1> HIDE DEF t
<1>8. Chain(ns, t) = Chain(Offered(f), l)
  BY <1>3, <1>6, ChainOfIdentity
<1>9. QED
  BY <1>1, <1>3, <1>6, <1>7, <1>8, LabelLeads

LEMMA RefsHold == IInv => (ChainsKept /\ KeysTellApart /\ RefsKept => ReferencesFollow)
<1> SUFFICES ASSUME IInv, ChainsKept, KeysTellApart, RefsKept, NEW q \in cfg.refs, q.means # <<>>
             PROVE  Means(cfg.nodes, q.target) = q.means
  BY DEF ReferencesFollow, Leads
<1>1. Told(ToSet(files)) /\ \A g \in ToSet(files) : Offered(g) \in Seq(Nodes)
  BY FilesMerged DEF KeysTellApart, Told
<1>2. stage > 1
  BY ProfileShape DEF IInv
<1>3. QED
  BY <1>1, <1>2, Stages, FollowsMerging, FollowsApply

-----------------------------------------------------------------------------
(* The nodes with a label that is kept: none has a dialer-proxy, so an        *)
(* endpoint is all that there is to its chain.                               *)
LEMMA LabelledChain ==
  ASSUME NEW c, NEW F, Represents(c, F), NEW a, AppliedTo(c, a), NEW j \in DOMAIN c.nodes
  PROVE  /\ ~HasLabel(a.nodes[j].name)
         /\ a.nodes[j].relay = NoName <=> c.nodes[j].relay = NoName
         /\ c.nodes[j].relay = NoName =>
               Means(a.nodes, a.nodes[j].name) = <<a.nodes[j].ep, NoName>>
<1> DEFINE ns == c.nodes
<1>1. /\ a.nodes[j].name = Display(j) /\ a.nodes[j].ep = ns[j].ep
      /\ a.nodes[j].relay = ByLabel(ns, ns[j].relay)
  BY DEF AppliedTo
<1>2. /\ ns \in Seq(NodesOver(Relays \union Identities, Identities))
      /\ NamesOf(ns) \in Seq(Identities)
  BY RepresentedNodes DEF IdentifiedNodes
<1>3. NoName \notin ToSet(NamesOf(ns)) /\ NoName \notin Identities
  BY <1>2, ElementsOf, NoNameIsNone
<1>4. \A n : ByLabel(ns, n) = NoName <=> n = NoName
  BY <1>3 DEF ByLabel, Display, NoName
<1>5. ~HasLabel(Display(j))
  BY DEF HasLabel, Display
<1>6. ns[j].relay = NoName => Chain(ns, j) = <<ns[j].ep, NoName>>
  BY <1>2, <1>3, NoDialer
<1>7. QED
  BY <1>1, <1>4, <1>5, <1>6, LabelLeads

LEMMA MarkedChain ==
  ASSUME NEW ns \in Seq(Nodes), NEW l \in DOMAIN ns, ns[l].relay = NoName
  PROVE  Chain(ns, l) = <<ns[l].ep, NoName>> /\ Key(ns[l]) = <<ns[l].ep, NoName>>
<1>1. ns \in Seq(NodesOver(Relays, Spelled)) /\ NoName \notin Spelled
  BY FileNodes, NoNameIsNone
<1>2. QED
  BY <1>1, NoDialer DEF Key

LEMMA BadgeHolds == IInv => (LabelsKept => BadgeFollows)
<1> SUFFICES ASSUME IInv, LabelsKept, Built
             PROVE  {Leads(n) : n \in Exported} = MarkedChains
  BY DEF BadgeFollows
<1> DEFINE F == ToSet(files)
           a == cfg
<1>1. PICK c : Represents(c, F) /\ AppliedTo(c, a)
  BY DEF IInv
<1>2. \A f \in F : /\ Offered(f) \in Seq(Nodes)
                   /\ \A l \in Marked(Offered(f)) : l \in DOMAIN Offered(f) /\ Node(f, l).relay = NoName
  BY FilesMerged DEF LabelsKept, Marked, Node
<1>3. \A f \in F : \A l \in Marked(Offered(f)) :
         /\ Chain(Offered(f), l) = <<Node(f, l).ep, NoName>>
         /\ Key(Node(f, l)) = <<Node(f, l).ep, NoName>>
  BY <1>2, MarkedChain DEF Node
<1>4. \A k : k \in a.labels <=> \E f \in F : \E l \in Marked(Offered(f)) : k = Key(Node(f, l))
  BY <1>1 DEF Represents, LabelsMark, AppliedTo
<1>5. DOMAIN a.nodes = DOMAIN c.nodes
  BY <1>1 DEF AppliedTo
<1>6. \A j \in DOMAIN a.nodes :
         /\ ~HasLabel(a.nodes[j].name)
         /\ a.nodes[j].relay = NoName <=> c.nodes[j].relay = NoName
         /\ c.nodes[j].relay = NoName => Leads(a.nodes[j].name) = <<a.nodes[j].ep, NoName>>
  BY <1>1, <1>5, LabelledChain DEF Leads
<1>7. ASSUME NEW n \in Exported PROVE Leads(n) \in MarkedChains
  <2>1. PICK j \in DOMAIN a.nodes : n = a.nodes[j].name /\ Key(a.nodes[j]) \in a.labels
    BY <1>6 DEF Exported, Marked
  <2>2. PICK f \in F : \E l \in Marked(Offered(f)) : Key(a.nodes[j]) = Key(Node(f, l))
    BY <1>4, <2>1
  <2>3. PICK l \in Marked(Offered(f)) : Key(a.nodes[j]) = Key(Node(f, l))
    BY <2>2
  <2>4. a.nodes[j].ep = Node(f, l).ep /\ a.nodes[j].relay = NoName
    BY <1>3, <2>3 DEF Key
  <2>5. Leads(n) = Chain(Offered(f), l)
    BY <1>3, <1>6, <2>1, <2>4
  <2>6. QED
    BY <2>5 DEF MarkedChains, ChainsOf
<1>8. ASSUME NEW f \in F, NEW l \in Marked(Offered(f))
      PROVE  \E n \in Exported : Leads(n) = Chain(Offered(f), l)
  <2>1. PICK j \in DOMAIN c.nodes : c.nodes[j].name = Identity(Key(Node(f, l)))
    BY <1>1, <1>2, NodeOfIdentity
  <2>2. c.nodes[j].ep = Node(f, l).ep /\ c.nodes[j].relay = NoName
    <3>1. c.nodes[j].name = Identity(<<Node(f, l).ep, NoName>>)
      BY <1>3, <2>1
    <3>2. QED
      BY <1>1, <3>1, EndpointOfName
  <2>3. a.nodes[j].ep = Node(f, l).ep /\ a.nodes[j].relay = NoName
    BY <1>1, <1>5, <1>6, <2>2 DEF AppliedTo
  <2>4. Key(a.nodes[j]) \in a.labels
    BY <1>3, <1>4, <2>3 DEF Key
  <2>5. a.nodes[j].name \in Exported
    BY <1>5, <2>4 DEF Exported
  <2>6. QED
    BY <1>3, <1>5, <1>6, <2>2, <2>3, <2>5
<1>9. QED
  BY <1>7, <1>8 DEF MarkedChains, ChainsOf

-----------------------------------------------------------------------------
(* Whatever the sources hold, loadOne, Identify, SubscriptionInto and Apply   *)
(* produce configurations in which each node is named by its identity or its  *)
(* label and each optimization label is a key, out of files of the profile.   *)
THEOREM Typing == Spec => []TypeOK
<1>1. IInv => TypeOK
  BY TypesHold
<1>2. QED
  BY <1>1, Invariance, PTL

(* naming.Identify, merge.SubscriptionInto and naming.Apply lose no node:     *)
(* where dialer-proxies survive loading and nodes of one key are of one chain *)
(* of endpoints, every chain of a merged file leads somewhere.               *)
THEOREM Survival == Spec => [](ChainsKept /\ KeysTellApart => NodesSurvive)
<1>1. IInv => (ChainsKept /\ KeysTellApart => NodesSurvive)
  BY NodesHold
<1>2. QED
  BY <1>1, Invariance, PTL

(* RewriteReferences follows every rename: under the same conditions, and     *)
(* where references survive loading, each leads to what its file means by it, *)
(* from the first file merged to the last label applied.                     *)
THEOREM Following == Spec => [](ChainsKept /\ KeysTellApart /\ RefsKept => ReferencesFollow)
<1>1. IInv => (ChainsKept /\ KeysTellApart /\ RefsKept => ReferencesFollow)
  BY RefsHold
<1>2. QED
  BY <1>1, Invariance, PTL

(* captureOptimized and Export agree: where a labelled node has no            *)
(* dialer-proxy and no source label takes its name away, exactly the          *)
(* endpoints that a source gave the label are exported with it.              *)
THEOREM Badge == Spec => [](LabelsKept => BadgeFollows)
<1>1. IInv => (LabelsKept => BadgeFollows)
  BY BadgeHolds
<1>2. QED
  BY <1>1, Invariance, PTL
==============================================================================
