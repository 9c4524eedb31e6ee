------------------------- MODULE RuleOverlayProofs --------------------------
(***************************************************************************)
(* What RuleOverlay's invariants rest on, for every set of configurations, *)
(* templates, patches and directives: the folds that filter and extend the *)
(* lists of a configuration, and that the overlay only ever adds direct    *)
(* rules that are new, each once and before all others.                    *)
(***************************************************************************)
EXTENDS RuleOverlay, FoldLemmas

LEMMA ContainsElements ==
  ASSUME NEW E, NEW s \in Seq(E), NEW e
  PROVE  Contains(s, e) <=> e \in ToSet(s)
BY DEF Contains, ToSet

-----------------------------------------------------------------------------
(* A fold has a value after each of its elements.                            *)
LEMMA UnfoldExtendedBy ==
  ASSUME NEW E, NEW f \in Seq(E), NEW ds \in Seq(E)
  PROVE  \E h : /\ h[1..0] = f /\ h[1..Len(ds)] = ExtendedBy(f, ds)
                /\ \A k \in Nat : k < Len(ds) => h[1..(k + 1)] = AppendNew(h[1..k], ds[k + 1])
<1> DEFINE G == [p \in Seq(E) \X E |-> AppendNew(p[1], p[2])]
           Step(g) == [t \in SUBSET (DOMAIN ds) |->
                         IF t = {} THEN f ELSE AppendNew(g[t \ {Max(t)}], ds[Max(t)])]
<1>1. G \in [Seq(E) \X E -> Seq(E)]
  BY DEF AppendNew
<1>2. PICK g \in [SUBSET (DOMAIN ds) -> Seq(E)] : Folding(g, G, f, ds, DOMAIN ds)
  <2> HIDE DEF G
  <2>1. QED
    BY <1>1, FoldExists
<1>3. \E iter : iter = Step(iter)
  <2>1. ASSUME NEW t \in SUBSET (DOMAIN ds), t # {}
        PROVE  G[<<g[t \ {Max(t)}], ds[Max(t)]>>] = AppendNew(g[t \ {Max(t)}], ds[Max(t)])
    BY <1>2, <2>1, LastIndex
  <2>2. \A t \in SUBSET (DOMAIN ds) : g[t] = Step(g)[t]
    BY <1>2, <2>1 DEF Folding
  <2>3. QED
    BY <1>2, <2>2
<1> DEFINE h == CHOOSE iter : iter = Step(iter)
<1>4. h = Step(h)
  <2> HIDE DEF Step
  <2>1. QED
    BY <1>3
<1>5. ExtendedBy(f, ds) = h[DOMAIN ds]
  BY Zenon DEF ExtendedBy, FoldLeft, MapThenFoldSet
<1> HIDE DEF h
<1>6. h[1..0] = f
  BY <1>4, NoIndices
<1>7. ASSUME NEW k \in Nat, k < Len(ds)
      PROVE  h[1..(k + 1)] = AppendNew(h[1..k], ds[k + 1])
  <2>1. /\ 1..(k + 1) \in SUBSET (DOMAIN ds) /\ 1..(k + 1) # {}
        /\ Max(1..(k + 1)) = k + 1 /\ (1..(k + 1)) \ {k + 1} = 1..k
    BY <1>7, FirstIndices
  <2>2. h[1..(k + 1)] = AppendNew(h[(1..(k + 1)) \ {Max(1..(k + 1))}], ds[Max(1..(k + 1))])
    BY <1>4, <2>1
  <2>3. QED
    BY <2>1, <2>2
<1>8. QED
  BY <1>5, <1>6, <1>7, NoIndices

Kept(c, new, r) == IF Contains(RulesOf(c), r) THEN new ELSE Append(new, r)

LEMMA UnfoldMissing ==
  ASSUME NEW E, NEW c, NEW ds \in Seq(E)
  PROVE  \E h : /\ h[1..0] = <<>> /\ h[1..Len(ds)] = Missing(c, ds)
                /\ \A k \in Nat : k < Len(ds) => h[1..(k + 1)] = Kept(c, h[1..k], ds[k + 1])
<1> DEFINE G == [p \in Seq(E) \X E |-> Kept(c, p[1], p[2])]
           Step(g) == [t \in SUBSET (DOMAIN ds) |->
                         IF t = {} THEN <<>> ELSE Kept(c, g[t \ {Max(t)}], ds[Max(t)])]
<1>1. G \in [Seq(E) \X E -> Seq(E)]
  BY DEF Kept
<1>2. PICK g \in [SUBSET (DOMAIN ds) -> Seq(E)] : Folding(g, G, <<>>, ds, DOMAIN ds)
  <2> HIDE DEF G
  <2>1. <<>> \in Seq(E)
    OBVIOUS
  <2>2. QED
    BY <1>1, <2>1, FoldExists
<1>3. \E iter : iter = Step(iter)
  <2>1. ASSUME NEW t \in SUBSET (DOMAIN ds), t # {}
        PROVE  G[<<g[t \ {Max(t)}], ds[Max(t)]>>] = Kept(c, g[t \ {Max(t)}], ds[Max(t)])
    BY <1>2, <2>1, LastIndex
  <2>2. \A t \in SUBSET (DOMAIN ds) : g[t] = Step(g)[t]
    BY <1>2, <2>1 DEF Folding
  <2>3. QED
    BY <1>2, <2>2
<1> DEFINE h == CHOOSE iter : iter = Step(iter)
<1>4. h = Step(h)
  <2> HIDE DEF Step
  <2>1. QED
    BY <1>3
<1>5. Missing(c, ds) = h[DOMAIN ds]
  BY Zenon DEF Missing, Kept, FoldLeft, MapThenFoldSet
<1> HIDE DEF h
<1>6. h[1..0] = <<>>
  BY <1>4, NoIndices
<1>7. ASSUME NEW k \in Nat, k < Len(ds)
      PROVE  h[1..(k + 1)] = Kept(c, h[1..k], ds[k + 1])
  <2>1. /\ 1..(k + 1) \in SUBSET (DOMAIN ds) /\ 1..(k + 1) # {}
        /\ Max(1..(k + 1)) = k + 1 /\ (1..(k + 1)) \ {k + 1} = 1..k
    BY <1>7, FirstIndices
  <2>2. h[1..(k + 1)] = Kept(c, h[(1..(k + 1)) \ {Max(1..(k + 1))}], ds[Max(1..(k + 1))])
    BY <1>4, <2>1
  <2>3. QED
    BY <2>1, <2>2
<1>8. QED
  BY <1>5, <1>6, <1>7, NoIndices

LEMMA UnfoldTemplates ==
  ASSUME NEW E, NEW c, NEW ds \in Seq(E), \A e \in E : ApplyTemplate(c, e) = c
  PROVE  \E h : /\ h[1..0] = c /\ h[1..Len(ds)] = ApplyTemplates(c, ds)
                /\ \A k \in Nat : k < Len(ds) => h[1..(k + 1)] = ApplyTemplate(h[1..k], ds[k + 1])
<1> DEFINE G == [p \in {c} \X E |-> ApplyTemplate(p[1], p[2])]
           Step(g) == [t \in SUBSET (DOMAIN ds) |->
                         IF t = {} THEN c ELSE ApplyTemplate(g[t \ {Max(t)}], ds[Max(t)])]
<1>1. G \in [{c} \X E -> {c}]
  OBVIOUS
<1>2. PICK g \in [SUBSET (DOMAIN ds) -> {c}] : Folding(g, G, c, ds, DOMAIN ds)
  <2> HIDE DEF G
  <2>1. QED
    BY <1>1, FoldExists
<1>3. \E iter : iter = Step(iter)
  <2>1. ASSUME NEW t \in SUBSET (DOMAIN ds), t # {}
        PROVE  G[<<g[t \ {Max(t)}], ds[Max(t)]>>] = ApplyTemplate(g[t \ {Max(t)}], ds[Max(t)])
    BY <1>2, <2>1, LastIndex
  <2>2. \A t \in SUBSET (DOMAIN ds) : g[t] = Step(g)[t]
    BY <1>2, <2>1 DEF Folding
  <2>3. QED
    BY <1>2, <2>2
<1> DEFINE h == CHOOSE iter : iter = Step(iter)
<1>4. h = Step(h)
  <2> HIDE DEF Step
  <2>1. QED
    BY <1>3
<1>5. ApplyTemplates(c, ds) = h[DOMAIN ds]
  BY Zenon DEF ApplyTemplates, FoldLeft, MapThenFoldSet
<1> HIDE DEF h
<1>6. h[1..0] = c
  BY <1>4, NoIndices
<1>7. ASSUME NEW k \in Nat, k < Len(ds)
      PROVE  h[1..(k + 1)] = ApplyTemplate(h[1..k], ds[k + 1])
  <2>1. /\ 1..(k + 1) \in SUBSET (DOMAIN ds) /\ 1..(k + 1) # {}
        /\ Max(1..(k + 1)) = k + 1 /\ (1..(k + 1)) \ {k + 1} = 1..k
    BY <1>7, FirstIndices
  <2>2. h[1..(k + 1)] = ApplyTemplate(h[(1..(k + 1)) \ {Max(1..(k + 1))}], ds[Max(1..(k + 1))])
    BY <1>4, <2>1
  <2>3. QED
    BY <2>1, <2>2
<1>8. QED
  BY <1>5, <1>6, <1>7, NoIndices

-----------------------------------------------------------------------------
(* What the folds compute.  A list that is extended keeps what it has and    *)
(* gets what is new, each once; it stays as it is if there is nothing new.   *)
LEMMA ExtensionAdds ==
  ASSUME NEW E, NEW f \in Seq(E), NEW ds \in Seq(E)
  PROVE  /\ ExtendedBy(f, ds) \in Seq(E)
         /\ ToSet(ExtendedBy(f, ds)) = ToSet(f) \union ToSet(ds)
         /\ IsInjective(f) => IsInjective(ExtendedBy(f, ds))
         /\ ToSet(ds) \subseteq ToSet(f) => ExtendedBy(f, ds) = f
<1> DEFINE n == Len(ds)
           Upto(k) == {ds[i] : i \in 1..k}
           Good(r, k) == /\ r \in Seq(E) /\ ToSet(r) = ToSet(f) \union Upto(k)
                         /\ IsInjective(f) => IsInjective(r)
                         /\ ToSet(ds) \subseteq ToSet(f) => r = f
           I == [k \in Nat |-> {r \in Seq(E) : Good(r, k)}]
<1>1. PICK h : /\ h[1..0] = f /\ h[1..n] = ExtendedBy(f, ds)
               /\ \A k \in Nat : k < n => h[1..(k + 1)] = AppendNew(h[1..k], ds[k + 1])
  BY UnfoldExtendedBy
<1>2. n \in Nat /\ DOMAIN ds = 1..n /\ \A k \in Nat : k < n => ds[k + 1] \in E /\ k + 1 \in 1..n
  OBVIOUS
<1>3. h[1..0] \in I[0]
  <2>1. Upto(0) = {}
    OBVIOUS
  <2>2. QED
    BY <1>1, <2>1
<1>4. ASSUME NEW k \in Nat, k < n, h[1..k] \in I[k] PROVE h[1..(k + 1)] \in I[k + 1]
  <2> DEFINE r == h[1..k]
             e == ds[k + 1]
  <2>1. Good(r, k) /\ e \in E /\ e \in ToSet(ds)
    BY <1>2, <1>4 DEF ToSet
  <2>2. Upto(k + 1) = Upto(k) \union {e}
    <3>1. 1..(k + 1) = (1..k) \union {k + 1}
      OBVIOUS
    <3>2. QED
      BY <3>1
  <2>3. h[1..(k + 1)] = AppendNew(r, e)
    BY <1>1, <1>4
  <2> HIDE DEF r, e
  <2>4. Good(AppendNew(r, e), k + 1)
    <3> HIDE DEF Upto
    <3>1. CASE Contains(r, e)
      BY <2>1, <2>2, <3>1, ContainsElements DEF AppendNew
    <3>2. CASE ~Contains(r, e)
      <4>1. e \notin ToSet(r)
        BY <2>1, <3>2, ContainsElements
      <4>2. QED
        BY <2>1, <2>2, <3>2, <4>1, ElementsOfAppend DEF AppendNew
    <3>3. QED
      BY <3>1, <3>2
  <2>5. QED
    BY <2>3, <2>4
<1>5. h[1..n] \in I[n]
  <2> HIDE DEF I, n
  <2>1. QED
    BY <1>2, <1>3, <1>4, FoldInvariant
<1>6. Upto(n) = ToSet(ds)
  BY <1>2 DEF ToSet
<1>7. QED
  BY <1>1, <1>2, <1>5, <1>6

(* The rules that are missing are those of the template that the list does   *)
(* not hold, each once.                                                      *)
LEMMA MissingRules ==
  ASSUME NEW E, NEW c, RulesOf(c) \in Seq(E), NEW rs \in Seq(E)
  PROVE  /\ Missing(c, rs) \in Seq(E)
         /\ ToSet(Missing(c, rs)) = ToSet(rs) \ ToSet(RulesOf(c))
         /\ IsInjective(rs) => IsInjective(Missing(c, rs))
<1> DEFINE n == Len(rs)
           Upto(k) == {rs[i] : i \in 1..k}
           Good(r, k) == /\ r \in Seq(E) /\ ToSet(r) = Upto(k) \ ToSet(RulesOf(c))
                         /\ IsInjective(rs) => IsInjective(r)
           I == [k \in Nat |-> {r \in Seq(E) : Good(r, k)}]
<1>1. PICK h : /\ h[1..0] = <<>> /\ h[1..n] = Missing(c, rs)
               /\ \A k \in Nat : k < n => h[1..(k + 1)] = Kept(c, h[1..k], rs[k + 1])
  BY UnfoldMissing
<1>2. n \in Nat /\ DOMAIN rs = 1..n /\ \A k \in Nat : k < n => rs[k + 1] \in E /\ k + 1 \in 1..n
  OBVIOUS
<1>3. h[1..0] \in I[0]
  <2>1. Upto(0) = {} /\ <<>> \in Seq(E) /\ ToSet(<<>>) = {} /\ IsInjective(<<>>)
    BY DEF ToSet, IsInjective
  <2>2. QED
    BY <1>1, <2>1
<1>4. ASSUME NEW k \in Nat, k < n, h[1..k] \in I[k] PROVE h[1..(k + 1)] \in I[k + 1]
  <2> DEFINE r == h[1..k]
             e == rs[k + 1]
  <2>1. Good(r, k) /\ e \in E
    BY <1>2, <1>4
  <2>2. Upto(k + 1) = Upto(k) \union {e}
    <3>1. 1..(k + 1) = (1..k) \union {k + 1}
      OBVIOUS
    <3>2. QED
      BY <3>1
  <2>3. h[1..(k + 1)] = Kept(c, r, e)
    BY <1>1, <1>4
  <2>4. IsInjective(rs) => e \notin Upto(k)
    BY <1>2, <1>4 DEF IsInjective
  <2> HIDE DEF r, e
  <2>5. Good(Kept(c, r, e), k + 1)
    <3> HIDE DEF Upto
    <3>1. CASE Contains(RulesOf(c), e)
      BY <2>1, <2>2, <3>1, ContainsElements DEF Kept
    <3>2. CASE ~Contains(RulesOf(c), e)
      <4>1. e \notin ToSet(RulesOf(c))
        BY <2>1, <3>2, ContainsElements
      <4>2. QED
        BY <2>1, <2>2, <2>4, <3>2, <4>1, ElementsOfAppend DEF Kept
    <3>3. QED
      BY <3>1, <3>2
  <2>6. QED
    BY <2>3, <2>5
<1>5. h[1..n] \in I[n]
  <2> HIDE DEF I, n
  <2>1. QED
    BY <1>2, <1>3, <1>4, FoldInvariant
<1>6. Upto(n) = ToSet(rs)
  BY <1>2 DEF ToSet
<1>7. QED
  BY <1>1, <1>2, <1>5, <1>6

LEMMA AddEntryAdds ==
  ASSUME NEW out \in Seq(Domains), NEW e
  PROVE  AddEntry(out, e) \in Seq(Domains) /\ (IsInjective(out) => IsInjective(AddEntry(out, e)))
<1> DEFINE ds == IF e \in DOMAIN Platforms THEN Platforms[e]
                 ELSE IF e \in Domains THEN <<e>> ELSE <<>>
<1>1. ds \in Seq(Domains)
  BY OverlayAssumption
<1> HIDE DEF ds
<1>2. QED
  BY <1>1, ExtensionAdds DEF AddEntry, ds

LEMMA UnfoldExpandDomains ==
  ASSUME NEW ds \in Seq(STRING)
  PROVE  \E h : /\ h[1..0] = <<>> /\ h[1..Len(ds)] = ExpandDomains(ds)
                /\ \A k \in Nat : k < Len(ds) => h[1..(k + 1)] = AddEntry(h[1..k], ds[k + 1])
<1> DEFINE G == [p \in Seq(Domains) \X STRING |-> AddEntry(p[1], p[2])]
           Step(g) == [t \in SUBSET (DOMAIN ds) |->
                         IF t = {} THEN <<>> ELSE AddEntry(g[t \ {Max(t)}], ds[Max(t)])]
<1>1. G \in [Seq(Domains) \X STRING -> Seq(Domains)]
  BY AddEntryAdds
<1>2. PICK g \in [SUBSET (DOMAIN ds) -> Seq(Domains)] : Folding(g, G, <<>>, ds, DOMAIN ds)
  <2> HIDE DEF G
  <2>1. <<>> \in Seq(Domains)
    OBVIOUS
  <2>2. QED
    BY <1>1, <2>1, FoldExists
<1>3. \E iter : iter = Step(iter)
  <2>1. ASSUME NEW t \in SUBSET (DOMAIN ds), t # {}
        PROVE  G[<<g[t \ {Max(t)}], ds[Max(t)]>>] = AddEntry(g[t \ {Max(t)}], ds[Max(t)])
    BY <1>2, <2>1, LastIndex
  <2>2. \A t \in SUBSET (DOMAIN ds) : g[t] = Step(g)[t]
    BY <1>2, <2>1 DEF Folding
  <2>3. QED
    BY <1>2, <2>2
<1> DEFINE h == CHOOSE iter : iter = Step(iter)
<1>4. h = Step(h)
  <2> HIDE DEF Step
  <2>1. QED
    BY <1>3
<1>5. ExpandDomains(ds) = h[DOMAIN ds]
  BY Zenon DEF ExpandDomains, FoldLeft, MapThenFoldSet
<1> HIDE DEF h
<1>6. h[1..0] = <<>>
  BY <1>4, NoIndices
<1>7. ASSUME NEW k \in Nat, k < Len(ds)
      PROVE  h[1..(k + 1)] = AddEntry(h[1..k], ds[k + 1])
  <2>1. /\ 1..(k + 1) \in SUBSET (DOMAIN ds) /\ 1..(k + 1) # {}
        /\ Max(1..(k + 1)) = k + 1 /\ (1..(k + 1)) \ {k + 1} = 1..k
    BY <1>7, FirstIndices
  <2>2. h[1..(k + 1)] = AddEntry(h[(1..(k + 1)) \ {Max(1..(k + 1))}], ds[Max(1..(k + 1))])
    BY <1>4, <2>1
  <2>3. QED
    BY <2>1, <2>2
<1>8. QED
  BY <1>5, <1>6, <1>7, NoIndices

(* The directive stands for domains, each once. *)
LEMMA ExpandedDomains ==
  ASSUME NEW ds \in Seq(STRING)
  PROVE  ExpandDomains(ds) \in Seq(Domains) /\ IsInjective(ExpandDomains(ds))
<1> DEFINE n == Len(ds)
           I == [k \in Nat |-> {r \in Seq(Domains) : IsInjective(r)}]
<1>1. PICK h : /\ h[1..0] = <<>> /\ h[1..n] = ExpandDomains(ds)
               /\ \A k \in Nat : k < n => h[1..(k + 1)] = AddEntry(h[1..k], ds[k + 1])
  BY UnfoldExpandDomains
<1>2. n \in Nat
  OBVIOUS
<1>3. h[1..0] \in I[0]
  BY <1>1 DEF IsInjective
<1>4. ASSUME NEW k \in Nat, k < n, h[1..k] \in I[k] PROVE h[1..(k + 1)] \in I[k + 1]
  BY <1>1, <1>4, AddEntryAdds
<1>5. h[1..n] \in I[n]
  <2> HIDE DEF I, n
  <2>1. QED
    BY <1>2, <1>3, <1>4, FoldInvariant
<1>6. QED
  BY <1>1, <1>2, <1>5

LEMMA NoEntries == ExpandDomains(<<>>) = <<>>
<1>1. <<>> \in Seq(STRING) /\ Len(<<>>) = 0
  OBVIOUS
<1>2. QED
  BY <1>1, UnfoldExpandDomains

(* Templates that find nothing to do one by one find nothing to do together. *)
LEMMA NothingToApply ==
  ASSUME NEW E, NEW c, NEW ds \in Seq(E), \A e \in E : ApplyTemplate(c, e) = c
  PROVE  ApplyTemplates(c, ds) = c
<1> DEFINE n == Len(ds)
           I == [k \in Nat |-> {c}]
<1>1. PICK h : /\ h[1..0] = c /\ h[1..n] = ApplyTemplates(c, ds)
               /\ \A k \in Nat : k < n => h[1..(k + 1)] = ApplyTemplate(h[1..k], ds[k + 1])
  BY UnfoldTemplates
<1>2. n \in Nat /\ \A k \in Nat : k < n => ds[k + 1] \in E
  OBVIOUS
<1>3. h[1..0] \in I[0]
  BY <1>1
<1>4. ASSUME NEW k \in Nat, k < n, h[1..k] \in I[k] PROVE h[1..(k + 1)] \in I[k + 1]
  <2>1. h[1..(k + 1)] = ApplyTemplate(h[1..k], ds[k + 1]) /\ h[1..k] = c /\ ds[k + 1] \in E
    BY <1>1, <1>2, <1>4
  <2>2. QED
    BY <2>1
<1>5. h[1..n] \in I[n]
  <2> HIDE DEF I, n
  <2>1. QED
    BY <1>2, <1>3, <1>4, FoldInvariant
<1>6. QED
  BY <1>1, <1>2, <1>5

-----------------------------------------------------------------------------
(* The parts of a configuration: to set one leaves the others alone.         *)
LEMMA WithIsMapping ==
  ASSUME NEW m, NEW k, NEW v
  PROVE  IsMapping(With(m, k, v))
BY DEF With, Filled, IsMapping

LEMMA WithKey ==
  ASSUME NEW m, NEW k, NEW v
  PROVE  Get(With(m, k, v), k) = v
BY DEF With, Filled, Get

LEMMA OtherKeys ==
  ASSUME NEW m, NEW k, NEW v, NEW x, x # k
  PROVE  Get(With(m, k, v), x) = Get(m, x)
BY DEF With, Filled, Get

LEMMA Shapes ==
  /\ \A x : IsList(List(x)) /\ ~IsMap(List(x)) /\ List(x)[2] = x
  /\ \A x : IsMap(Map(x)) /\ ~IsList(Map(x)) /\ Map(x)[2] = x
  /\ ~IsList(Null) /\ ~IsMap(Null)
BY DEF IsList, IsMap, List, Map, Null

LEMMA RulesAreRules ==
  ASSUME NEW c, RulesValue(Get(c, "rules"))
  PROVE  RulesOf(c) \in Seq(Rules)
BY DEF RulesOf, RulesValue, Elements

LEMMA SetRules ==
  ASSUME NEW c, WellFormed(c), NEW rs \in Seq(Rules), NEW d, d = With(c, "rules", List(rs))
  PROVE  /\ WellFormed(d) /\ RulesOf(d) = rs
         /\ FakeIp(d) = FakeIp(c) /\ FilterOf(d) = FilterOf(c)
<1>1. IsMapping(d) /\ Get(d, "rules") = List(rs) /\ Get(d, "dns") = Get(c, "dns")
  <2>1. "rules" # "dns"
    OBVIOUS
  <2>2. QED
    BY <2>1, WithIsMapping, WithKey, OtherKeys
<1>2. RulesValue(List(rs)) /\ Elements(List(rs)) = rs
  BY Shapes DEF RulesValue, Elements
<1>3. FakeIp(d) = FakeIp(c) /\ FilterOf(d) = FilterOf(c)
  BY <1>1 DEF FakeIp, FilterOf
<1>4. QED
  BY <1>1, <1>2, <1>3 DEF WellFormed, RulesOf

LEMMA SetFilter ==
  ASSUME NEW c, WellFormed(c), FakeIp(c), NEW ds \in Seq(Domains),
         NEW d, d = With(c, "dns", Map(With(Get(c, "dns")[2], "filter", List(ds))))
  PROVE  /\ WellFormed(d) /\ RulesOf(d) = RulesOf(c)
         /\ FakeIp(d) /\ FilterOf(d) = ds
<1> DEFINE m == Get(c, "dns")[2]
           n == With(m, "filter", List(ds))
<1>0. "rules" # "dns" /\ "mode" # "filter"
  OBVIOUS
<1>1. IsMapping(d) /\ Get(d, "dns") = Map(n) /\ Get(d, "rules") = Get(c, "rules")
  BY <1>0, WithIsMapping, WithKey, OtherKeys
<1>2. IsMapping(n) /\ Get(n, "filter") = List(ds) /\ Get(n, "mode") = Get(m, "mode")
  BY <1>0, WithIsMapping, WithKey, OtherKeys
<1> HIDE DEF n
<1>3. Get(d, "dns")[2] = n /\ IsMap(Get(d, "dns"))
  BY <1>1, Shapes
<1>4. FakeIp(d)
  BY <1>2, <1>3 DEF FakeIp
<1>5. FilterValue(List(ds)) /\ Elements(List(ds)) = ds
  BY Shapes DEF FilterValue, Elements
<1>6. FilterOf(d) = ds
  BY <1>2, <1>3, <1>5 DEF FilterOf
<1>7. DnsValue(Get(d, "dns"))
  BY <1>1, <1>2, <1>3, <1>5 DEF DnsValue
<1>8. RulesOf(d) = RulesOf(c)
  BY <1>1 DEF RulesOf
<1>9. QED
  BY <1>1, <1>4, <1>6, <1>7, <1>8 DEF WellFormed

-----------------------------------------------------------------------------
(* What sources and overrides hand on is well-formed.                        *)
LEMMA KeptKey ==
  ASSUME NEW c, NEW src, NEW k, k \notin DOMAIN src
  PROVE  Get(SubscriptionInto(c, src), k) = Get(c, k)
BY DEF SubscriptionInto, Get

LEMMA MergedRules ==
  ASSUME NEW c, NEW src, "rules" \in DOMAIN src
  PROVE  Get(SubscriptionInto(c, src), "rules") = List(RulesOf(c) \o RulesOf(src))
BY DEF SubscriptionInto, Get

LEMMA MergedKey ==
  ASSUME NEW c, NEW src, NEW k \in DOMAIN src, k # "rules"
  PROVE  \/ Get(SubscriptionInto(c, src), k) \in {Get(c, k), Get(src, k)}
         \/ /\ IsMap(Get(c, k)) /\ IsMap(Get(src, k))
            /\ Get(SubscriptionInto(c, src), k) = Map(Filled(Get(c, k)[2], Get(src, k)[2]))
BY DEF SubscriptionInto, Get

LEMMA DeepMergedKey ==
  ASSUME NEW c, NEW src, NEW k
  PROVE  \/ Get(DeepMerge(c, src), k) \in {Get(c, k), Get(src, k), Null}
         \/ /\ IsMap(Get(c, k)) /\ IsMap(Get(src, k))
            /\ Get(DeepMerge(c, src), k) = Map(MergedWith(Get(c, k)[2], Get(src, k)[2], Replace))
<1> DEFINE K == (DOMAIN c \union DOMAIN src) \ {p \in DOMAIN src : src[p] = Null}
<1>1. DOMAIN DeepMerge(c, src) = K
  BY DEF DeepMerge, MergedWith
<1>2. CASE k \notin K
  BY <1>1, <1>2 DEF Get
<1>3. CASE k \in K
  <2>1. DeepMerge(c, src)[k] = IF k \notin DOMAIN src THEN c[k]
       ELSE IF IsMap(Get(c, k)) /\ IsMap(src[k])
            THEN Map(MergedWith(c[k][2], src[k][2], Replace))
            ELSE src[k]
    BY <1>3 DEF DeepMerge, MergedWith
  <2>2. Get(DeepMerge(c, src),k) = DeepMerge(c, src)[k]
    BY <1>1, <1>3 DEF Get
  <2>3. CASE k \notin DOMAIN src
    BY <1>3, <2>1, <2>2, <2>3 DEF Get
  <2>4. CASE k \in DOMAIN src /\ ~(IsMap(Get(c, k)) /\ IsMap(src[k]))
    BY <1>3, <2>1, <2>2, <2>4 DEF Get
  <2>5. CASE k \in DOMAIN src /\ IsMap(Get(c, k)) /\ IsMap(src[k])
    <3>1. Get(c, k) = c[k]
      BY <2>5 DEF Get, IsMap, Null
    <3>2. QED
      BY <1>3, <2>1, <2>2, <2>5, <3>1 DEF Get
  <2>6. QED
    BY <2>3, <2>4, <2>5
<1>4. QED
  BY <1>2, <1>3

LEMMA SourceMerges ==
  ASSUME NEW c, WellFormed(c), NEW src, WellFormed(src)
  PROVE  WellFormed(SubscriptionInto(c, src))
<1> DEFINE d == SubscriptionInto(c, src)
<1>1. DOMAIN d = DOMAIN c \union DOMAIN src /\ IsMapping(d)
  BY DEF SubscriptionInto, IsMapping
<1>2. RulesValue(Get(d, "rules"))
  <2>1. CASE "rules" \in DOMAIN src
    <3>1. Get(d, "rules") = List(RulesOf(c) \o RulesOf(src))
      BY <2>1, MergedRules
    <3>2. RulesOf(c) \o RulesOf(src) \in Seq(Rules)
      BY RulesAreRules DEF WellFormed
    <3> HIDE DEF d
    <3>3. QED
      BY <3>1, <3>2, Shapes DEF RulesValue
  <2>2. CASE "rules" \notin DOMAIN src
    <3>1. Get(d, "rules") = Get(c, "rules")
      BY <2>2, KeptKey
    <3>2. QED
      BY <3>1 DEF WellFormed
  <2>3. QED
    BY <2>1, <2>2
<1>3. DnsValue(Get(d, "dns"))
  <2> DEFINE m == Get(c, "dns")[2]
             n == Get(src, "dns")[2]
  <2>1. "dns" # "rules"
    OBVIOUS
  <2>2. CASE /\ IsMap(Get(c, "dns")) /\ IsMap(Get(src, "dns"))
             /\ Get(d, "dns") = Map(Filled(m, n))
    <3>1. FilterValue(Get(m, "filter")) /\ FilterValue(Get(n, "filter"))
      BY <2>2 DEF WellFormed, DnsValue
    <3>2. IsMapping(Filled(m, n)) /\ Get(Filled(m, n), "filter") \in {Get(m, "filter"), Get(n, "filter")}
      BY DEF IsMapping, Filled, Get
    <3> HIDE DEF d, m, n
    <3>3. FilterValue(Get(Filled(m, n), "filter"))
      BY <3>1, <3>2
    <3>4. QED
      BY <2>2, <3>2, <3>3, Shapes DEF DnsValue
  <2>3. CASE Get(d, "dns") \in {Get(c, "dns"), Get(src, "dns")}
    <3> HIDE DEF d
    <3>1. QED
      BY <2>3 DEF WellFormed
  <2>4. QED
    BY <2>1, <2>2, <2>3, MergedKey, KeptKey
<1> HIDE DEF d
<1>4. WellFormed(d)
  BY <1>1, <1>2, <1>3 DEF WellFormed
<1>5. QED
  BY <1>4 DEF d

LEMMA DeepMerges ==
  ASSUME NEW c, WellFormed(c), NEW p, WellFormed(p)
  PROVE  WellFormed(DeepMerge(c, p))
<1> DEFINE d == DeepMerge(c, p)
           Inner(m, n) == MergedWith(m, n, Replace)
<1>1. IsMapping(d)
  BY DEF DeepMerge, MergedWith, IsMapping
<1>2. ASSUME NEW k
      PROVE  \/ Get(d, k) \in {Get(c, k), Get(p, k), Null}
             \/ /\ IsMap(Get(c, k)) /\ IsMap(Get(p, k))
                /\ Get(d, k) = Map(Inner(Get(c, k)[2], Get(p, k)[2]))
  BY DeepMergedKey
<1>3. RulesValue(Null) /\ DnsValue(Null)
  BY Shapes DEF RulesValue, DnsValue
<1>4. RulesValue(Get(d, "rules"))
  <2> HIDE DEF d, Inner
  <2>1. QED
    BY <1>2, <1>3, Shapes DEF WellFormed, RulesValue
<1>5. DnsValue(Get(d, "dns"))
  <2> DEFINE m == Get(c, "dns")[2]
             n == Get(p, "dns")[2]
             i == Inner(m, n)
  <2>1. CASE IsMap(Get(c, "dns")) /\ IsMap(Get(p, "dns")) /\ Get(d, "dns") = Map(i)
    <3>1. FilterValue(Get(m, "filter")) /\ FilterValue(Get(n, "filter"))
      BY <2>1 DEF WellFormed, DnsValue
    <3>2. IsMapping(i)
      BY DEF MergedWith, IsMapping
    <3>3. Get(i, "filter") \in {Get(m, "filter"), Get(n, "filter"), Null} \/ IsMap(Get(i, "filter"))
      BY Shapes DEF MergedWith, Get
    <3>4. \A v : IsMap(v) => FilterValue(v)
      BY DEF FilterValue, IsList, IsMap
    <3>5. FilterValue(Null)
      BY Shapes DEF FilterValue
    <3> HIDE DEF d, i, m, n
    <3>6. FilterValue(Get(i, "filter"))
      BY <3>1, <3>3, <3>4, <3>5
    <3>7. QED
      BY <2>1, <3>2, <3>6, Shapes DEF DnsValue
  <2>2. CASE Get(d, "dns") \in {Get(c, "dns"), Get(p, "dns"), Null}
    <3> HIDE DEF d
    <3>1. QED
      BY <1>3, <2>2 DEF WellFormed
  <2> HIDE DEF d, Inner
  <2>3. QED
    BY <1>2, <2>1, <2>2
<1> HIDE DEF d
<1>6. WellFormed(d)
  BY <1>1, <1>4, <1>5 DEF WellFormed
<1>7. QED
  BY <1>6 DEF d

LEMMA Patches ==
  ASSUME NEW c, WellFormed(c)
  PROVE  /\ \A s \in Strategies : WellFormed(ApplyStrategy(c, s))
         /\ \A j \in JsonPatches : Applicable(c, j) => WellFormed(ApplyJsonPatch(c, j))
<1> DEFINE rs == RulesOf(c)
<1>1. rs \in Seq(Rules)
  BY RulesAreRules DEF WellFormed
<1> HIDE DEF rs
<1>2. ASSUME NEW s \in Strategies PROVE WellFormed(ApplyStrategy(c, s))
  <2>1. s.action \in {"append", "prepend"} /\ s.value \in Rules
    BY OverlayAssumption
  <2>2. Append(rs, s.value) \in Seq(Rules) /\ <<s.value>> \o rs \in Seq(Rules)
    BY <1>1, <2>1
  <2>3. \E t \in Seq(Rules) : ApplyStrategy(c, s) = With(c, "rules", List(t))
    BY <2>1, <2>2 DEF ApplyStrategy, rs
  <2>4. QED
    BY <2>3, SetRules
<1>3. ASSUME NEW j \in JsonPatches, Applicable(c, j) PROVE WellFormed(ApplyJsonPatch(c, j))
  <2>1. j.op \in {"replace", "remove"} /\ j.value \in Rules /\ j.at \in DOMAIN rs
    BY <1>3, OverlayAssumption DEF Applicable, rs
  <2>2. ReplaceAt(rs, j.at, j.value) \in Seq(Rules) /\ RemoveAt(rs, j.at) \in Seq(Rules)
    BY <1>1, <2>1 DEF ReplaceAt, RemoveAt
  <2>3. \E t \in Seq(Rules) : ApplyJsonPatch(c, j) = With(c, "rules", List(t))
    BY <2>1, <2>2 DEF ApplyJsonPatch, rs
  <2>4. QED
    BY <2>3, SetRules
<1>4. QED
  BY <1>2, <1>3


-----------------------------------------------------------------------------
(* What an overlay step does: the missing rules come first, the missing      *)
(* domains are exempt, and nothing happens where nothing is missing.         *)
DirectRules == {r \in Rules : r.to = "DIRECT"}

LEMMA WithSame ==
  ASSUME NEW m, IsMapping(m), NEW k \in DOMAIN m
  PROVE  With(m, k, m[k]) = m
<1>1. With(m, k, m[k]) = [x \in DOMAIN m |-> m[x]]
  BY DEF With, Filled
<1>2. QED
  BY <1>1 DEF IsMapping

LEMMA PrependedRules ==
  ASSUME NEW c, WellFormed(c), NEW rs \in Seq(DirectRules), IsInjective(rs),
         NEW d, d = PrependRules(c, rs)
  PROVE  /\ WellFormed(d) /\ FakeIp(d) = FakeIp(c) /\ FilterOf(d) = FilterOf(c)
         /\ \E new \in Seq(DirectRules) :
              /\ RulesOf(d) = new \o RulesOf(c) /\ IsInjective(new)
              /\ ToSet(new) = ToSet(rs) \ ToSet(RulesOf(c))
         /\ ToSet(rs) \subseteq ToSet(RulesOf(c)) => d = c
<1> DEFINE new == Missing(c, rs)
<1>1. RulesOf(c) \in Seq(Rules) /\ rs \in Seq(Rules)
  BY RulesAreRules DEF WellFormed, DirectRules
<1>2. /\ new \in Seq(Rules) /\ IsInjective(new)
      /\ ToSet(new) = ToSet(rs) \ ToSet(RulesOf(c))
  BY <1>1, MissingRules
<1>3. new \in Seq(DirectRules)
  <2>1. ToSet(rs) \subseteq DirectRules
    BY ElementsOf
  <2> HIDE DEF new
  <2>2. QED
    BY <1>2, <2>1, InItsElements
<1> HIDE DEF new
<1>4. CASE new = <<>>
  <2>1. d = c
    BY <1>4 DEF PrependRules, new
  <2>2. RulesOf(c) = <<>> \o RulesOf(c)
    BY <1>1
  <2>3. QED
    BY <1>2, <1>3, <1>4, <2>1, <2>2
<1>5. CASE new # <<>>
  <2>1. d = With(c, "rules", List(new \o RulesOf(c)))
    BY <1>5 DEF PrependRules, new
  <2>2. new \o RulesOf(c) \in Seq(Rules)
    BY <1>1, <1>2
  <2>3. /\ WellFormed(d) /\ RulesOf(d) = new \o RulesOf(c)
        /\ FakeIp(d) = FakeIp(c) /\ FilterOf(d) = FilterOf(c)
    BY <2>1, <2>2, SetRules
  <2>4. ~(ToSet(rs) \subseteq ToSet(RulesOf(c)))
    BY <1>2, <1>5, ElementsOf
  <2>5. QED
    BY <1>2, <1>3, <2>3, <2>4
<1>6. QED
  BY <1>4, <1>5

LEMMA AppendedFilter ==
  ASSUME NEW c, WellFormed(c), NEW ds \in Seq(Domains),
         NEW d, d = AppendFakeIPFilter(c, ds)
  PROVE  /\ WellFormed(d) /\ RulesOf(d) = RulesOf(c) /\ FakeIp(d) = FakeIp(c)
         /\ FakeIp(c) => ToSet(FilterOf(d)) = ToSet(FilterOf(c)) \union ToSet(ds)
         /\ (FakeIp(c) => ToSet(ds) \subseteq ToSet(FilterOf(c))) => d = c
<1>1. CASE ds = <<>>
  <2>1. d = c /\ ToSet(ds) = {}
    BY <1>1 DEF AppendFakeIPFilter, ToSet
  <2>2. QED
    BY <2>1
<1>2. CASE ~FakeIp(c)
  BY <1>2 DEF AppendFakeIPFilter
<1>3. CASE ds # <<>> /\ FakeIp(c)
  <2> DEFINE m == Get(c, "dns")[2]
             f == FilterOf(c)
             e == ExtendedBy(f, ds)
  <2>1. d = With(c, "dns", Map(With(m, "filter", List(e))))
    BY <1>3 DEF AppendFakeIPFilter
  <2>2. /\ IsMap(Get(c, "dns")) /\ Get(c, "dns") = Map(m) /\ IsMapping(m) /\ IsMapping(c)
        /\ FilterValue(Get(m, "filter"))
    BY <1>3 DEF FakeIp, WellFormed, DnsValue
  <2>3. f \in Seq(Domains)
    BY <2>2 DEF FilterOf, FilterValue, Elements
  <2>4. /\ e \in Seq(Domains) /\ ToSet(e) = ToSet(f) \union ToSet(ds)
        /\ ToSet(ds) \subseteq ToSet(f) => e = f
    BY <2>3, ExtensionAdds
  <2> HIDE DEF e
  <2>5. WellFormed(d) /\ RulesOf(d) = RulesOf(c) /\ FakeIp(d) /\ FilterOf(d) = e
    BY <1>3, <2>1, <2>4, SetFilter
  <2>6. ASSUME ToSet(ds) \subseteq ToSet(f) PROVE d = c
    <3>1. f # <<>>
      <4>1. ToSet(ds) # {}
        BY <1>3, ElementsOf
      <4>2. ToSet(<<>>) = {}
        BY DEF ToSet
      <4>3. QED
        BY <2>6, <4>1, <4>2
    <3>2. IsList(Get(m, "filter"))
      BY <3>1 DEF FilterOf, Elements
    <3>3. Get(m, "filter") = List(f)
      BY <2>2, <3>2 DEF FilterValue, FilterOf, Elements
    <3>4. "filter" \in DOMAIN m /\ m["filter"] = List(f)
      BY <3>2, <3>3, Shapes DEF Get
    <3>5. "dns" \in DOMAIN c /\ c["dns"] = Map(m)
      BY <2>2, Shapes DEF Get
    <3>6. With(m, "filter", List(e)) = m
      BY <2>2, <2>4, <2>6, <3>4, WithSame
    <3>7. QED
      BY <2>1, <2>2, <3>5, <3>6, WithSame
  <2>7. QED
    BY <1>3, <2>4, <2>5, <2>6
<1>4. QED
  BY <1>1, <1>2, <1>3

(* Both steps together, for a template and for the directive. *)
Laid(c, rs, ds) == AppendFakeIPFilter(PrependRules(c, rs), ds)

Overlay(c, rs, ds, d) ==
    /\ WellFormed(d) /\ FakeIp(d) = FakeIp(c)
    /\ FakeIp(c) => ToSet(FilterOf(d)) = ToSet(FilterOf(c)) \union ToSet(ds)
    /\ \E new \in Seq(DirectRules) :
         /\ RulesOf(d) = new \o RulesOf(c) /\ IsInjective(new)
         /\ ToSet(new) = ToSet(rs) \ ToSet(RulesOf(c))
    /\ /\ ToSet(rs) \subseteq ToSet(RulesOf(c))
       /\ FakeIp(c) => ToSet(ds) \subseteq ToSet(FilterOf(c))
       => d = c

LEMMA LaidOver ==
  ASSUME NEW c, WellFormed(c), NEW rs \in Seq(DirectRules), IsInjective(rs),
         NEW ds \in Seq(Domains)
  PROVE  Overlay(c, rs, ds, Laid(c, rs, ds))
<1> DEFINE d == Laid(c, rs, ds)
<1> DEFINE b == PrependRules(c, rs)
<1>1. /\ WellFormed(b) /\ FakeIp(b) = FakeIp(c) /\ FilterOf(b) = FilterOf(c)
      /\ \E new \in Seq(DirectRules) :
           /\ RulesOf(b) = new \o RulesOf(c) /\ IsInjective(new)
           /\ ToSet(new) = ToSet(rs) \ ToSet(RulesOf(c))
      /\ ToSet(rs) \subseteq ToSet(RulesOf(c)) => b = c
  BY PrependedRules
<1>2. d = AppendFakeIPFilter(b, ds)
  BY DEF Laid
<1> HIDE DEF b
<1>3. /\ WellFormed(d) /\ RulesOf(d) = RulesOf(b) /\ FakeIp(d) = FakeIp(b)
      /\ FakeIp(b) => ToSet(FilterOf(d)) = ToSet(FilterOf(b)) \union ToSet(ds)
      /\ (FakeIp(b) => ToSet(ds) \subseteq ToSet(FilterOf(b))) => d = b
  BY <1>1, <1>2, AppendedFilter
<1> HIDE DEF d
<1>4. Overlay(c, rs, ds, d)
  BY <1>1, <1>3 DEF Overlay
<1>5. QED
  BY <1>4 DEF d

(* The rules of a template and those that the directive stands for. *)
LEMMA TemplateData ==
  ASSUME NEW name \in DOMAIN Templates
  PROVE  /\ Templates[name].rules \in Seq(DirectRules) /\ IsInjective(Templates[name].rules)
         /\ Templates[name].exempt \in Seq(Domains)
         /\ \A c : ApplyTemplate(c, name) = Laid(c, Templates[name].rules, Templates[name].exempt)
BY OverlayAssumption DEF DirectRules, ApplyTemplate, Laid

LEMMA DirectiveData ==
  ASSUME NEW entries \in Seq(STRING), NEW ds, ds = ExpandDomains(entries)
  PROVE  /\ Direct(ds) \in Seq(DirectRules) /\ IsInjective(Direct(ds))
         /\ ds \in Seq(Domains)
         /\ \A c : ApplyGamePlatformDirect(c, entries) = Laid(c, Direct(ds), ds)
<1>1. ds \in Seq(Domains) /\ IsInjective(ds)
  BY ExpandedDomains
<1>2. \A i \in DOMAIN ds : Rule(ds[i], "DIRECT") \in DirectRules
  BY <1>1 DEF Rule, Rules, DirectRules
<1>3. Direct(ds) \in Seq(DirectRules)
  BY <1>1, <1>2 DEF Direct
<1>4. IsInjective(Direct(ds))
  BY <1>1 DEF Direct, IsInjective, Rule
<1>5. \A c : ApplyGamePlatformDirect(c, entries) = Laid(c, Direct(ds), ds)
  BY DEF ApplyGamePlatformDirect, Laid
<1>6. QED
  BY <1>1, <1>3, <1>4, <1>5


-----------------------------------------------------------------------------
(* Until the overrides are done nothing is laid over them; from then on the  *)
(* list of rules is what they gave, with direct rules that it did not have   *)
(* before it, each once, and holds all that templates and directive add.     *)
TemplateExempt == UNION {ToSet(Templates[applied[i]].exempt) : i \in DOMAIN applied}
Exempted == TemplateExempt \union ToSet(ExpandDomains(directive))

Untouched == given = <<>> /\ applied = <<>> /\ directive = <<>>

Extended ==
    /\ \E pre \in Seq(DirectRules) :
          /\ RulesOf(cfg) = pre \o RulesOf(given)
          /\ IsInjective(pre) /\ ToSet(pre) \cap ToSet(RulesOf(given)) = {}
    /\ OverlayRules \subseteq ToSet(RulesOf(cfg))
    /\ FakeIp(cfg) => Exempted \subseteq ToSet(FilterOf(cfg))

DataOK ==
    /\ stage \in Stages /\ used \in 0..MaxItems
    /\ WellFormed(cfg) /\ RulesOf(given) \in Seq(Rules)
    /\ applied \in Seq(DOMAIN Templates) /\ directive \in Seq(STRING)
    /\ stage = "built" => IsList(Get(cfg, "rules"))

IInv ==
    /\ DataOK
    /\ stage \in {"merge", "files", "patches"} => Untouched
    /\ stage \in {"templates", "policy"} => directive = <<>>
    /\ stage \in {"templates", "policy", "validate", "built"} => Extended
    /\ stage = "failed" => Untouched \/ Extended

LEMMA Empty ==
  /\ RulesOf(<<>>) = <<>> /\ ToSet(<<>>) = {} /\ IsInjective(<<>>)
  /\ Direct(<<>>) = <<>>
<1>1. RulesOf(<<>>) = <<>>
  BY Shapes DEF RulesOf, Get, Elements
<1>2. QED
  BY <1>1 DEF ToSet, IsInjective, Direct

(* No template and no directive: nothing that is to be there. *)
LEMMA NothingAsked ==
  ASSUME applied = <<>>, directive = <<>>
  PROVE  OverlayRules = {} /\ Exempted = {}
<1>1. DOMAIN applied = {} /\ ExpandDomains(directive) = <<>>
  BY NoEntries
<1>2. ToSet(Direct(ExpandDomains(directive))) = {} /\ ToSet(ExpandDomains(directive)) = {}
  BY <1>1, Empty
<1>3. QED
  BY <1>1, <1>2 DEF OverlayRules, TemplateRules, TemplateExempt, Exempted

LEMMA ConcatRegroups ==
  \A a, b, c \in Seq(Rules) : a \o (b \o c) = (a \o b) \o c
BY ConcatAssociative

(* One more item is laid over the configuration. *)
LEMMA ExtendedFurther ==
  ASSUME Extended, WellFormed(cfg), RulesOf(given) \in Seq(Rules),
         NEW rs \in Seq(DirectRules), IsInjective(rs), NEW ds \in Seq(Domains),
         cfg' = Laid(cfg, rs, ds), UNCHANGED given,
         OverlayRules' = OverlayRules \union ToSet(rs),
         Exempted' = Exempted \union ToSet(ds)
  PROVE  Extended' /\ WellFormed(cfg)'
<1>0. Overlay(cfg, rs, ds, cfg')
  BY LaidOver
<1>1. /\ WellFormed(cfg') /\ FakeIp(cfg') = FakeIp(cfg)
      /\ FakeIp(cfg) => ToSet(FilterOf(cfg')) = ToSet(FilterOf(cfg)) \union ToSet(ds)
  BY <1>0 DEF Overlay
<1>2. PICK new \in Seq(DirectRules) :
        /\ RulesOf(cfg') = new \o RulesOf(cfg) /\ IsInjective(new)
        /\ ToSet(new) = ToSet(rs) \ ToSet(RulesOf(cfg))
  BY <1>0 DEF Overlay
<1>3. PICK pre \in Seq(DirectRules) :
        /\ RulesOf(cfg) = pre \o RulesOf(given)
        /\ IsInjective(pre) /\ ToSet(pre) \cap ToSet(RulesOf(given)) = {}
  BY DEF Extended
<1>4. new \in Seq(Rules) /\ pre \in Seq(Rules) /\ RulesOf(cfg) \in Seq(Rules)
  BY RulesAreRules DEF DirectRules, WellFormed
<1>5. ToSet(RulesOf(cfg)) = ToSet(pre) \union ToSet(RulesOf(given))
  BY <1>3, <1>4, ElementsOfConcat
<1>6. ToSet(new) \cap ToSet(pre) = {} /\ ToSet(new) \cap ToSet(RulesOf(given)) = {}
  BY <1>2, <1>5
<1>7. /\ new \o pre \in Seq(DirectRules) /\ IsInjective(new \o pre)
      /\ ToSet(new \o pre) = ToSet(new) \union ToSet(pre)
  BY <1>2, <1>3, <1>6, ElementsOfConcat
<1>8. RulesOf(cfg') = (new \o pre) \o RulesOf(given)
  <2>1. new \o (pre \o RulesOf(given)) = (new \o pre) \o RulesOf(given)
    BY <1>4, ConcatRegroups, Zenon
  <2>2. RulesOf(cfg') = new \o (pre \o RulesOf(given))
    BY <1>2, <1>3, Zenon
  <2>3. QED
    BY <2>1, <2>2, Zenon
<1>9. ToSet(RulesOf(cfg')) = ToSet(new) \union ToSet(RulesOf(cfg))
  BY <1>2, <1>4, ElementsOfConcat
<1>10. OverlayRules' \subseteq ToSet(RulesOf(cfg'))
  BY <1>2, <1>9 DEF Extended
<1>11. FakeIp(cfg') => Exempted' \subseteq ToSet(FilterOf(cfg'))
  BY <1>1 DEF Extended
<1>12. QED
  BY <1>1, <1>3, <1>6, <1>7, <1>8, <1>10, <1>11 DEF Extended

LEMMA InitIInv == Init => IInv
<1> SUFFICES ASSUME Init PROVE IInv
  OBVIOUS
<1>1. WellFormed(cfg)
  BY OverlayAssumption DEF Init
<1>2. RulesOf(given) \in Seq(Rules)
  <2>1. RulesOf(given) = <<>>
    BY Empty, Zenon DEF Init
  <2>2. QED
    BY <2>1
<1>3. QED
  BY <1>1, <1>2, OverlayAssumption DEF Init, IInv, DataOK, Stages, Untouched

(* The steps before the overlay hand on a well-formed configuration. *)
LEMMA EarlyStep ==
  ASSUME IInv, (\E src \in Sources : MergeSource(src)) \/ OverrideFile \/ OverridePatch
  PROVE  IInv'
<1>1. stage \in {"merge", "files", "patches"} /\ stage' \in {stage, "failed"}
  BY DEF MergeSource, OverrideFile, OverridePatch, Item, Fail, Go
<1>2. UNCHANGED <<given, applied, directive>> /\ used < MaxItems /\ used' = used + 1
  BY DEF MergeSource, OverrideFile, OverridePatch, Item, Fail, Go
<1>3. WellFormed(cfg')
  <2>1. CASE \E src \in Sources : MergeSource(src)
    BY <2>1, SourceMerges, OverlayAssumption DEF MergeSource, Fail, Go, IInv, DataOK
  <2>2. CASE OverrideFile
    BY <2>2, DeepMerges, OverlayAssumption DEF OverrideFile, Fail, Go, IInv, DataOK
  <2>3. CASE OverridePatch
    BY <2>3, DeepMerges, Patches, OverlayAssumption DEF OverridePatch, Fail, Go, IInv, DataOK
  <2>4. QED
    BY <2>1, <2>2, <2>3
<1>4. DataOK'
  BY <1>1, <1>2, <1>3, OverlayAssumption DEF IInv, DataOK, Stages
<1>5. Untouched'
  BY <1>1, <1>2 DEF IInv, Untouched
<1>6. QED
  BY <1>1, <1>4, <1>5 DEF IInv, Stages

LEMMA TemplateStep ==
  ASSUME IInv, SelectTemplate
  PROVE  IInv'
<1>1. /\ stage = "templates" /\ used < MaxItems /\ used' = used + 1
      /\ UNCHANGED <<given, directive>> /\ Extended /\ directive = <<>> /\ DataOK
  BY DEF SelectTemplate, Item, IInv
<1>2. CASE Go(cfg) \/ Fail
  <2>1. UNCHANGED <<cfg, given, applied, directive>> /\ stage' \in {"templates", "failed"}
    BY <1>1, <1>2 DEF Go, Fail
  <2>2. Extended'
    BY <1>1, <2>1 DEF Extended, OverlayRules, TemplateRules, TemplateExempt, Exempted
  <2>3. DataOK'
    BY <1>1, <2>1, OverlayAssumption DEF DataOK, Stages
  <2>4. QED
    BY <1>1, <2>1, <2>2, <2>3 DEF IInv
<1>3. ASSUME NEW name \in DOMAIN Templates, cfg' = ApplyTemplate(cfg, name),
             applied' = Append(applied, name), stage' = stage
      PROVE  IInv'
  <2> DEFINE rs == Templates[name].rules
             ds == Templates[name].exempt
  <2>1. /\ rs \in Seq(DirectRules) /\ IsInjective(rs) /\ ds \in Seq(Domains)
        /\ cfg' = Laid(cfg, rs, ds)
    BY <1>3, TemplateData
  <2>2. /\ applied \in Seq(DOMAIN Templates) /\ applied' \in Seq(DOMAIN Templates)
        /\ DOMAIN applied' = DOMAIN applied \union {Len(applied) + 1}
        /\ applied'[Len(applied) + 1] = name
        /\ \A i \in DOMAIN applied : applied'[i] = applied[i]
    BY <1>1, <1>3 DEF DataOK
  <2>3. TemplateRules' = TemplateRules \union ToSet(rs)
    BY <2>2 DEF TemplateRules
  <2>4. OverlayRules' = OverlayRules \union ToSet(rs)
    BY <1>1, <2>3 DEF OverlayRules
  <2>5. Exempted' = Exempted \union ToSet(ds)
    BY <1>1, <2>2 DEF Exempted, TemplateExempt
  <2> HIDE DEF rs, ds
  <2>6. Extended' /\ WellFormed(cfg)'
    BY <1>1, <2>1, <2>4, <2>5, ExtendedFurther DEF DataOK
  <2>7. DataOK'
    BY <1>1, <1>3, <2>2, <2>6, OverlayAssumption DEF DataOK, Stages
  <2>8. QED
    BY <1>1, <1>3, <2>6, <2>7 DEF IInv
<1>4. QED
  BY <1>2, <1>3 DEF SelectTemplate

LEMMA EndStep ==
  ASSUME IInv, EndOfList
  PROVE  IInv'
<1>1. /\ DataOK /\ used' = 0 /\ UNCHANGED <<cfg, applied, directive>>
      /\ given' = IF stage = "patches" THEN cfg ELSE given
  BY DEF EndOfList, IInv
<1>2. DataOK'
  BY <1>1, RulesAreRules, OverlayAssumption DEF EndOfList, DataOK, Stages, WellFormed
<1>3. CASE stage \in {"merge", "files"}
  BY <1>1, <1>2, <1>3 DEF EndOfList, IInv, Untouched
<1>4. CASE stage = "patches"
  <2>1. stage' = "templates" /\ given' = cfg /\ applied = <<>> /\ directive = <<>>
    BY <1>1, <1>4 DEF EndOfList, IInv, Untouched
  <2>2. OverlayRules' = {} /\ Exempted' = {}
    <3>1. OverlayRules = {} /\ Exempted = {}
      BY <2>1, NothingAsked
    <3>2. QED
      BY <1>1, <3>1 DEF OverlayRules, TemplateRules, TemplateExempt, Exempted
  <2>3. RulesOf(cfg) \in Seq(Rules)
    BY <1>1, RulesAreRules DEF DataOK, WellFormed
  <2>4. <<>> \in Seq(DirectRules) /\ RulesOf(cfg') = <<>> \o RulesOf(given')
    BY <1>1, <2>1, <2>3
  <2>5. IsInjective(<<>>) /\ ToSet(<<>>) \cap ToSet(RulesOf(given')) = {}
    BY Empty
  <2>6. Extended'
    BY <2>2, <2>4, <2>5 DEF Extended
  <2>7. QED
    BY <1>1, <1>2, <2>1, <2>6 DEF IInv
<1>5. CASE stage = "templates"
  <2>1. stage' = "policy" /\ UNCHANGED given /\ Extended /\ directive = <<>>
    BY <1>1, <1>5 DEF EndOfList, IInv
  <2>2. Extended'
    BY <1>1, <2>1 DEF Extended, OverlayRules, TemplateRules, TemplateExempt, Exempted
  <2>3. QED
    BY <1>1, <1>2, <2>1, <2>2 DEF IInv
<1>6. QED
  BY <1>3, <1>4, <1>5 DEF EndOfList

LEMMA PolicyStep ==
  ASSUME IInv, ApplyPolicy
  PROVE  IInv'
<1>1. /\ DataOK /\ Extended /\ directive = <<>> /\ stage' = "validate"
      /\ UNCHANGED <<used, given, applied>>
  BY DEF ApplyPolicy, IInv
<1>2. PICK entries \in Directives : directive' = entries /\ cfg' = ApplyGamePlatformDirect(cfg, entries)
  BY DEF ApplyPolicy
<1>3. entries \in Seq(STRING)
  BY OverlayAssumption
<1> DEFINE ds == ExpandDomains(entries)
<1>4. /\ Direct(ds) \in Seq(DirectRules) /\ IsInjective(Direct(ds)) /\ ds \in Seq(Domains)
      /\ cfg' = Laid(cfg, Direct(ds), ds)
  BY <1>2, <1>3, DirectiveData
<1>5. ToSet(Direct(ExpandDomains(directive))) = {} /\ ToSet(ExpandDomains(directive)) = {}
  BY <1>1, NoEntries, Empty
<1>6. OverlayRules' = OverlayRules \union ToSet(Direct(ds))
  BY <1>1, <1>2, <1>5 DEF OverlayRules, TemplateRules
<1>7. Exempted' = Exempted \union ToSet(ds)
  BY <1>1, <1>2, <1>5 DEF Exempted, TemplateExempt
<1> HIDE DEF ds
<1>8. Extended' /\ WellFormed(cfg)'
  BY <1>1, <1>4, <1>6, <1>7, ExtendedFurther DEF DataOK
<1>9. DataOK'
  BY <1>1, <1>2, <1>3, <1>8 DEF DataOK, Stages
<1>10. QED
  BY <1>1, <1>8, <1>9 DEF IInv

LEMMA ValidateStep ==
  ASSUME IInv, Validate
  PROVE  IInv'
<1>1. /\ DataOK /\ Extended /\ UNCHANGED <<used, cfg, given, applied, directive>>
      /\ stage' \in {"built", "failed"}
      /\ stage' = "built" => IsList(Get(cfg, "rules"))
  BY DEF Validate, IInv
<1>2. Extended'
  BY <1>1 DEF Extended, OverlayRules, TemplateRules, TemplateExempt, Exempted
<1>3. DataOK'
  BY <1>1 DEF DataOK, Stages
<1>4. QED
  BY <1>1, <1>2, <1>3 DEF IInv

LEMMA StepIInv == IInv /\ [Next]_vars => IInv'
<1> SUFFICES ASSUME IInv, [Next]_vars PROVE IInv'
  OBVIOUS
<1>1. CASE UNCHANGED vars
  BY <1>1 DEF vars, IInv, DataOK, Untouched, Extended, OverlayRules, TemplateRules, TemplateExempt, Exempted
<1>2. QED
  BY <1>1, EarlyStep, TemplateStep, EndStep, PolicyStep, ValidateStep DEF Next

LEMMA Invariance == Spec => []IInv
BY InitIInv, StepIInv, PTL DEF Spec


-----------------------------------------------------------------------------
(* What is added in front does not count for a rule that is not added.       *)
LEMMA OccurrencesBehind ==
  ASSUME NEW E, NEW s \in Seq(E), NEW t \in Seq(E), NEW r, r \notin ToSet(s)
  PROVE  Occurrences(s \o t, r) = Occurrences(t, r) /\ Occurrences(t, r) \in Nat
<1> DEFINE A == {i \in DOMAIN t : t[i] = r}
           B == {i \in DOMAIN (s \o t) : (s \o t)[i] = r}
           f == [i \in A |-> Len(s) + i]
<1>1. /\ Len(s) \in Nat /\ Len(t) \in Nat /\ DOMAIN t = 1..Len(t) /\ DOMAIN s = 1..Len(s)
      /\ DOMAIN (s \o t) = 1..(Len(s) + Len(t))
      /\ \A i \in 1..Len(s) : (s \o t)[i] = s[i]
      /\ \A i \in 1..Len(t) : (s \o t)[Len(s) + i] = t[i]
  OBVIOUS
<1>2. \A i \in 1..Len(s) : s[i] # r
  BY <1>1 DEF ToSet
<1>3. \A i \in A : f[i] \in B
  BY <1>1
<1>4. \A i, j \in A : f[i] = f[j] => i = j
  BY <1>1
<1>5. ASSUME NEW k \in B PROVE \E i \in A : f[i] = k
  <2>1. k \in 1..(Len(s) + Len(t)) /\ k \notin 1..Len(s)
    BY <1>1, <1>2
  <2>2. k - Len(s) \in 1..Len(t) /\ k = Len(s) + (k - Len(s))
    BY <1>1, <2>1
  <2>3. k - Len(s) \in A
    BY <1>1, <2>2
  <2>4. QED
    BY <2>2, <2>3
<1>6. IsFiniteSet(A)
  <2>1. IsFiniteSet(1..Len(t)) /\ A \subseteq 1..Len(t)
    BY <1>1, FS_Interval
  <2> HIDE DEF A
  <2>2. QED
    BY <2>1, FS_Subset
<1>7. f \in Bijection(A, B)
  <2> HIDE DEF A, B
  <2>1. f \in [A -> B]
    BY <1>3
  <2> HIDE DEF f
  <2>2. QED
    BY <1>4, <1>5, <2>1 DEF Bijection, Injection, Surjection, IsInjective
<1>8. Cardinality(A) = Cardinality(B) /\ Cardinality(A) \in Nat
  <2> HIDE DEF A, B, f
  <2>1. QED
    BY <1>6, <1>7, FS_Bijection, FS_CardinalityType DEF ExistsBijection
<1>9. QED
  BY <1>8 DEF Occurrences

(* A rule that is added and was not there occurs once. *)
LEMMA OccurrencesInFront ==
  ASSUME NEW E, NEW s \in Seq(E), NEW t \in Seq(E), IsInjective(s),
         NEW r \in ToSet(s), r \notin ToSet(t)
  PROVE  Occurrences(s \o t, r) = 1 /\ Occurrences(t, r) = 0
<1>1. /\ Len(s) \in Nat /\ Len(t) \in Nat /\ DOMAIN t = 1..Len(t) /\ DOMAIN s = 1..Len(s)
      /\ DOMAIN (s \o t) = 1..(Len(s) + Len(t))
      /\ \A i \in 1..Len(s) : (s \o t)[i] = s[i]
      /\ \A i \in 1..Len(t) : (s \o t)[Len(s) + i] = t[i]
  OBVIOUS
<1>2. \A i \in 1..Len(t) : t[i] # r
  BY <1>1 DEF ToSet
<1>3. PICK i \in 1..Len(s) : s[i] = r
  BY <1>1 DEF ToSet
<1>4. ASSUME NEW k \in 1..(Len(s) + Len(t)), (s \o t)[k] = r PROVE k = i
  <2>1. CASE k \in 1..Len(s)
    BY <1>1, <1>3, <1>4, <2>1 DEF IsInjective
  <2>2. CASE k \notin 1..Len(s)
    <3>1. k - Len(s) \in 1..Len(t) /\ k = Len(s) + (k - Len(s))
      BY <1>1, <2>2
    <3>2. (s \o t)[k] = t[k - Len(s)]
      BY <1>1, <3>1
    <3>3. QED
      BY <1>2, <1>4, <3>1, <3>2
  <2>3. QED
    BY <2>1, <2>2
<1>5. {k \in DOMAIN (s \o t) : (s \o t)[k] = r} = {i}
  BY <1>1, <1>3, <1>4
<1>6. {k \in DOMAIN t : t[k] = r} = {}
  BY <1>1, <1>2
<1>7. QED
  BY <1>5, <1>6, FS_EmptySet, FS_Singleton DEF Occurrences

(* In front of a direct rule for d there are none but direct rules. *)
LEMMA DirectFirst ==
  ASSUME NEW s \in Seq(DirectRules), NEW t \in Seq(Rules), NEW d,
         Rule(d, "DIRECT") \in ToSet(s)
  PROVE  Decision(s \o t, d) = "DIRECT"
<1> DEFINE u == s \o t
           Hits == {i \in 1..Len(u) : u[i].on \in {d, AnyDomain}}
<1>1. /\ Len(s) \in Nat /\ Len(t) \in Nat /\ Len(u) = Len(s) + Len(t) /\ DOMAIN s = 1..Len(s)
      /\ \A i \in 1..Len(s) : u[i] = s[i] /\ s[i] \in DirectRules
  OBVIOUS
<1>2. PICK k \in 1..Len(s) : s[k] = Rule(d, "DIRECT")
  BY <1>1 DEF ToSet
<1> HIDE DEF u
<1>3. k \in Hits
  BY <1>1, <1>2 DEF Rule
<1>4. Min(Hits) \in Hits /\ Min(Hits) <= k
  <2>1. Hits \in SUBSET Nat /\ Hits # {}
    BY <1>1, <1>3
  <2> HIDE DEF Hits
  <2>2. QED
    BY <1>3, <2>1, MinProperties
<1>5. Min(Hits) \in 1..Len(s) /\ Min(Hits) # 0
  BY <1>1, <1>2, <1>4
<1>6. u[Min(Hits)].to = "DIRECT"
  <2> HIDE DEF Hits
  <2>1. QED
    BY <1>1, <1>5 DEF DirectRules
<1>7. SelectInSeq(u, LAMBDA r : r.on \in {d, AnyDomain}) = Min(Hits)
  BY <1>3, Zenon DEF SelectInSeq
<1> HIDE DEF Hits
<1>8. QED
  BY <1>5, <1>6, <1>7, Zenon DEF Decision, u

(* The parts of Extended that the theorems use, split up once. *)
LEMMA AddedRules ==
  ASSUME DataOK, Extended
  PROVE  \E pre \in Seq(DirectRules) :
            /\ pre \in Seq(Rules) /\ IsInjective(pre)
            /\ RulesOf(cfg) = pre \o RulesOf(given)
            /\ ToSet(pre) \cap ToSet(RulesOf(given)) = {}
            /\ OverlayRules \subseteq ToSet(pre) \union ToSet(RulesOf(given))
<1>1. PICK pre \in Seq(DirectRules) :
        /\ RulesOf(cfg) = pre \o RulesOf(given)
        /\ IsInjective(pre) /\ ToSet(pre) \cap ToSet(RulesOf(given)) = {}
  BY DEF Extended
<1>2. pre \in Seq(Rules) /\ RulesOf(given) \in Seq(Rules)
  BY DEF DirectRules, DataOK
<1>3. ToSet(RulesOf(cfg)) = ToSet(pre) \union ToSet(RulesOf(given))
  BY <1>1, <1>2, ElementsOfConcat
<1>4. QED
  BY <1>1, <1>2, <1>3 DEF Extended

-----------------------------------------------------------------------------
(* Whatever sources, overrides, templates and directives there are: a        *)
(* configuration that is built has a list of rules, and only rules in it.    *)
THEOREM Typing == Spec => []TypeOK
<1>1. IInv => TypeOK
  BY RulesAreRules, ElementsOf DEF IInv, DataOK, TypeOK, WellFormed
<1>2. QED
  BY <1>1, Invariance, PTL

(* No rule of a template or of the directive is added to a list that has it, *)
(* however often and in which order they are selected (prependRules).        *)
THEOREM AddedOnce == Spec => []NeverTwice
<1>1. IInv => NeverTwice
  <2> SUFFICES ASSUME IInv, NEW r \in OverlayRules
               PROVE  Occurrences(RulesOf(cfg), r) <=
                        IF Occurrences(RulesOf(given), r) = 0 THEN 1
                        ELSE Occurrences(RulesOf(given), r)
    BY Zenon DEF NeverTwice
  <2>1. CASE Untouched
    BY <2>1, NothingAsked DEF Untouched
  <2>2. CASE Extended
    <3>1. PICK pre \in Seq(DirectRules) :
            /\ pre \in Seq(Rules) /\ IsInjective(pre)
            /\ RulesOf(cfg) = pre \o RulesOf(given)
            /\ ToSet(pre) \cap ToSet(RulesOf(given)) = {}
            /\ OverlayRules \subseteq ToSet(pre) \union ToSet(RulesOf(given))
      BY <2>2, AddedRules DEF IInv
    <3>2. RulesOf(given) \in Seq(Rules)
      BY DEF IInv, DataOK
    <3>3. CASE r \in ToSet(pre)
      <4>1. r \notin ToSet(RulesOf(given))
        BY <3>1, <3>3
      <4>2. Occurrences(RulesOf(cfg), r) = 1 /\ Occurrences(RulesOf(given), r) = 0
        BY <3>1, <3>2, <3>3, <4>1, OccurrencesInFront
      <4>3. QED
        BY <4>2
    <3>4. CASE r \notin ToSet(pre)
      <4>1. /\ Occurrences(RulesOf(cfg), r) = Occurrences(RulesOf(given), r)
            /\ Occurrences(RulesOf(given), r) \in Nat
        BY <3>1, <3>2, <3>4, OccurrencesBehind
      <4>2. QED
        BY <4>1
    <3>5. QED
      BY <3>3, <3>4
  <2>3. QED
    BY <2>1, <2>2 DEF IInv, DataOK, Stages
<1>2. QED
  BY <1>1, Invariance, PTL

(* In fake-ip mode the domain of every direct rule of the directive, and of  *)
(* every template that exempts domains at all, is exempt (appendFakeIPFilter *)
(* of both packages).                                                        *)
THEOREM Exemption == Spec => []FakeIpExempt
<1>1. IInv => FakeIpExempt
  <2> SUFFICES ASSUME IInv, stage = "built", FakeIp(cfg), NEW r \in ExemptingRules
               PROVE  r.on \in Exempted
    BY DEF IInv, Extended, FakeIpExempt
  <2>1. CASE r \in ToSet(Direct(ExpandDomains(directive)))
    BY <2>1 DEF ToSet, Direct, Rule, Exempted
  <2>2. ASSUME NEW name \in ToSet(applied), Templates[name].exempt # <<>>,
               r \in ToSet(Templates[name].rules)
        PROVE  r.on \in Exempted
    <3>1. name \in DOMAIN Templates
      BY ElementsOf DEF IInv, DataOK
    <3>2. r.on \in ToSet(Templates[name].exempt)
      BY <2>2, <3>1, OverlayAssumption
    <3>3. QED
      BY <3>2 DEF Exempted, TemplateExempt, ToSet
  <2>3. \/ r \in ToSet(Direct(ExpandDomains(directive)))
        \/ \E name \in ExemptingTemplates : r \in ToSet(Templates[name].rules)
    BY DEF ExemptingRules
  <2>4. QED
    BY <2>1, <2>2, <2>3 DEF ExemptingTemplates
<1>2. QED
  BY <1>1, Invariance, PTL

(* The rules that templates and directive add decide, whatever rules the     *)
(* sources and the overrides put first (prependRules).                       *)
THEOREM Decides == Spec => []DirectDecides
<1>1. IInv => DirectDecides
  <2> SUFFICES ASSUME IInv, stage = "built", NEW d \in Domains,
                      Rule(d, "DIRECT") \in OverlayRules \ ToSet(RulesOf(given))
               PROVE  Decision(RulesOf(cfg), d) = "DIRECT"
    BY DEF DirectDecides
  <2>1. PICK pre \in Seq(DirectRules) :
          /\ pre \in Seq(Rules) /\ IsInjective(pre)
          /\ RulesOf(cfg) = pre \o RulesOf(given)
          /\ ToSet(pre) \cap ToSet(RulesOf(given)) = {}
          /\ OverlayRules \subseteq ToSet(pre) \union ToSet(RulesOf(given))
    BY AddedRules DEF IInv
  <2>2. Rule(d, "DIRECT") \in ToSet(pre) /\ RulesOf(given) \in Seq(Rules)
    BY <2>1 DEF IInv, DataOK
  <2>3. QED
    BY <2>1, <2>2, DirectFirst
<1>2. QED
  BY <1>1, Invariance, PTL

(* Built again with the same templates and directive, a configuration stays  *)
(* as it is: the value of two folds over what the profile selects.           *)
THEOREM Idempotence == Spec => []FixedPoint
<1>1. IInv => FixedPoint
  <2> SUFFICES ASSUME IInv, stage = "built"
               PROVE  ApplyGamePlatformDirect(ApplyTemplates(cfg, applied), directive) = cfg
    BY DEF FixedPoint
  <2>1. DataOK /\ Extended
    BY DEF IInv
  <2>2. /\ WellFormed(cfg) /\ applied \in Seq(DOMAIN Templates) /\ directive \in Seq(STRING)
        /\ OverlayRules \subseteq ToSet(RulesOf(cfg))
        /\ FakeIp(cfg) => Exempted \subseteq ToSet(FilterOf(cfg))
    BY <2>1 DEF DataOK, Extended
  <2>3. ASSUME NEW name \in ToSet(applied) PROVE ApplyTemplate(cfg, name) = cfg
    <3> DEFINE rs == Templates[name].rules
               ds == Templates[name].exempt
    <3>1. name \in DOMAIN Templates
      BY <2>2, ElementsOf
    <3>2. /\ rs \in Seq(DirectRules) /\ IsInjective(rs) /\ ds \in Seq(Domains)
          /\ ApplyTemplate(cfg, name) = Laid(cfg, rs, ds)
      BY <3>1, TemplateData
    <3>3. ToSet(rs) \subseteq OverlayRules /\ ToSet(ds) \subseteq Exempted
      BY DEF OverlayRules, TemplateRules, Exempted, TemplateExempt, ToSet
    <3> HIDE DEF rs, ds
    <3>4. Overlay(cfg, rs, ds, Laid(cfg, rs, ds))
      BY <2>2, <3>2, LaidOver
    <3>5. QED
      BY <2>2, <3>2, <3>3, <3>4 DEF Overlay
  <2>4. ApplyTemplates(cfg, applied) = cfg
    <3>1. applied \in Seq(ToSet(applied))
      BY <2>2, InItsElements
    <3>2. QED
      BY <2>3, <3>1, NothingToApply
  <2>5. ApplyGamePlatformDirect(cfg, directive) = cfg
    <3> DEFINE ds == ExpandDomains(directive)
    <3>1. /\ Direct(ds) \in Seq(DirectRules) /\ IsInjective(Direct(ds)) /\ ds \in Seq(Domains)
          /\ ApplyGamePlatformDirect(cfg, directive) = Laid(cfg, Direct(ds), ds)
      BY <2>2, DirectiveData
    <3>2. ToSet(Direct(ds)) \subseteq OverlayRules /\ ToSet(ds) \subseteq Exempted
      BY DEF OverlayRules, Exempted
    <3> HIDE DEF ds
    <3>3. Overlay(cfg, Direct(ds), ds, Laid(cfg, Direct(ds), ds))
      BY <2>2, <3>1, LaidOver
    <3>4. QED
      BY <2>2, <3>1, <3>2, <3>3 DEF Overlay
  <2>6. QED
    BY <2>4, <2>5
<1>2. QED
  BY <1>1, Invariance, PTL
=============================================================================
