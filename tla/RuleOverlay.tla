----------------------------- MODULE RuleOverlay -----------------------------
(***************************************************************************)
(* What decides where a connection goes: the rules of a configuration and  *)
(* the fake-ip filter of its DNS section, from the merged sources through  *)
(* the override files and patches (override.ApplyAll), the rule templates  *)
(* (ruletemplate.Apply) and policy.gamePlatformDirect                      *)
(* (render.ApplyGamePlatformDirect) to validate.Config, in the order of    *)
(* build.Run.                                                              *)
(*                                                                         *)
(* A configuration is a function from its keys, of which "rules" and "dns" *)
(* are kept; a value is null, a scalar, a list or a mapping.  A rule sends *)
(* one domain, or any, to a target; how names are spelled (case, spaces)   *)
(* is left out.  Each step takes the next item of a list of the profile,   *)
(* so that every profile is a behaviour.                                   *)
(***************************************************************************)
EXTENDS Naturals, Sequences, FiniteSets, SequencesExt

CONSTANTS
    Domains,     \* what connections go to
    Bases,       \* template configurations
    Sources,     \* subscription configurations
    MergeMaps,   \* mappings that override files and yaml-merge patches hold
    Strategies,  \* strategy patches: where to put which rule
    JsonPatches, \* json-patch operations on /rules/<at>
    Templates,   \* the built-in rule templates: their rules, and domains to exempt
    Platforms,   \* the built-in game platforms and their domains
    Directives,  \* values of policy.gamePlatformDirect
    MaxItems     \* bound on the length of each list of the profile

VARIABLES
    stage,    \* the stage of build.Run
    used,     \* items of the current list that are done
    cfg,      \* the configuration being built
    given,    \* history: cfg as the overrides left it
    applied,  \* history: the rule templates selected so far
    directive \* history: policy.gamePlatformDirect

vars == <<stage, used, cfg, given, applied, directive>>

Null == <<"null">>
Scalar(x) == <<"scalar", x>>
List(s) == <<"list", s>>
Map(m) == <<"map", m>>
IsList(v) == v[1] = "list"
IsMap(v) == v[1] = "map"

AnyDomain == "any"
Rule(d, target) == [on |-> d, to |-> target]
Rules == [on : Domains \union {AnyDomain}, to : {"DIRECT", "PROXY"}]
Direct(ds) == [i \in DOMAIN ds |-> Rule(ds[i], "DIRECT")]

(* cfg[k], nil if there is no such key, and anySlice of it. *)
Get(m, k) == IF k \in DOMAIN m THEN m[k] ELSE Null
Elements(v) == IF IsList(v) THEN v[2] ELSE <<>>

(* The keys that m leaves out are taken from n. *)
Filled(m, n) ==
    [k \in DOMAIN m \union DOMAIN n |-> IF k \in DOMAIN m THEN m[k] ELSE n[k]]
With(m, k, v) == Filled([x \in {k} |-> v], m)

RulesOf(c) == Elements(Get(c, "rules"))
FakeIp(c) == IsMap(Get(c, "dns")) /\ Get(Get(c, "dns")[2], "mode") = Scalar("fake-ip")
FilterOf(c) == Elements(Get(Get(c, "dns")[2], "filter"))

AppendNew(s, e) == IF Contains(s, e) THEN s ELSE Append(s, e)
ExtendedBy(s, es) == FoldLeft(AppendNew, s, es)

(* The values that a mapping may hold: lists of rules and of filtered        *)
(* domains, and a DNS section that is a mapping of its own.                  *)
IsMapping(m) == m = [k \in DOMAIN m |-> m[k]]
RulesValue(v) == IsList(v) => v[2] \in Seq(Rules)
FilterValue(v) == IsList(v) => v = List(v[2]) /\ v[2] \in Seq(Domains)
DnsValue(v) ==
    IsMap(v) => v = Map(v[2]) /\ IsMapping(v[2]) /\ FilterValue(Get(v[2], "filter"))
WellFormed(c) ==
    IsMapping(c) /\ RulesValue(Get(c, "rules")) /\ DnsValue(Get(c, "dns"))

(* The built-in templates make domains direct and list each rule once.  One  *)
(* that exempts any domain (steam-direct-enhanced) exempts those of all its  *)
(* rules; cn-direct exempts none.                                            *)
ASSUME OverlayAssumption ==
    /\ MaxItems \in Nat
    /\ \A c \in Bases \union Sources \union MergeMaps : WellFormed(c)
    /\ \A s \in Strategies : s.action \in {"append", "prepend"} /\ s.value \in Rules
    /\ \A j \in JsonPatches : j.op \in {"replace", "remove"} /\ j.value \in Rules
    /\ \A name \in DOMAIN Templates :
          /\ Templates[name].rules \in Seq({r \in Rules : r.to = "DIRECT"})
          /\ IsInjective(Templates[name].rules)
          /\ Templates[name].exempt \in Seq(Domains)
          /\ Templates[name].exempt # <<>> =>
                \A r \in ToSet(Templates[name].rules) : r.on \in ToSet(Templates[name].exempt)
    /\ \A p \in DOMAIN Platforms : Platforms[p] \in Seq(Domains)
    /\ Directives \subseteq Seq(STRING)

-----------------------------------------------------------------------------
(* SubscriptionInto: rules are appended, of the DNS section the keys that    *)
(* are there stay.                                                           *)
Mergeable(c, src) ==
    "rules" \in DOMAIN src =>
        \A v \in {Get(c, "rules"), src["rules"]} : v = Null \/ IsList(v)

SubscriptionInto(c, src) ==
    [k \in DOMAIN c \union DOMAIN src |->
       IF k \notin DOMAIN src THEN c[k]
       ELSE IF k = "rules" THEN List(RulesOf(c) \o RulesOf(src))
       ELSE IF k \notin DOMAIN c THEN src[k]
       ELSE IF IsMap(c[k]) /\ IsMap(src[k]) THEN Map(Filled(c[k][2], src[k][2]))
       ELSE c[k]]

(* deepMerge: a null removes the key, mappings are merged key by key, and    *)
(* anything else is replaced.  Mappings are two levels deep.                 *)
MergedWith(dst, patch, Inner(_, _)) ==
    [k \in (DOMAIN dst \union DOMAIN patch) \ {p \in DOMAIN patch : patch[p] = Null} |->
       IF k \notin DOMAIN patch THEN dst[k]
       ELSE IF IsMap(Get(dst, k)) /\ IsMap(patch[k])
            THEN Map(Inner(dst[k][2], patch[k][2]))
            ELSE patch[k]]
Replace(old, new) == new
DeepMerge(dst, patch) ==
    MergedWith(dst, patch, LAMBDA d, p : MergedWith(d, p, Replace))

ApplyStrategy(c, s) ==
    With(c, "rules", List(CASE s.action = "append" -> Append(RulesOf(c), s.value)
                            [] s.action = "prepend" -> <<s.value>> \o RulesOf(c)))

(* A JSON patch fails as a whole if its path leads nowhere. *)
Applicable(c, j) == IsList(Get(c, "rules")) /\ j.at \in DOMAIN RulesOf(c)
ApplyJsonPatch(c, j) ==
    With(c, "rules", List(CASE j.op = "replace" -> ReplaceAt(RulesOf(c), j.at, j.value)
                            [] j.op = "remove" -> RemoveAt(RulesOf(c), j.at)))

-----------------------------------------------------------------------------
(* Those of the rules rs that are not in the list of c. *)
Missing(c, rs) ==
    FoldLeft(LAMBDA new, r : IF Contains(RulesOf(c), r) THEN new ELSE Append(new, r), <<>>, rs)

(* Mutation: rules that are already there are added again. *)
PrependAll(c, rs) == With(c, "rules", List(rs \o RulesOf(c)))

(* Mutation: the rules are added at the end. *)
AppendRules(c, rs) ==
    LET new == Missing(c, rs)
    IN  IF new = <<>> THEN c ELSE With(c, "rules", List(RulesOf(c) \o new))

(* prependRules of both packages: rules that are in the list, wherever that  *)
(* is, are not added.                                                        *)
PrependRules(c, rs) ==
    LET new == Missing(c, rs)
    IN  IF new = <<>> THEN c ELSE With(c, "rules", List(new \o RulesOf(c)))

(* Mutation: domains that are exempt already are added again. *)
AppendAllFilters(c, ds) ==
    IF ds = <<>> \/ ~FakeIp(c) THEN c
    ELSE With(c, "dns", Map(With(Get(c, "dns")[2], "filter", List(FilterOf(c) \o ds))))

(* Mutation: a filter that is not there is not created. *)
ExtendFilter(c, ds) ==
    IF ds = <<>> \/ ~FakeIp(c) \/ ~IsList(Get(Get(c, "dns")[2], "filter")) THEN c
    ELSE With(c, "dns", Map(With(Get(c, "dns")[2], "filter",
                                 List(ExtendedBy(FilterOf(c), ds)))))

(* appendFakeIPFilter of both packages, called with some domains. *)
AppendFakeIPFilter(c, ds) ==
    IF ds = <<>> \/ ~FakeIp(c) THEN c
    ELSE With(c, "dns", Map(With(Get(c, "dns")[2], "filter",
                                 List(ExtendedBy(FilterOf(c), ds)))))

ApplyTemplate(c, name) ==
    AppendFakeIPFilter(PrependRules(c, Templates[name].rules), Templates[name].exempt)
ApplyTemplates(c, names) == FoldLeft(ApplyTemplate, c, names)

(* expandDomains: platforms and domains; what is neither is left out. *)
AddEntry(out, e) ==
    ExtendedBy(out, IF e \in DOMAIN Platforms THEN Platforms[e]
                    ELSE IF e \in Domains THEN <<e>> ELSE <<>>)
ExpandDomains(entries) == FoldLeft(AddEntry, <<>>, entries)

ApplyGamePlatformDirect(c, entries) ==
    LET ds == ExpandDomains(entries)
    IN  AppendFakeIPFilter(PrependRules(c, Direct(ds)), ds)

-----------------------------------------------------------------------------
Init ==
    /\ stage = "merge" /\ used = 0
    /\ cfg \in Bases
    /\ given = <<>> /\ applied = <<>> /\ directive = <<>>

(* One item of the list that the stage s works on. *)
Item(s) == stage = s /\ used < MaxItems /\ used' = used + 1 /\ UNCHANGED <<given, directive>>

Fail == stage' = "failed" /\ UNCHANGED <<cfg, applied>>
Go(c) == stage' = stage /\ cfg' = c /\ UNCHANGED applied

MergeSource(src) ==
    /\ Item("merge")
    /\ \/ Mergeable(cfg, src) /\ Go(SubscriptionInto(cfg, src))
       \/ ~Mergeable(cfg, src) /\ Fail

(* An override file that is missing or holds no mapping fails the build. *)
OverrideFile ==
    /\ Item("files")
    /\ Fail \/ \E m \in MergeMaps : Go(DeepMerge(cfg, m))

(* A patch that is disabled, of one of the three types, or of another one. *)
OverridePatch ==
    /\ Item("patches")
    /\ \/ Go(cfg)
       \/ \E m \in MergeMaps : Go(DeepMerge(cfg, m))
       \/ \E s \in Strategies : Go(ApplyStrategy(cfg, s))
       \/ \E j \in JsonPatches :
             \/ Applicable(cfg, j) /\ Go(ApplyJsonPatch(cfg, j))
             \/ ~Applicable(cfg, j) /\ Fail
       \/ Fail

(* A rule template; a blank name is skipped, an unknown one fails the build. *)
SelectTemplate ==
    /\ Item("templates")
    /\ \/ \E name \in DOMAIN Templates :
             /\ cfg' = ApplyTemplate(cfg, name)
             /\ applied' = Append(applied, name)
             /\ stage' = stage
       \/ Go(cfg)
       \/ Fail

(* The end of a list; there may be no subscription if there is a template.   *)
EndOfList ==
    /\ \/ stage = "merge" /\ stage' = "files"
       \/ stage = "files" /\ stage' = "patches"
       \/ stage = "patches" /\ stage' = "templates"
       \/ stage = "templates" /\ stage' = "policy"
    /\ used' = 0
    /\ given' = IF stage = "patches" THEN cfg ELSE given
    /\ UNCHANGED <<cfg, applied, directive>>

ApplyPolicy ==
    /\ stage = "policy"
    /\ \E entries \in Directives :
          /\ directive' = entries
          /\ cfg' = ApplyGamePlatformDirect(cfg, entries)
    /\ stage' = "validate"
    /\ UNCHANGED <<used, given, applied>>

(* Mutation: only the presence of the key is checked. *)
ValidatePresence ==
    /\ stage = "validate"
    /\ stage' = IF "rules" \in DOMAIN cfg THEN "built" ELSE "failed"
    /\ UNCHANGED <<used, cfg, given, applied, directive>>

Validate ==
    /\ stage = "validate"
    /\ stage' = IF IsList(Get(cfg, "rules")) THEN "built" ELSE "failed"
    /\ UNCHANGED <<used, cfg, given, applied, directive>>

Next ==
    \/ \E src \in Sources : MergeSource(src)
    \/ OverrideFile \/ OverridePatch \/ SelectTemplate \/ EndOfList
    \/ ApplyPolicy \/ Validate

Spec == Init /\ [][Next]_vars

-----------------------------------------------------------------------------
Stages == {"merge", "files", "patches", "templates", "policy", "validate", "built", "failed"}

(* Types; a configuration that is built has a list of rules, whatever the    *)
(* sources and the overrides made of that key.                               *)
TypeOK ==
    /\ stage \in Stages
    /\ used \in 0..MaxItems
    /\ applied \in Seq(DOMAIN Templates)
    /\ ToSet(RulesOf(cfg)) \subseteq Rules
    /\ stage = "built" => IsList(Get(cfg, "rules"))

TemplateRules == UNION {ToSet(Templates[applied[i]].rules) : i \in DOMAIN applied}
ExemptingTemplates == {name \in ToSet(applied) : Templates[name].exempt # <<>>}
ExemptingRules ==
    ToSet(Direct(ExpandDomains(directive)))
        \union (UNION {ToSet(Templates[name].rules) : name \in ExemptingTemplates})
OverlayRules == TemplateRules \union ToSet(Direct(ExpandDomains(directive)))

(* The daemon takes the first rule that matches. *)
Decision(rules, d) ==
    LET i == SelectInSeq(rules, LAMBDA r : r.on \in {d, AnyDomain})
    IN  IF i = 0 THEN "none" ELSE rules[i].to

Occurrences(rules, r) == Cardinality({i \in DOMAIN rules : rules[i] = r})

(* Templates and directive overlap each other and the sources: however they  *)
(* are combined and repeated in the profile, none of their rules is added    *)
(* to a list that has it (prependRules).                                     *)
NeverTwice ==
    \A r \in OverlayRules :
        LET before == Occurrences(RulesOf(given), r)
        IN  Occurrences(RulesOf(cfg), r) <= IF before = 0 THEN 1 ELSE before

(* In fake-ip mode no domain for which the directive, or a template that     *)
(* calls appendFakeIPFilter, has a direct rule is left out of the filter,    *)
(* wherever that rule and the filter came from.  The domains of cn-direct,   *)
(* which does not call it, keep their fake addresses.                        *)
FakeIpExempt ==
    stage = "built" /\ FakeIp(cfg) =>
        \A r \in ExemptingRules : r.on \in ToSet(FilterOf(cfg))

(* Whatever rules the sources and overrides put first, a domain of a         *)
(* selected template or of the directive is direct in the result, unless the *)
(* very rule was in the list before (prependRules leaves it where it is).    *)
DirectDecides ==
    stage = "built" =>
        \A d \in Domains :
            Rule(d, "DIRECT") \in OverlayRules \ ToSet(RulesOf(given)) =>
                Decision(RulesOf(cfg), d) = "DIRECT"

(* A configuration that was built can be the source of another build with    *)
(* the same templates and directive: they find all their work done.          *)
FixedPoint ==
    stage = "built" =>
        ApplyGamePlatformDirect(ApplyTemplates(cfg, applied), directive) = cfg

(* The same for the directive and without the exception, as                  *)
(* docs/architecture.md says of it: gamePlatformDirect prepends DIRECT       *)
(* rules.                                                                    *)
DirectiveWins ==
    stage = "built" =>
        \A d \in ToSet(ExpandDomains(directive)) : Decision(RulesOf(cfg), d) = "DIRECT"
==============================================================================
