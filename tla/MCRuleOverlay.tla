---------------------------- MODULE MCRuleOverlay ----------------------------
(* Small configurations and profiles for RuleOverlay. *)
EXTENDS RuleOverlay

Config(rules, dns) == [rules |-> List(rules), dns |-> Map(dns)]
Only(k, v) == k :> v
Empty == <<>>

Catch == Rule(AnyDomain, "PROXY")
To(d, t) == Rule(d, t)
FakeIpMode == [mode |-> Scalar("fake-ip")]

MCDomains == {"store", "content", "cn"}

(* No template file, one with a section of its own, one with a wrong key. *)
MCBases == {Empty, Config(<<To("store", "PROXY")>>, [mode |-> Scalar("redir-host")]),
            Only("rules", Scalar("text"))}

MCSources == {Config(<<Catch>>, FakeIpMode @@ [filter |-> List(<<"store">>)]),
              Config(<<To("cn", "PROXY"), Catch, To("store", "DIRECT")>>, FakeIpMode),
              Only("dns", Map(FakeIpMode)),
              Only("rules", Null)}

(* Replace the rules, remove them, set or remove the mode, spoil the filter. *)
MCMergeMaps == {Only("rules", List(<<To("content", "DIRECT"), Catch>>)),
                Only("rules", Null),
                Only("dns", Map(FakeIpMode)),
                Only("dns", Map([mode |-> Null, filter |-> Null])),
                Only("dns", Map([filter |-> Scalar("text")]))}

MCStrategies == {[action |-> "append", value |-> To("content", "DIRECT")],
                 [action |-> "prepend", value |-> To("cn", "PROXY")]}

MCJsonPatches == {[op |-> "replace", at |-> 1, value |-> To("cn", "DIRECT")],
                  [op |-> "remove", at |-> 2, value |-> Catch]}

MCTemplates == [cnDirect |-> [rules |-> Direct(<<"cn">>), exempt |-> <<>>],
                steam    |-> [rules |-> Direct(<<"store", "content">>),
                              exempt |-> <<"store", "content">>]]

MCPlatforms == [steam |-> <<"store", "content">>]

MCDirectives == {<<>>, <<"steam">>, <<"content", "steam", "unknown">>, <<"cn", "cn">>}

(* examples/steam-direct/profile.yaml: its subscription, its patch that      *)
(* appends the rule of a platform, its template and its directive.           *)
ExampleSources == {Config(<<Catch>>, FakeIpMode)}
ExampleStrategies == {[action |-> "append", value |-> To("content", "DIRECT")]}
ExampleTemplates == [steam |-> MCTemplates.steam]
ExampleDirectives == {<<"steam">>}
NoBase == {Empty}
None == {}
==============================================================================
