---------------------------- MODULE MCSourceFetch ----------------------------
(* A small profile for SourceFetch: the template, a subscription and two     *)
(* lines of a nodes file load one URL (lines may differ in the labels after  *)
(* #), and a local file makes one source more than there are slots.          *)
EXTENDS SourceFetch

MCSubs == {"first", "local", "nodes"}
MCTemplate == {"template"}
MCKinds == {"subscription", "nodes", "template"}
MCBodies == {"list", "page"}
MCAccepts == [k \in MCKinds |-> {"list"}]
MCKind == [s \in Sources |-> CASE s \in {"first", "local"} -> "subscription"
                               [] s = "nodes" -> "nodes"
                               [] s = "template" -> "template"]
MCLocal == {"local", "nodes"}
MCUrlsOf == [s \in Sources |-> CASE s = "local" -> <<>>
                                 [] s = "nodes" -> <<"u", "u">>
                                 [] OTHER -> <<"u">>]
==============================================================================
