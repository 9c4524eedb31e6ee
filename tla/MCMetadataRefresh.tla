-------------------------- MODULE MCMetadataRefresh --------------------------
(* Small configurations for MetadataRefresh: two names of one server, one of *)
(* them its address, and a name that may resolve to a private address.       *)
EXTENDS MetadataRefresh

MCHostList == <<"1.1.1.1", "a.example", "b.example">>
MCIps == {"1.1.1.1", "10.0.0.1"}
MCPrivate == {"10.0.0.1"}
MCResolves == [h \in Hosts |-> IF h = "b.example" THEN MCIps ELSE {"1.1.1.1"}]
MCLiteral == {"1.1.1.1"}

(* One name. *)
MCHostList1 == <<"a.example">>
MCIps1 == {"1.1.1.1"}
MCResolves1 == [h \in Hosts |-> MCIps1]
MCNone == {}
==============================================================================
