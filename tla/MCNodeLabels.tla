---------------------------- MODULE MCNodeLabels ----------------------------
(* Four nodes over three places, one of which reads like a numbered label of *)
(* another, with every set of group names that collides with a label.        *)
EXTENDS NodeLabels

HK == <<"Hong Kong">>
MCPlaces == {HK, Numbered(HK, 1), <<"Tokyo">>}
MCRank == [b \in MCPlaces |-> IF b = HK THEN 1 ELSE IF Len(b) = 2 THEN 2 ELSE 3]
MCReservable == SUBSET {HK, Numbered(HK, 2), Numbered(HK, 3)}
MCBuiltin == {<<"DIRECT">>}
==============================================================================
