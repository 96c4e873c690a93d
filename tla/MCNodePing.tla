---------------------------- MODULE MCNodePing ----------------------------
(* Four nodes: three in one region, two of them in one country, and one    *)
(* far away.                                                               *)
EXTENDS NodePing

CONSTANTS n1, n2, n3, n4, europe, asia, de, fr, sg

MCUrls == {n1, n2, n3, n4}
MCRegion == [n \in MCUrls |-> IF n = n4 THEN asia ELSE europe]
MCCountry == [n \in MCUrls |-> IF n = n4 THEN sg ELSE IF n = n3 THEN fr ELSE de]
=============================================================================
