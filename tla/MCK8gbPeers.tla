----------------------------- MODULE MCK8gbPeers -----------------------------
(* Finite instances of K8gbPeers.  Tags, ids and zones are given by their  *)
(* words; the zones are gslb.example.com and eu.example.com.               *)
EXTENDS K8gbPeers

CONSTANTS a, b

AllWords == {"gcp", "gslb", "ns", "a", "b", "main", "us", "east1", "central1",
             "eu", "example", "com"}
Gslb == <<"gslb", "example", "com">>
Eu == <<"eu", "example", "com">>
ExampleCom == <<"example", "com">>
Setting(zone, tag) == [zone |-> zone, parent |-> ExampleCom, tag |-> tag]

(* Two XRs in one region: one can only be turned on and off, the other is on *)
(* the same zone or, with a tag of its own, on another.                    *)
Ids == (a :> <<"a">>) @@ (b :> <<"b">>)
OneRegion == [x \in ControlPlane |-> <<"us", "east1">>]
Offers == (a :> {Setting(Gslb, <<>>)}) @@
          (b :> {Setting(Gslb, <<>>), Setting(Eu, <<"main">>)})

(* Region us-central1 with id a-b, and zone us-central1-a with id b.        *)
AmbiguousIds == (a :> <<"a", "b">>) @@ (b :> <<"b">>)
AmbiguousRegions == (a :> <<"us", "central1">>) @@ (b :> <<"us", "central1", "a">>)
DefaultOffers == [x \in ControlPlane |-> {Setting(Gslb, <<>>)}]
=============================================================================
