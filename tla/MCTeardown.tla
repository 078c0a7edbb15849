---------------------------- MODULE MCTeardown ----------------------------
(* Instances of Teardown: the resources that meet in one Usage, together.  *)
EXTENDS Teardown
K8gbOnly == {"k8gb"}
ChainScope == {"network", "gke", "k8gb-address", "k8gb-release"}
AddressScope == {"gke", "certmanager-release", "k8gb-address", "k8gb-release"}
=============================================================================
