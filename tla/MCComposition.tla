--------------------------- MODULE MCComposition ---------------------------
(* Instances of Composition: the add-ons that share units, together.       *)
EXTENDS Composition
GatewayAddOns == {{"k8gb", "argocd"}}
ArgocdOrBackup == {{"argocd"}, {"backup", "installFrom"}}
BackupAddOns == {{"backup", "installFrom"}}
LicensedAddOns == {{"vpa", "license", "licenseConflict"}, {"knative", "license"},
                   {"vpa", "knative"}, {"vpa", "backup"}}
ArgocdOnly == {{"argocd"}}
NoAddOns == {{}}
=============================================================================
