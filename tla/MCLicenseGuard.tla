--------------------------- MODULE MCLicenseGuard ---------------------------
(* A finite instance of LicenseGuard, with the registry it implements.  The *)
(* XRs are numbered from 1.                                                *)
EXTENDS LicenseRefinement
TwoControlPlanes == 1..2
OneAge == {0}
=============================================================================
