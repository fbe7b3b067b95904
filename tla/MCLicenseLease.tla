--------------------------- MODULE MCLicenseLease ---------------------------
\* Two machines and one key of a restaurant.
EXTENDS LicenseLease
=============================================================================
