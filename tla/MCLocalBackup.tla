--------------------------- MODULE MCLocalBackup ---------------------------
EXTENDS LocalBackup
=============================================================================
