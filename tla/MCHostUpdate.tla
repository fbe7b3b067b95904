---------------------------- MODULE MCHostUpdate ----------------------------
EXTENDS HostUpdate
=============================================================================
