------------------------- MODULE MCMenuPublication -------------------------
EXTENDS MenuPublication

CONSTANTS e1, e2

\* The first edit is older than the publication and the second is made while
\* publications are pushed; or both are made, one after the other or at once,
\* and a tenant that stays inactive has nothing pushed.
McInstallations ==
    [edits : {{e1}}, version : {0, 1}, active : {TRUE}, toggles : {0}]
    \cup [edits : {{}}, version : {0}, active : {FALSE}, toggles : {MaxToggles}]
=============================================================================
