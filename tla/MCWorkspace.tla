----------------------------- MODULE MCWorkspace -----------------------------
\* Workspace over a few connections with a few server requests each.
EXTENDS Workspace
=============================================================================
