--------------------------- MODULE MCSshSessions ---------------------------
(* Bounded instances of SshSessions for TLC.  Handlers and ports are        *)
(* interchangeable: no definition names one of them.                        *)
EXTENDS SshSessions, TLC

Symmetry == Permutations(Handlers) \cup Permutations(Ports)
=============================================================================
