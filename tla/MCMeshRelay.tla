---------------------------- MODULE MCMeshRelay ----------------------------
EXTENDS MeshRelay

CONSTANTS h1, h2, h3

\* Exit 1 has a host that inherits its inbound's port and a later one that
\* does not; exit 2 has one host.
MCExitOf == [h \in Hosts |-> IF h = h3 THEN 2 ELSE 1]
MCPublished == [h \in Hosts |-> IF h = h2 THEN 3 ELSE 0]
=============================================================================
