-------------------------- MODULE MCResourceManager --------------------------
EXTENDS ResourceManager

\* Two priorities; a request that fills the pool and small ones.
Requests == {[priority |-> 1, num |-> 3], [priority |-> 1, num |-> 1],
             [priority |-> 2, num |-> 2]}
=============================================================================
