--------------------------- MODULE MCOutboxRelay ----------------------------
\* Instances of OutboxRelay for TLC.  e1 is a memory.stored event (deferred
\* action) that also has a handler on a connection of its own, e2 an event with
\* plain handlers, e3 misrouted, e4 declared unconsumed.
EXTENDS OutboxRelay

CONSTANTS e1, e2, e3, e4, r1, r2
=============================================================================
