--------------------------- MODULE MCEventStream ---------------------------
EXTENDS EventStream

MCSizes == {1, 3}
=============================================================================
