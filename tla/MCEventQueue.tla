---------------------------- MODULE MCEventQueue ----------------------------
EXTENDS EventQueue

MCEvents == {"press", "release", "turn"}
=============================================================================
