------------------------------- MODULE MCAgent -------------------------------
EXTENDS Agent
=============================================================================
