----------------------------- MODULE MCLifecycle -----------------------------
EXTENDS Lifecycle, TLC
=============================================================================
