----------------------------- MODULE MCFrameBus -----------------------------
EXTENDS FrameBus
=============================================================================
