---------------------------- MODULE MCEscalation ----------------------------
EXTENDS Escalation
CONSTANTS x, y, w1, w2
=============================================================================
