------------------------- MODULE MCExternalApproval -------------------------
EXTENDS ExternalApproval
CONSTANTS g1, e1, e2, t1, t2
=============================================================================
