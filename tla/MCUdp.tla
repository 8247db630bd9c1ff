------------------------------- MODULE MCUdp -------------------------------
EXTENDS Udp, TLC

CONSTANTS e1, e2, i1, i2, r1, r2, p1

MCEndpoints == {e1, e2}
MCInputs == {i1, i2}
MCReceivers == {r1, r2}

=============================================================================
