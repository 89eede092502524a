-------------------------- MODULE MCSpeedtestSizes -------------------------
EXTENDS SpeedtestSizes

MCRatios == -1 .. 9
=============================================================================
