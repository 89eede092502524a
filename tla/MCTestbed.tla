------------------------------ MODULE MCTestbed -----------------------------
(* Scripts and scenarios for TLC.                                          *)
EXTENDS TestbedUser

MCTwoSizes == <<"1mb", "2mb">>
MCSites == <<"google", "nasa">>
MCPlrs == <<"0", "0.01">>
MCAckLevels == <<1, 2>>

\* Every script with the scenarios it is written for.
MCScripts ==
  {<<"ack bundling", "QPEP Ack", "GEO">>, <<"iperf", "QPEP", "GEO">>,
   <<"iperf", "OpenVPN", "GEO">>, <<"plt", "Distributed PEPsal", "LEO">>,
   <<"plr plt", "PEPSal", "GEO">>, <<"plr", "QPEP", "GEO">>,
   <<"readme plt", "Plain", "GEO">>, <<"readme speedtest", "Plain", "GEO">>,
   <<"browser", "Plain", "LEO">>}

MCKinds == Kinds
=============================================================================
