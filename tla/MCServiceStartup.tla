-------------------------- MODULE MCServiceStartup --------------------------
EXTENDS ServiceStartup

CONSTANTS o1, o2, o3

MCKinds == {"com5003d", "mt310s2d", "sec1000d", "zdsp1d"}
MCChannels == {o1, o2, o3}

=============================================================================
