--------------------------- MODULE MCLaunchSession ---------------------------
EXTENDS LaunchSession, TLC

CONSTANTS l1, l2, l3

MCLaunchers == {l1, l2, l3}
MCSymmetry == Permutations(MCLaunchers)
=============================================================================
