---------------------------- MODULE MCLaunching ----------------------------
EXTENDS Launching, TLC

AnyLauncher == Permutations(Launchers)
=============================================================================
