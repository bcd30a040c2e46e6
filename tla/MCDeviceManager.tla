-------------------------- MODULE MCDeviceManager --------------------------
EXTENDS DeviceManager, TLC
Symm == Permutations(Job) \cup Permutations(Addr) \cup Permutations(Http)
=============================================================================
