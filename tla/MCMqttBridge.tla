---------------------------- MODULE MCMqttBridge ----------------------------
EXTENDS MqttBridge, TLC
Symm == Permutations(Disc)
=============================================================================
