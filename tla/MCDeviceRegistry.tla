-------------------------- MODULE MCDeviceRegistry --------------------------
EXTENDS DeviceRegistry, TLC

Symmetry == Permutations(Sock) \cup Permutations(Call)
=============================================================================
