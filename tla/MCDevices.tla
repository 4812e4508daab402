----------------------------- MODULE MCDevices -----------------------------
EXTENDS Devices, TLC

CONSTANT a1    \* the address a scan of one host asks for

MCRanges == {Ips, {a1}}

MCSymmetry ==
    Permutations(Rows) \union Permutations(Macs) \union Permutations(Sweeps)
=============================================================================
