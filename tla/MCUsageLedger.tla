--------------------------- MODULE MCUsageLedger ---------------------------
EXTENDS UsageLedger, TLC

CONSTANTS anna, ben, laptop, tower

OneUser == <<anna>>
TwoUsers == <<anna, ben>>

\* Nothing tells the devices apart.
Interchangeable == Permutations(Devices)

=============================================================================
