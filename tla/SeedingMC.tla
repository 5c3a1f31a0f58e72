----------------------------- MODULE SeedingMC -----------------------------
EXTENDS Seeding, TLC

CONSTANTS xia, tao, trip

MCComments == <<2, 0>>
MCLikes == <<1, 1>>

Symmetry == Permutations(Names)
=============================================================================
