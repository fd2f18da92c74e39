------------------------- MODULE MCSteleOAuthSession -------------------------
EXTENDS SteleOAuthSession, TLC

FamilySymmetry == Permutations(Families)
=============================================================================
