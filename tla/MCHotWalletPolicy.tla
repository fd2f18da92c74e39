-------------------------- MODULE MCHotWalletPolicy --------------------------
EXTENDS HotWalletPolicy, TLC

CONSTANTS o1, o2, v1, v2

OwnerSymmetry == Permutations(Owners)

MCPatches ==
    {[max |-> {2}, daily |-> {}, expires |-> {}, parties |-> {}],
     [max |-> {}, daily |-> {}, expires |-> {2}, parties |-> {v2}]}
=============================================================================
