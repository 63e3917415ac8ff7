SPECIFICATION Spec
CONSTANTS H=2 N=7 SizeMod=1000 Lens={1,2,5} Vals={a,b} Caps={2,5} Threads=2
INVARIANT ReserveKeepsApart
