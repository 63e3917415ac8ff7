SPECIFICATION Spec
CONSTANTS H=2 N=6 SizeMod=1000 Lens={1,2,3} Vals={"a"} Caps={4} Threads=1
INVARIANTS InsideBlock
