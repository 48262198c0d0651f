CONSTANTS
    a = a
    b = b
    t1 = t1
    t2 = t2
    s1 = s1
    s2 = s2
    Process = process
    Nil = Nil
    Main = t1
    Arrays <- MCArrays
    Threads <- MCThreads
    Stacks <- MCStacks
    StackOf <- MCStackOf
    Size = 3
    Depth = 2
    Removable = {2, 3}
    MinorFlips = 1
SPECIFICATION Spec
INVARIANTS NoDangling BlackToWhiteCheck
PROPERTIES GarbageIsFound
SYMMETRY Symmetry
