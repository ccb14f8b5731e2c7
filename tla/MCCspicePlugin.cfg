SPECIFICATION Spec
CONSTANTS
    Proc = {p1, p2}
    Target <- MCTarget
    Planet <- MCPlanet
    Dexxx <- MCDexxx
    Kernel <- MCTwoKernels
    Covers <- MCCovers
    QuietNames = TRUE
    NoProc = NoProc
    de = de
    mars = mars
    ceres = ceres
INVARIANT ErrorIsOwn
INVARIANT PlanetFound
INVARIANT ErrorsReturn
