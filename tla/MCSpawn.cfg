\* One scripted spawn of two areas, two objects of each at most; spawners make two.
CONSTANTS
    r1 = r1 a1 = a1 a2 = a2
    Areas = {a1, a2}
    Regions = {r1}
    RegionOf <- AreaRegions
    Max <- Maxima
    Objects = {o1, o2, o3}
    Amount = 2
    NoRegion = NoRegion NoObject = NoObject
SPECIFICATION Spec
SYMMETRY Symmetry
INVARIANTS TypeOK CountsAgree AtMostLimit Accounted EachCounted
