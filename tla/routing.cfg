SPECIFICATION FairNetwork
CONSTANTS
    Ids = {1, 2, 3, 4}
    MaxLinks = 4
    MaxConnects = 3
INVARIANTS
    TypeOK
    RouteCarriesData
PROPERTIES
    RouteIsShortest
    SearchEnds
