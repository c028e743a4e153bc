CONSTANTS
    Searchers = {s1, s2}
    Spots = {"near", "far"}
    Locations = {"la jolla"}
    Radii = {5}
    Default = 5
    Distance <- Kilometres
    PageTtl = 2
    LoadLimit = 1
    None = None
SPECIFICATION Spec
SYMMETRY AnyRequest
INVARIANTS
    AnswersCatchUp
    DegradedMeansOutage
    NearbyIsNear
