SPECIFICATION FairSpec
CONSTANTS
    a = a
    b = b
    m = m
    Names = {a}
    Ids = {}
    Refreshes <- Nobody
    MaxTroubles = 1
PROPERTIES
    DockerIsFollowed
