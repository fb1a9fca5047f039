SPECIFICATION Spec
CONSTANTS
    o = o
    a = a
    b = b
    r1 = r1
    r2 = r2
    None = None
    Founder = o
    Users <- MCUsers
    Requests <- MCRequests
    Limit <- SmallLimits
    ProjectLimit <- SmallProjects
    MaxProjects = 2
    MaxInvites = 2
    MaxTime = 1
SYMMETRY Symmetry
INVARIANTS TypeOK OwnerRemains OneOpenInvite NoInviteForMember
PROPERTIES GrowthFits

