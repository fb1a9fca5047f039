SPECIFICATION Spec
CONSTANTS
    o = o
    a = a
    b = b
    r1 = r1
    r2 = r2
    None = None
    Founder = o
    Users <- MCUsers
    Requests <- MCRequests
    Limit <- FreeLimit
    ProjectLimit <- FreeProjects
    MaxProjects = 1
    MaxInvites = 2
    MaxTime = 0
SYMMETRY Symmetry
PROPERTIES
    RefusedAtTheLimit
