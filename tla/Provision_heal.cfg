SPECIFICATION FairSpec
CONSTANTS
    Admin = Admin
    Commands = {c1}
    MaxDeletes = 1
    MaxFaults = 1
INVARIANT TokenIsEffective
INVARIANT PurgedIsGone
 
