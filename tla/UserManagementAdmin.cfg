CONSTANTS
    Users = {me, u1}
    Me = me
    RolesChosen = {"ADMIN"}
    MaxUserRequests = 2
    MaxUserEvents = 1
SPECIFICATION UserSpec
CHECK_DEADLOCK FALSE
INVARIANTS
    AdminHasAccess
