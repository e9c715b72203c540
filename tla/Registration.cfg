SPECIFICATION Spec
CONSTANTS
    d1 = d1  d2 = d2
    e1 = e1  e2 = e2  e3 = e3
    None = None
    Devices = {d1, d2}
    Ids = {d1, d2, e1, e2, e3}
    Relations = {e1, e2, e3}
    Uses <- MCUses
    Listing <- MCListing
    OwnerOf <- MCOwnerOf
    MaxDisturbances = 4
INVARIANTS TypeOK OneStory RegisteredOncePerTask
PROPERTIES ImplementsContract RediscoveryRepairs
