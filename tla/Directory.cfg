SPECIFICATION Spec
CONSTANTS
    admin = admin
    eve = eve
    sysadmin = sysadmin
    ops = ops
    dev = dev
    it = it
    hr = hr
    lab = lab
    lead = lead
    head = head
    aide = aide
    read = read
    write = write
    n1 = n1
    n2 = n2
    n3 = n3
    None = None
    Users = {admin, eve}
    Roles = {sysadmin, ops, dev}
    Departments = {it, hr, lab}
    Designations = {lead, head, aide}
    Permissions = {read, write}
    Names = {n1, n2, n3}
    SystemRoles = {sysadmin}
    Seed <- MCSeed
    SeedLinks <- MCSeedLinks
    Payloads <- MCPayloads
    Batches <- MCBatches
    Requests = {q1, q2}
    MaxOpened = 3
SYMMETRY MCSymmetry
INVARIANTS
    CheckedNamesDiffer
    PlacesAgree
    LinksAreReplaced
PROPERTIES
    DeletedRowsRest
    NewUsersHaveRoles
CHECK_DEADLOCK FALSE
