SPECIFICATION Spec
CONSTANTS
    acme = acme
    acme2 = acme2
    demo = demo
    ann = ann
    bob = bob
    cem = cem
    d1 = d1
    d2 = d2
    r1 = r1
    r2 = r2
    nobody = nobody
    Tenants <- MCTenants
    DemoTenant = demo
    Emails = {ann, bob, cem}
    Roles = {"ADMIN", "VIEWER"}
    NoUser = nobody
    Devices = {d1, d2}
    NoCookie = NoCookie
    Requests = {r1, r2}
    NoRequest = NoRequest
    NoWrite = NoWrite
    Keep = Keep
    DeviceOf <- TwoDevices
    InitialUsers <- MCInitialUsers
    InitialCookies <- MCInitialCookies
    Asked <- MCAsked
    MaxRequests = 3
INVARIANTS
    AdminRemains
PROPERTIES
    CutOffStaysOut
CHECK_DEADLOCK FALSE
