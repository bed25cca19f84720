\* One RPC at a time, every operation, no failing lookups.
CONSTANTS
    Slots = {r1}
    Ops = {"Token", "Logout", "Inspect", "RegisterDevice", "UnregisterDevice"}
    Apps = {app1, app2}
    Devices = {d1}
    Identities = {alice, bob}
    WebitelUsers = {}
    Addresses = {ip}
    PushVersions = {1, 2}
    StoreFaults = FALSE
    MaxSerial = 3
    MaxContactId = 2
    None = None
SPECIFICATION Spec
SYMMETRY Symmetric
INVARIANT OneSessionPerAppDevice
