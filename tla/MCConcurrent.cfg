\* Two RPCs in flight at any time over two devices, for an end-user of the
\* application and one of Webitel, while lookups of the store may fail.
CONSTANTS
    Slots = {r1, r2}
    Ops = {"Token", "Logout", "RegisterDevice"}
    Apps = {app}
    Devices = {d1, d2}
    Identities = {alice}
    WebitelUsers = {agent}
    Addresses = {ip}
    PushVersions = {1}
    StoreFaults = TRUE
    MaxSerial = 2
    MaxContactId = 1
    None = None
SPECIFICATION Spec
SYMMETRY Symmetric
INVARIANTS
    TokenNamesItsGrantee
    PushStaysOnDevice
    TokenWorksViaItsApp
PROPERTY ImplementsGrants
