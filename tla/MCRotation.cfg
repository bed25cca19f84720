\* Two RPCs over one device that is used through two applications; its tokens
\* are rotated again and again while lookups of the store may fail.
CONSTANTS
    Slots = {r1, r2}
    Ops = {"Token", "Logout"}
    Apps = {app1, app2}
    Devices = {d1}
    Identities = {alice, bob}
    WebitelUsers = {}
    Addresses = {ip}
    PushVersions = {1}
    StoreFaults = TRUE
    MaxSerial = 3
    MaxContactId = 1
    None = None
SPECIFICATION Spec
SYMMETRY Symmetric
INVARIANTS
    TokenWorksViaItsApp
    ActsAsGrantee
PROPERTIES
    DeadTokensStayDead
    LogoutIsFinal
    HandoverRotatesToken
