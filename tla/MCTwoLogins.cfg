\* Two logins at one device at the same time.
CONSTANTS
    Slots = {r1, r2}
    Ops = {"Token"}
    Apps = {app}
    Devices = {d1}
    Identities = {alice, bob}
    WebitelUsers = {}
    Addresses = {ip}
    PushVersions = {1}
    StoreFaults = FALSE
    MaxSerial = 2
    MaxContactId = 1
    None = None
SPECIFICATION Spec
INVARIANT LoginNeverLocked
