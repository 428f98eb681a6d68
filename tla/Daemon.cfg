SPECIFICATION Spec
CONSTANTS
    one = one
    two = two
    three = three
    Secrets <- MCSecrets
    Clients = {one, two, three}
    Starts <- MCStarts
    MaxFaults = 1
INVARIANTS
    ConfigSound LoginSound
PROPERTIES
    ServedUnlessSilent
\* A daemon that refuses its configuration stops, and clients come once.
CHECK_DEADLOCK FALSE
