SPECIFICATION Spec
CONSTANTS
    Containers = {c1, c2}
    Addresses = {a1, a2}
    Nowhere = nowhere
    MaxEvents = 2
    MaxExperiments = 1
INVARIANTS
    FirstSeenPopulates
