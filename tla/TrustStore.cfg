CONSTANTS
    Procs = {p1, p2}
    Fingerprints = {f1, f2}
SPECIFICATION Spec
INVARIANT BlockHonoured
