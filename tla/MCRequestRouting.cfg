SPECIFICATION Spec
CONSTANTS
    Names = {alpha, beta}
    Addresses = {a1, a2}
    Requests = {r1, r2}
    MaxTransports = 2
SYMMETRY Symmetric
INVARIANTS SentToCluster ForgottenAreClosed
