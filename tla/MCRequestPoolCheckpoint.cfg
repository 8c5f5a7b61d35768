\* As MCRequestPool.cfg, without fairness.
CONSTANTS
    Requests = {r1, r2}
    Dtos = {p1, b1, n1, n2, n3}
    ProcessObjects = {p1}
    BatchObjects = {b1}
    NoDto = NoDto
    NoRequest = NoRequest

SPECIFICATION Spec
INVARIANT CheckpointAlwaysReported

CHECK_DEADLOCK FALSE
