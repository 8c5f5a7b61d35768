\* Two requests, any route, body and node; one object in each pool and three spare
\* ones, so that a request finds the pool with and without a free object.
CONSTANTS
    Requests = {r1, r2}
    Dtos = {p1, b1, n1, n2, n3}
    ProcessObjects = {p1}
    BatchObjects = {b1}
    NoDto = NoDto
    NoRequest = NoRequest
SPECIFICATION FairSpec
INVARIANTS OneHolder OnlyNullLeaks ResponseIsolation
PROPERTIES AnsweredOnce LeaseSpec ObjectsReturn PostedIsAnswered
CHECK_DEADLOCK FALSE
