CONSTANTS
    n1 = n1
    n2 = n2
    e1 = e1
    e2 = e2
    Conns = {n1, n2}
    Requests <- MCRequests
    Endpoints = {e1}
    Methods = {}
    MaxBytes = 1
    MaxReply = 2
    r1 = r1
    Readers = {}
    MaxChunks = 1
SPECIFICATION TimeoutSpec
PROPERTIES TimeoutIsBounded
