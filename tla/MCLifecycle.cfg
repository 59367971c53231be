SPECIFICATION Spec
CONSTANTS
    Rpcs = {c1, c2}
    WebRequests = {w1, w2}
INVARIANTS SendsNeverWait CallsAreAnswered
PROPERTY ProcessEnds
