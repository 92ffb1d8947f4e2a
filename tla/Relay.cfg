SPECIFICATION Spec
CONSTANTS
    ClientFd = {c1}
    MiddleFd = {m1, m2}
    MaxGen = 3
    MaxQueries = 2
SYMMETRY Interchangeable
CHECK_DEADLOCK FALSE
INVARIANTS TableSound AnswersToAsker PeersMatch
