SPECIFICATION Spec
CONSTANTS
    c1 = c1
    c2 = c2
    i1 = i1
    i2 = i2
    probe = probe
    commitProbe = commitProbe
    Candidate = {c1, c2}
    Invocation = {i1, i2}
    Probe = {probe, commitProbe}
    Question <- MCQuestion
    CommitProbe = commitProbe
    Records <- MCRecords
INVARIANTS
    LedgerAccepted
    ConclusionsAreBacked
    ConflictsStayOpen
    ReceiptsAccepted
CHECK_DEADLOCK FALSE
