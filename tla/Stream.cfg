\* A turn of two messages, three pieces of text, four product events and two faulty
\* frames.
SPECIFICATION StreamSpec
CONSTANTS
    None = None
    c = c
    f = f
    k1 = k1
    k2 = k2
    op = op
    u1 = u1
    u2 = u2
    s1 = s1
    s2 = s2
    Messages <- MCMessages
    FinalMsg <- MCFinal
    Plans <- MCPlans
    MaxWire = 2
    MaxFaults = 2
INVARIANTS
    ProvisionalIsSent
    ScreenShowsCanonical
    ProvenanceIsConsistent
    OneStoryPerActivity
CHECK_DEADLOCK FALSE
