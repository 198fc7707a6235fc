SPECIFICATION FairSpec
CONSTANTS
    c1 = c1
    c2 = c2
    s1 = s1
    s2 = s2
    a1 = a1
    a2 = a2
    r1 = r1
    r2 = r2
    Category = {c1, c2}
    Slug = {s1, s2}
    Admin = {a1, a2}
    Reader = {r1, r2}
    Keep = Keep
    NoList = NoList
    MaxEdits = 3
    MaxFaults = 1
INVARIANTS SlugsStayUnique OldOnlyIfLostOrOvertaken
PROPERTIES ListSettles
