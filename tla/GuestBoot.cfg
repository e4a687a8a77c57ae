SPECIFICATION FairSpec
CONSTANTS
    img1 = img1
    img2 = img2
    w1 = w1
    w2 = w2
    sda = sda
    sdb = sdb
    c1 = c1
    c2 = c2
    Client = {c1, c2}
    Image = {img1, img2}
    Word = {w1, w2}
    Device = {sda, sdb}
    DefaultRoot = sda
    SshKey = {k1, k2}
    Cmdlines <- MCCmdlines
    Disks <- MCDisks
    None = None
CHECK_DEADLOCK FALSE
INVARIANTS
    TypeOK
    RootAsOrdered
    KeyFileIsBrief
    ReportVouchesForKey
PROPERTIES
    RightKeyGetsIn
