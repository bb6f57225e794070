SPECIFICATION FairSpec
CONSTANTS
    c1 = c1  c2 = c2
    Changes = {c1, c2}
    Arriving = {"checkout", "paid", "failed", "refunded"}
    MailAttempts = 2
    MailMaxStalled = 1
    EmailEnabled = TRUE
    MaxLostReplies = 1
    MaxFailures = 1
    MaxCrashes = 1
INVARIANTS
    TypeOK
    AnnouncedIsShown
    MailIsKept
    FewCopies
PROPERTIES
    ChangeIsAnnounced
    MailsSettle
CHECK_DEADLOCK FALSE
