\* Four mails, two workers and room for two: safety, and the progress of the
\* mails and of the shutdown, in time or forced.
CONSTANTS
    Mails = {m1, m2, m3, m4}
    Workers = {w1, w2}
    Capacity = 2
    None = None
SPECIFICATION FairSpec
INVARIANTS
    AcceptedIsSomewhere
    ExitsDrained
    LateSubmitsOnlyForced
PROPERTIES
    MailsAreTried
    ShutdownEnds
CHECK_DEADLOCK FALSE
