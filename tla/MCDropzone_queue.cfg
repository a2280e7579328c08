SPECIFICATION FairSpec
CONSTANTS
    f1 = f1
    f2 = f2
    f3 = f3
    big = big
    Files = {f1, f2, f3, big}
    TooBig = {big}
    Hidden = {f3}
    ParallelUploads = 2
INVARIANTS IInv NoStall OneRemoval Completion OnlyLateLost
PROPERTIES ImplementsPool QueuedLeaves FinishedReloads
CHECK_DEADLOCK FALSE
