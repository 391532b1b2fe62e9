SPECIFICATION Spec
CONSTANTS Browsers = {b}
 AdminTtl = 3
 GuestTtl = 1
 InviteTtl = 1
 Horizon = 5
 MaxRestarts = 1
 Images = {i1, i2, huge}
 Fitting = {i1, i2}
 MaxAttempts = 3
 MaxShows = 2
 MaxTasks = 3
 Kept = 2
 MaxLosses = 2
 GroupJobs = {j}
 Parts = 2
 MaxGroups = 3
 MaxCuts = 1
INVARIANTS TypeOK AccessIsEarned TasksTellTheTruth
PROPERTIES AckedMeansShown DisplayNowWorks
CHECK_DEADLOCK FALSE
