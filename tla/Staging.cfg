\* Two handlers and one batch; the run ids of GitHub are larger than their column.
SPECIFICATION Spec
CONSTANTS
    Request = {r1, r2}
    PullRequest = {p1}
    MaxBatches = 1
    MaxDeploys = 2
    RunIdsFit = FALSE
INVARIANT OneRunningDeploy
