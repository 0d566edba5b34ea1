\* A tool at work in a repository that others change, and a human who approves.
SPECIFICATION GuardSpec
CONSTANTS
    Tool = {t1}
    Command <- Commands
    Branch = {"main", "topic"}
    ProtectedBranch = {"main"}
    Script = {"deploy.sh", "smoke.sh"}
    ProtectedScript = {}
    Target = {"/"}
    Root = {"/repo"}
    MaxMinutes = 2
    Last = 3
    MaxApprovals = 2
    None = None
INVARIANTS
    OnlyApprovedCommandsRun
    OnlyClearedEffects
