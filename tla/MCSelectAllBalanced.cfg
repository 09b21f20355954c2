CONSTANTS
    MaxStreams <- MCMaxStreams
SPECIFICATION Spec
\* The construction is a terminating loop: every behaviour stops at "done".
CHECK_DEADLOCK FALSE
INVARIANTS
    MergeIsBalanced
