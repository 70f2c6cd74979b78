\* Contact::retry_on_block with a caller budget of 3 s against a node
\* whose own Block-mode wait is 2 s: several retries fit in the budget.
CONSTANTS
    Timeout = 3
    ServerTimeout = 2
SPECIFICATION Spec
\* A single call returns (done) or panics and then takes no further step.
CHECK_DEADLOCK FALSE
INVARIANTS
    TypeOK
    ReturnsWithinBackoffOfDeadline
