SPECIFICATION Spec
CONSTANTS
    AuthorityLengthMax = 6
    ErrorLinesMax = 3
INVARIANTS
    AuthoritiesAreParsed
    LocalProxiesWork
    FailuresAreNamed
\* A text or an output of the longest length ends the specification.
CHECK_DEADLOCK FALSE
