SPECIFICATION Spec
CONSTANTS
    Entry = {e1, e2}
    Session = {s1, s2, s3}
    Caller = {c1}
    Early = {}
    Attempts = 2
    Overlap = {TRUE}
    none = none
PROPERTIES
    ReplacedStaysReplaced
CHECK_DEADLOCK FALSE
