CONSTANTS
    OutputBufferSize = 4
    Limits = {0, 1, 3, 6}
    PartialSends = TRUE
    MaxBytes = 8
    s1 = s1  s2 = s2
    Sockets = {s1, s2}
    MaxAdds = 3
SPECIFICATION MCSpec
CHECK_DEADLOCK FALSE
INVARIANT
    FullySentBeforeRefill
