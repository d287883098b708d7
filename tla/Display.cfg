CONSTANTS
    Spans <- MCSpans
    Windows <- MCWindows
    Readings = {0, 1, 2, 5}
    Checks = {0, 1, 2, 3, 7, 199, 200, 20000, 20001}
    Averages = {0, 99, 100, 101, 250}
    Buckets = {0, 1, 2, 3}
    Pointers = {0, 48, 213, 378, 379, 543, 720}
    Leads <- MCLeads
    Null = Null
    Blank = Blank
SPECIFICATION Spec
INVARIANTS
    FiguresReadBack
    MarksAreTrue
    TooltipIsTrue
CHECK_DEADLOCK FALSE
