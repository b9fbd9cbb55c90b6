SPECIFICATION Spec
CONSTANTS
    None = None
    Students = {s1, s2}
    Revisions <- MCRevisions
    Contents <- MCContents
    Asked <- MCAsked
    Entered <- MCEntered
    MaxClock = 3
SYMMETRY StudentSymmetry
INVARIANTS AnswersAMoment ReadWhenDue SessionOutlivesStudents ValidatedIsResolved
CHECK_DEADLOCK FALSE
