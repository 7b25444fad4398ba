\* One set of two drafts; three requests that edit, decide or publish.
SPECIFICATION Spec
CONSTANTS
    Sets = {s1}
    Drafts = {d1, d2}
    ph1 = ph1
    ph2 = ph2
    Phrases = {ph1, ph2}
    Texts <- OneText
    Answers <- AnswersHere
    Fits = 1
    Requests = {r1, r2, r3}
    Times = {"now", "later"}
SYMMETRY Symmetry
INVARIANTS
    TypeOK
    PostedOnce
    AcceptedIsTrue
CHECK_DEADLOCK FALSE
