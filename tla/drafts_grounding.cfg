\* One edit, one publication.
SPECIFICATION Spec
CONSTANTS
    Sets = {s1}
    Drafts = {d1, d2}
    ph1 = ph1
    ph2 = ph2
    Phrases = {ph1, ph2}
    Texts <- TextsHere
    Answers <- AnswersHere
    Fits = 2
    Requests = {r1, r2}
    Times = {"now", "later"}
INVARIANT PublishedIsGrounded
CHECK_DEADLOCK FALSE
