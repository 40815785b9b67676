SPECIFICATION FairCheckSpec
CONSTANTS
    pam = pam
    publishing = publishing
    delivery = delivery
    eu = eu
    us = us
    Services = {pam, publishing, delivery}
    Environments <- EndpointsOf
INVARIANTS
    NoPanic
    AnswerIsComplete
PROPERTIES
    CheckReturns
CHECK_DEADLOCK FALSE
