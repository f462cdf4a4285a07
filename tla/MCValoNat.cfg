CONSTANTS
    Registered = {"a", "b"}
    AVias <- MCAVias
    Offers <- MCOffers
    Answers <- MCAnswers
SPECIFICATION Spec
CHECK_DEADLOCK FALSE
INVARIANTS
    ByeToNatAddress
