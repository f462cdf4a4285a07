CONSTANTS
    Registered = {"a", "b"}
    AVias <- MCAVias
    Offers <- MCOffers
    Answers <- MCAnswers
SPECIFICATION Spec
CHECK_DEADLOCK FALSE
INVARIANTS
    TypeOK
    NoCounterAsserts
    LinesDeletedOnce
    CachesCoherent
    TextsWellFormed
    DialogWithB
    DialogWithA
    PayloadRelayed
