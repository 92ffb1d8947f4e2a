SPECIFICATION FairSpec
CONSTANTS
    Thread <- MCThread
    ClassOf <- MCClassOf
    Sig <- MCSig
    SigClass <- MCSigClass
    Creator = "main"
    Holders = 2
    MaxHeld = 2
    MaxSends = 2
INVARIANT EngineSafe
PROPERTIES SignalsServed Released ImplementsJob
