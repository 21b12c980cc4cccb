SPECIFICATION EngineSpec
CONSTANTS
    r1 = r1
    r2 = r2
    order = order
    gateway = gateway
    e1 = e1
    e2 = e2
    Registrars <- TwoRegistrars
    Dependencies <- TwoDependencies
    Types <- TwoTypes
    Evaluations <- TwoEvaluations
    MaxRows = 3
SYMMETRY MCSymmetry
INVARIANTS TypeOK DuplicatesBounded SearchSeesRegistered
CHECK_DEADLOCK FALSE
