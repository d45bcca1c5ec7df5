SPECIFICATION StoreSpec
CONSTANTS
    b1 = b1
    b2 = b2
    b3 = b3
    w1 = w1
    w2 = w2
    Token = {t1}
    Backend <- MCBackend
    Worker <- MCWorker
    Targets <- MCTargets
    None = None
INVARIANTS JobsHaveFiles LeaseHasHolder CopiesOnDistinctBackends PromotionStandsAlone
PROPERTY PrimaryMovesOnce
