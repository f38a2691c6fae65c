SPECIFICATION FairSpec
CONSTANTS
    quick = quick
    slow = slow
    Workers <- MCWorkers
    Etags <- MCEtags
    Ttl <- MCTtl
    None = None
    MaxFaults = 1
PROPERTY
    ServiceSettles
