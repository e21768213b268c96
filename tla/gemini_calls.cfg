CONSTANTS
    j = j
    p = p
    write = write
    think = think
    embed = embed
    None = None
    Callers <- MCCallers
    Jobs <- MCJobs
    KeyCount = 2
    Models <- MCModels
    Kinds <- MCKinds
    Chain <- MCChain
    Attempts <- MCAttempts
    Embeddings <- MCEmbeddings
    Hurried <- JobKinds
    Given <- MCGiven
    Planning = TRUE
    Reranking = TRUE
SPECIFICATION AssessmentSpec
INVARIANTS GivesUpLast KeysTakeTurns PetitionClaimsAreBorneOut
PROPERTIES AssessmentsEnd
