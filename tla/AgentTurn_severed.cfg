SPECIFICATION Spec
CONSTANTS
    MaxProviders = 2
    MaxToolIterations = 3
    MaxRetries = 1
    MaxCalls = 2
    Histories <- SomeHistories
INVARIANTS SeveredStreamIsAnError
