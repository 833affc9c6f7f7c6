SPECIFICATION PipelineSpec
CONSTANTS
    Batches <- MCBatches
    Pipelines = {"multi_agent", "linear"}
    MaxThreads = 3
    NoValue = NoValue
    Linear = Linear
    NoJob = NoJob
    Core <- MCCore
    ThisYear = 2025
CHECK_DEADLOCK FALSE
INVARIANTS
    PoolSound
    AnalysisExact
PROPERTIES
    JobsFinish
