\* Up to three candidates of two routes; a run may need more records than fit.
CONSTANTS
    Capacity = 9
    RequiredSourceRuns = 3
    Sources <- MCSources
    RouteEnd <- MCRouteEnd
    Maturities <- MCMaturities
    Analyses <- MCAnalyses

SPECIFICATION FilesSpec

\* A run of either program ends.
CHECK_DEADLOCK FALSE

INVARIANTS
    OnlyWholeArtifactsValidate
    FinishedArtifactsAnswer
    TemporalEvidenceIsExact
