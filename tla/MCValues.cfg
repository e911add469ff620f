SPECIFICATION Spec
INVARIANTS RecordsAreExact SystemAsDeployed TimeIsExact OverridesApplied 
