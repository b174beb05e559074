SPECIFICATION Spec
INVARIANT FailureIsReported
