SPECIFICATION Spec
INVARIANT RegisteredPacketsHandled
