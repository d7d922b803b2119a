\* One invocation of init in every world.
SPECIFICATION Spec
INVARIANTS SelectableIsSeeded HostStaysClean ReportedIsCommitted LaterCommitsResolve
CHECK_DEADLOCK FALSE
