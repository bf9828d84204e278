SPECIFICATION Spec
INVARIANT RunsInitialised
PROPERTY RunsOnce
PROPERTY WaitEnds
