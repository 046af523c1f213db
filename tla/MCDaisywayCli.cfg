\* Every command line and environment and, for the exchange command, every
\* configuration: start-up never panics.
SPECIFICATION Spec
INVARIANT NoSetupPanic
\* main returns once the command has run, or the daemon runs for ever.
CHECK_DEADLOCK FALSE
