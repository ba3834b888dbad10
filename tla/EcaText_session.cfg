\* Every path of main, with SIGINT and SIGTERM arriving at any point.
SPECIFICATION Spec
INVARIANT SessionOutlivesEngine
