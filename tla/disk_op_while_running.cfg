\* A start() during the await of one operation.
CONSTANT Ops = {o1}
SPECIFICATION Spec
INVARIANT OpsExcludeRun
