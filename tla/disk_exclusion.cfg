\* Two operations in flight at once.
CONSTANT Ops = {o1, o2}
SPECIFICATION Spec
INVARIANT ExclusionInv
PROPERTIES ExportExcludesRun BeginsOff
