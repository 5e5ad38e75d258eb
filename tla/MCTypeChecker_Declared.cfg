CONSTANTS None = NoneVal NoneVal = NoneVal
CONSTANT Programs <- MCPrograms
SPECIFICATION Spec
INVARIANT AcceptsOnlyDeclared
