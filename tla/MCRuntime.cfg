CONSTANTS
  a1 = a1  a2 = a2  r1 = r1  c1 = c1  c2 = c2  c3 = c3  None = None
  m1 = m1  m2 = m2  t1 = t1  t2 = t2
  a = a  b = b  c = c  d = d  e = e
SPECIFICATION Spec
INVARIANT InterpreterTypeOK NestedBudgetWithinRemaining OverdraftBelowOneInstruction
INVARIANT BytecodeTypeOK
INVARIANT LoaderTypeOK PermitsAccounted
PROPERTY ResourceOwnershipDiscipline CallReturns
PROPERTY LoadReturns DepsLoadedFirst
