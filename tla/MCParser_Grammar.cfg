CONSTANT Inputs <- MCInputs
SPECIFICATION Spec
INVARIANT AcceptsGrammar
