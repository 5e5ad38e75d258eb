CONSTANT Inputs <- MCInputs
SPECIFICATION Spec
INVARIANT ParseLoopProgresses
