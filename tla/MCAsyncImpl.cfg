CONSTANT Inputs <- MCInputs
SPECIFICATION Spec
INVARIANTS ExpandsAsExpected ExtensionsAreSound
CHECK_DEADLOCK FALSE
