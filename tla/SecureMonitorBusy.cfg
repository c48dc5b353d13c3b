\* Results are asked for with their size; a modulus may fail its test.
SPECIFICATION Spec
CONSTANTS
    MaxOps = 2
    Exponents = {e1}
    WithModulus = {}
    Firmware1000 = TRUE
    OutSizes = {"right"}
INVARIANT BusyMeansCheckable
CHECK_DEADLOCK FALSE
