SPECIFICATION Spec
INVARIANTS StrictRefusesLostWrites
