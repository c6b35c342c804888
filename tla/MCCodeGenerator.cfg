\* Each instruction alone, with registers and constants at the limits of fields.
CONSTANT Programs <- MCPrograms
SPECIFICATION Spec
INVARIANTS CodesDecode TruncationsAreReported RelocatedFieldsAreConstants
CHECK_DEADLOCK FALSE
