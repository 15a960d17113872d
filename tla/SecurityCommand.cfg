\* Up to two changes of anything the engine reads, at any step of a call.
SPECIFICATION CommandSpec
CONSTANT MaxChanges = 2
INVARIANTS EnvelopeBound NoSecretShown DriftNotMasked CommandVerdict
CHECK_DEADLOCK FALSE
