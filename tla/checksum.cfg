\* Every checksum, for a few values of the ToS byte.
SPECIFICATION Spec
CONSTANT TosValues = {0, 1, 2, 16}
PROPERTY OneBadChecksum
CHECK_DEADLOCK FALSE
