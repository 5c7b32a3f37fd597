CONSTANT Threads = {t1, t2}
SPECIFICATION Spec
PROPERTY SizesServed
CHECK_DEADLOCK FALSE
