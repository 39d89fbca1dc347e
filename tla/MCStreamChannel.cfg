SPECIFICATION Spec
CONSTANT MaxItems = 3
INVARIANTS NoLostWakeup FifoDelivery
PROPERTY StreamEnds
