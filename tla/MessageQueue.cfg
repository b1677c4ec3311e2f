\* Two consumers, three items: every interleaving of both ends, both waits,
\* Pop and Clear.
CONSTANTS
    Consumers = {c1, c2}
    Items = {i1, i2, i3}
SPECIFICATION Spec
INVARIANTS NoLostWakeup FifoOrder ExactlyOnce
PROPERTY WaiterReturns
