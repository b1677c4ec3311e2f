------------------------------ MODULE MCLogger ------------------------------
EXTENDS Logger

CONSTANTS worker, handler, generator

\* One thread of each kind; those that are there from the start log twice.
Records == [t \in {worker, handler, generator} |-> IF t = generator THEN 1 ELSE 2]
=============================================================================
