---- MODULE MCFutex ----
EXTENDS Futex
mcBucket == [a \in Addrs |-> 1]
====
