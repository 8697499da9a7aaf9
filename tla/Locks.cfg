\* As many threads as tickets, so that both counters wrap with every ticket in
\* use; and three threads that can wait behind the holder of the spinlock.
CONSTANT Threads = {t1, t2, t3}
CONSTANT Wrap = 3
CONSTANT Spinners = {s1, s2, s3, s4}
SPECIFICATION LocksSpec
INVARIANTS OneHolder TicketsInUse
PROPERTIES SpinImplementsLock SomebodyEnters ImplementsFairLock EverybodyEnters
