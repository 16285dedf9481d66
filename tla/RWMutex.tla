------------------------------ MODULE RWMutex ------------------------------
(***************************************************************************)
(* A reader/writer lock as the Go runtime provides it (sync.RWMutex), in   *)
(* the form options.go and local.go use it.  A lock is a value with the    *)
(* goroutine that holds or has announced the write side and the set of     *)
(* goroutines that hold the read side.  Lock is two steps: a writer first  *)
(* announces itself, which stops new readers, and then waits for the       *)
(* readers that are in to leave.                                           *)
(***************************************************************************)
CONSTANT NoProc          \* "no goroutine"

RWMutexes(P) == [writer : P \cup {NoProc}, readers : SUBSET P]

Unlocked == [writer |-> NoProc, readers |-> {}]

\* Lock may announce p, and Lock returns to p once the readers are gone.
CanAnnounce(m) == m.writer = NoProc
Exclusive(m, p) == m.writer = p /\ m.readers = {}

\* RLock succeeds only while no writer holds or awaits the lock.
CanRLock(m) == m.writer = NoProc

\* TryLock succeeds only on a lock nobody holds or awaits.
CanTryLock(m) == m.writer = NoProc /\ m.readers = {}

WithWriter(m, p) == [m EXCEPT !.writer = p]
Unlock(m) == [m EXCEPT !.writer = NoProc]
WithReader(m, p) == [m EXCEPT !.readers = @ \cup {p}]
RUnlock(m, p) == [m EXCEPT !.readers = @ \ {p}]
=============================================================================
