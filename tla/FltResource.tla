---- MODULE FltResource ----
(***************************************************************************)
(* The reader-writer lock of src/src/kernel_objects/flt_resource.rs, as    *)
(* operators on a lock value.  FltResource wraps a kernel ERESOURCE: one   *)
(* owner or many readers, and the owner may acquire it again, shared or    *)
(* exclusive, `depth` counting the acquisitions it has still to release.   *)
(* The guards (CanAcquire...) are the points where a thread waits; the     *)
(* release is the destructor of the guard the acquisition returned.        *)
(***************************************************************************)
EXTENDS Naturals

Lock(Threads) == [owners : SUBSET Threads, depth : Nat, readers : SUBSET Threads]

Unlocked == [owners |-> {}, depth |-> 0, readers |-> {}]

CanAcquireShared(lock, t) == lock.owners \subseteq {t}

\* A reader that asks for exclusive access waits for itself: ERESOURCE does
\* not upgrade a shared acquisition.
CanAcquireExclusive(lock, t) == lock.owners \subseteq {t} /\ lock.readers = {}

\* Mutants: an acquisition that is left out.
AcquireExclusiveNothing(lock, t) == lock
AcquireSharedNothing(lock, t) == lock

AcquireExclusive(lock, t) ==
    [lock EXCEPT !.owners = {t}, !.depth = @ + 1]

\* What a thread that owns the resource acquires shared stays exclusive.
AcquireShared(lock, t) ==
    IF t \in lock.owners THEN [lock EXCEPT !.depth = @ + 1]
                         ELSE [lock EXCEPT !.readers = @ \union {t}]

\* Mutants: releases that forget the readers, forget the owner, or count down
\* for a reader as well.
ReleaseOwnerOnly(lock, t) == [lock EXCEPT !.owners = {}, !.depth = 0]
ReleaseReaderOnly(lock, t) == [lock EXCEPT !.readers = @ \ {t}]
ReleaseCounting(lock, t) ==
    [owners |-> {}, depth |-> lock.depth - 1, readers |-> lock.readers \ {t}]

Release(lock, t) ==
    IF t \notin lock.owners THEN [lock EXCEPT !.readers = @ \ {t}]
    ELSE IF lock.depth > 1  THEN [lock EXCEPT !.depth = @ - 1]
                            ELSE [lock EXCEPT !.owners = {}, !.depth = 0]
====
