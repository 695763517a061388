----------------------------- MODULE RedisLease -----------------------------
(***************************************************************************)
(* The Redis key behind crate::distributed::Lock::Redis, and the two       *)
(* commands the server sends to it (distributed/lock.rs):                  *)
(*   - SET key id NX PX ttl     (RedisLock::try_acquire)                   *)
(*   - the compare-and-PEXPIRE script      (RedisLock::try_renew)          *)
(* A key is a record [owner, left]: the instance id stored in it and the   *)
(* time to live it has left.  Redis removes the key when the time to live  *)
(* runs out, so left = 0 stands for "no such key" and its owner is Nobody. *)
(***************************************************************************)
EXTENDS Naturals

CONSTANT Nobody    \* owner of the absent key, and of a key whose instance died

Keys(ids, ttl) == [owner : ids \cup {Nobody}, left : 0 .. ttl]

NoKey == [owner |-> Nobody, left |-> 0]

Present(k) == k.left > 0

\* Mutant: the renewal script does not compare the stored id with ours.
OwnedByAnyone(k, i) == Present(k)

\* GET(key) == instance_id: false once the key expired.
OwnedBy(k, i) == Present(k) /\ k.owner = i

\* Mutant: SET without NX.
AcquirableWithoutNX(k) == TRUE

\* SET NX PX answers OK only when there is no key.
Acquirable(k) == ~Present(k)

\* Mutant: the time to live passed in another unit.
SetNXOtherUnit(k, i, ttl) ==
  IF Acquirable(k) THEN [owner |-> i, left |-> 1000 * ttl] ELSE k

SetNX(k, i, ttl) == IF Acquirable(k) THEN [owner |-> i, left |-> ttl] ELSE k

\* Mutant: the renewal script only reads the key.
RenewWithoutExpiry(k, i, ttl) == k

\* The renewal script: PEXPIRE when the key still holds our id, else 0.
RenewIfOwned(k, i, ttl) == IF OwnedBy(k, i) THEN [k EXCEPT !.left = ttl] ELSE k

\* Mutant: SET without PX.
ElapsedWithoutPX(k) == k

\* One unit of time passes in Redis.
Elapsed(k) == IF k.left > 1 THEN [k EXCEPT !.left = @ - 1] ELSE NoKey

\* instance_id is drawn at process start: after a restart nobody alive can
\* renew the old key, which stays until its time to live runs out.
Orphaned(k, i) == IF k.owner = i THEN [k EXCEPT !.owner = Nobody] ELSE k
=============================================================================
