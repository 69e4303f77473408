------------------------------ MODULE CronLock ------------------------------
(***************************************************************************)
(* CronLockService.withLock for one resource: every pod's scheduler starts *)
(* the same cron, the Redis key is taken with a fresh token and a TTL, and *)
(* extended while the callback runs.  Redis may not answer, with or        *)
(* without having done what it was asked; pods die; timers come late.      *)
(*                                                                         *)
(* Time passes in ticks.  A pod's age is the time since Redis last granted *)
(* or extended its lease and said so, counted up to the TTL.               *)
(***************************************************************************)
EXTENDS Naturals

CONSTANTS Pod,
          Ttl,              \* ttlMs, in ticks
          AllowUnlocked,    \* CRON_LOCK_ALLOW_UNLOCKED
          MaxTokens         \* bound on the tokens ever drawn

ASSUME CronLockAssumption ==
  /\ Ttl \in Nat \ {0}
  /\ AllowUnlocked \in BOOLEAN
  /\ MaxTokens \in Nat

VARIABLES key,      \* the Redis key: its token (0: no key) and its remaining TTL
          pod,      \* what each pod is doing
          drawn     \* the last token drawn: randomBytes never repeats one

lockVars == <<key, pod, drawn>>

NoKey == [token |-> 0, ttl |-> 0]

Idle == [pc |-> "idle", token |-> 0, age |-> 0]

Running(token) == [pc |-> "running", token |-> token, age |-> 0]

LockInit == key = NoKey /\ pod = [p \in Pod |-> Idle] /\ drawn = 0

-----------------------------------------------------------------------------
(* Redis *)

\* SET key token PX ttl NX
SetNx(token) == IF key.token = 0 THEN [token |-> token, ttl |-> Ttl] ELSE key

IsOurs(p) == pod[p].token # 0 /\ key.token = pod[p].token

\* Mutant of Extended: another TTL on top of what is left.
ExtendedByTtl(p) == IF IsOurs(p) THEN [key EXCEPT !.ttl = @ + Ttl] ELSE key

\* EXTEND_IF_OURS
Extended(p) == IF IsOurs(p) THEN [key EXCEPT !.ttl = Ttl] ELSE key

\* Mutant of Released: DEL whoever holds the key.
ReleasedAnyway(p) == NoKey

\* RELEASE_IF_OURS
Released(p) == IF IsOurs(p) THEN NoKey ELSE key

-----------------------------------------------------------------------------
(* A pod *)

\* The lock is free and taken, or the run is skipped.
Acquire(p) ==
  /\ pod[p].pc = "idle" /\ drawn < MaxTokens
  /\ drawn' = drawn + 1
  /\ key' = SetNx(drawn + 1)
  /\ pod' = [pod EXCEPT ![p] = IF key.token = 0 THEN Running(drawn + 1) ELSE Idle]

\* handleRedisUnavailable; the key may have been taken although the answer got lost.
AcquireFails(p) ==
  /\ pod[p].pc = "idle" /\ drawn < MaxTokens
  /\ drawn' = drawn + 1
  /\ key' \in {key, SetNx(drawn + 1)}
  /\ pod' = [pod EXCEPT ![p] = IF AllowUnlocked THEN Running(0) ELSE Idle]

\* The interval's tick; a lease that is lost is logged and the callback goes on.
Extend(p) ==
  /\ pod[p].pc = "running" /\ pod[p].token # 0
  /\ key' = Extended(p)
  /\ pod' = [pod EXCEPT ![p].age = IF IsOurs(p) THEN 0 ELSE @]
  /\ UNCHANGED drawn

\* Redis does not answer: logged, and the callback goes on.
ExtendFails(p) ==
  /\ pod[p].pc = "running" /\ pod[p].token # 0
  /\ key' = Extended(p)
  /\ UNCHANGED <<pod, drawn>>

\* The callback returns or throws; a run without a lock has nothing to release.
Finish(p) ==
  /\ pod[p].pc = "running"
  /\ pod' = [pod EXCEPT ![p] = IF @.token = 0 THEN Idle ELSE [@ EXCEPT !.pc = "releasing"]]
  /\ UNCHANGED <<key, drawn>>

Release(p) ==
  /\ pod[p].pc = "releasing"
  /\ key' = Released(p)
  /\ pod' = [pod EXCEPT ![p] = Idle]
  /\ UNCHANGED drawn

\* The pod dies, or release fails without effect and is logged: the key stays until it expires.
Abandon(p) ==
  /\ pod[p].pc # "idle"
  /\ pod' = [pod EXCEPT ![p] = Idle]
  /\ UNCHANGED <<key, drawn>>

Tick ==
  /\ key' = IF key.ttl <= 1 THEN NoKey ELSE [key EXCEPT !.ttl = @ - 1]
  /\ pod' = [p \in Pod |-> IF pod[p].pc = "idle" \/ pod[p].age >= Ttl THEN pod[p]
                           ELSE [pod[p] EXCEPT !.age = @ + 1]]
  /\ UNCHANGED drawn

LockNext ==
  \/ Tick
  \/ \E p \in Pod : \/ Acquire(p) \/ AcquireFails(p) \/ Extend(p) \/ ExtendFails(p)
                    \/ Finish(p) \/ Release(p) \/ Abandon(p)

LockSpec == LockInit /\ [][LockNext]_lockVars

-----------------------------------------------------------------------------
(***************************************************************************)
(* Every piece of state has its type; the key never outlives its TTL.      *)
(***************************************************************************)
LockTypeOK ==
  /\ key \in [token : Nat, ttl : 0 .. Ttl]
  /\ pod \in [Pod -> [pc : {"idle", "running", "releasing"}, token : Nat, age : 0 .. Ttl]]
  /\ drawn \in Nat

HasLease(p) == pod[p].pc # "idle" /\ pod[p].token # 0 /\ pod[p].age < Ttl

(***************************************************************************)
(* A run that is extended in time is never joined: of the pods that run    *)
(* the callback under the lock, at most one had its lease granted or       *)
(* extended within the TTL, whatever pods with an older lease do when they *)
(* extend or release it late.                                              *)
(***************************************************************************)
LeaseExcludes == \A p, q \in Pod : HasLease(p) /\ HasLease(q) => p = q

(***************************************************************************)
(* The lock together: its state has its types, so no key outlives its TTL, *)
(* and a lease in time excludes the other pods.                            *)
(***************************************************************************)
LeaseSafe == LockTypeOK /\ LeaseExcludes

-----------------------------------------------------------------------------
(***************************************************************************)
(* What LeaseExcludes rests on: a lease in time is the key's, with at      *)
(* least the rest of its TTL to go, and no two pods hold the same token.   *)
(***************************************************************************)
LeaseIsKey ==
  \A p \in Pod : HasLease(p) => key.token = pod[p].token /\ key.ttl >= Ttl - pod[p].age

TokensUnique ==
  /\ key.token <= drawn
  /\ \A p \in Pod : /\ pod[p].token <= drawn
                    /\ pod[p].pc = "idle" => pod[p].token = 0
                    /\ \A q \in Pod : pod[p].token = pod[q].token /\ pod[p].token # 0 => p = q
=============================================================================
