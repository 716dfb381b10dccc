---------------------------- MODULE ConnPoolProofs ----------------------------
(***************************************************************************)
(* Proofs about ConnPool, for every number of queries and connections and  *)
(* every capacity of the pool.                                             *)
(***************************************************************************)
EXTENDS ConnPool, FiniteSetTheorems, TLAPS

(***************************************************************************)
(* A query outside the exchange holds nothing, and one that puts back      *)
(* holds a connection.  The pool is finite, which its cardinality needs.   *)
(***************************************************************************)
HoldsInUse ==
    \A q \in Queries : /\ qpc[q] \in {"idle", "get"} => conn[q] = Nil
                       /\ qpc[q] = "put" => conn[q] # Nil

PoolInv == PoolTypeOK /\ OneOwner /\ HoldsInUse /\ IsFiniteSet(pool)

LEMMA PoolInitInv == PoolInit => PoolInv
<1>1. IsFiniteSet({}) /\ Cardinality({}) = 0
  BY FS_EmptySet
<1>2. Cardinality({}) <= PoolCap
  BY <1>1, ConnPoolAssumption
<1>3. ASSUME PoolInit PROVE PoolTypeOK /\ OneOwner /\ HoldsInUse
  BY <1>2, <1>3 DEF PoolInit, PoolTypeOK, OneOwner, HoldsInUse
<1>4. ASSUME PoolInit PROVE IsFiniteSet(pool)
  BY <1>1, <1>4 DEF PoolInit
<1>5. QED
  BY <1>3, <1>4 DEF PoolInv

\* What taking a connection out of the pool does to its size.
LEMMA PoolShrinks ==
    ASSUME PoolInv, NEW c \in pool, pool' = pool \ {c}
    PROVE  IsFiniteSet(pool') /\ pool' \subseteq Conns /\ Cardinality(pool') <= PoolCap
<1>1. Cardinality(pool') = Cardinality(pool) - 1 /\ IsFiniteSet(pool')
  BY FS_RemoveElement DEF PoolInv
<1>2. Cardinality(pool) \in Nat
  BY FS_CardinalityType DEF PoolInv
<1>3. QED
  BY <1>1, <1>2, ConnPoolAssumption DEF PoolInv, PoolTypeOK

LEMMA PoolGrows ==
    ASSUME PoolInv, NEW c \in Conns, c \notin pool, Room, pool' = pool \cup {c}
    PROVE  IsFiniteSet(pool') /\ pool' \subseteq Conns /\ Cardinality(pool') <= PoolCap
<1>1. Cardinality(pool') = Cardinality(pool) + 1 /\ IsFiniteSet(pool')
  BY FS_AddElement DEF PoolInv
<1>2. Cardinality(pool) \in Nat
  BY FS_CardinalityType DEF PoolInv
<1>3. QED
  BY <1>1, <1>2, ConnPoolAssumption DEF PoolInv, PoolTypeOK, Room

LEMMA PoolNextInv == PoolInv /\ [PoolNext]_poolVars => PoolInv'
<1> SUFFICES ASSUME PoolInv, [PoolNext]_poolVars
             PROVE  PoolInv'
  OBVIOUS
<1> USE DEF At, Goto, Hold, Leave, Panic
<1>nil. Nil \notin Conns
  BY ConnPoolAssumption
<1>1. ASSUME NEW q \in Queries,
             Enter(q) \/ NilFromClosed(q) \/ DialFails(q) \/ UseNil(q) \/ Keep(q)
               \/ SendOnClosed(q)
      PROVE  PoolInv'
  <2>1. UNCHANGED <<pool, open, closed, chanOpen, closer>>
    BY <1>1 DEF Enter, NilFromClosed, DialFails, UseNil, Keep, SendOnClosed
  <2>2. conn' = conn \/ conn' = [conn EXCEPT ![q] = Nil]
    BY <1>1 DEF Enter, NilFromClosed, DialFails, UseNil, Keep, SendOnClosed
  <2>3. qpc' \in [Queries -> {"idle", "get", "use", "put", "panic"}] /\ HoldsInUse'
    BY <1>1 DEF Enter, NilFromClosed, DialFails, UseNil, Keep, SendOnClosed,
       PoolInv, PoolTypeOK, HoldsInUse
  <2>4. PoolTypeOK' /\ IsFiniteSet(pool)'
    BY <2>1, <2>2, <2>3 DEF PoolInv, PoolTypeOK
  <2>5. OneOwner'
    BY <2>1, <2>2 DEF PoolInv, PoolTypeOK, OneOwner
  <2>6. QED
    BY <2>3, <2>4, <2>5 DEF PoolInv
<1>2. ASSUME NEW q \in Queries, FromPool(q)
      PROVE  PoolInv'
  <2>1. PICK c \in pool : pool' = pool \ {c} /\ conn' = [conn EXCEPT ![q] = c]
    BY <1>2 DEF FromPool
  <2>2. c \in Conns /\ c \in open /\ \A r \in Queries : conn[r] # c
    BY <1>nil DEF PoolInv, PoolTypeOK, OneOwner
  <2>3. PoolTypeOK' /\ IsFiniteSet(pool)'
    BY <1>2, <2>1, <2>2, PoolShrinks DEF FromPool, PoolInv, PoolTypeOK
  <2>4. OneOwner'
    BY <1>2, <2>1, <2>2, <1>nil DEF FromPool, PoolInv, PoolTypeOK, OneOwner
  <2>5. HoldsInUse'
    BY <1>2, <2>1, <2>2 DEF FromPool, PoolInv, PoolTypeOK, HoldsInUse
  <2>6. QED
    BY <2>3, <2>4, <2>5 DEF PoolInv
<1>3. ASSUME NEW q \in Queries, Dial(q)
      PROVE  PoolInv'
  <2>1. PICK c \in Conns \ open :
          open' = open \cup {c} /\ conn' = [conn EXCEPT ![q] = c]
    BY <1>3 DEF Dial
  <2>2. c \notin pool /\ \A r \in Queries : conn[r] # c
    BY <2>1, <1>nil DEF PoolInv, OneOwner
  <2>3. PoolTypeOK' /\ IsFiniteSet(pool)'
    BY <1>3, <2>1 DEF Dial, PoolInv, PoolTypeOK
  <2>4. OneOwner'
    BY <1>3, <2>1, <2>2 DEF Dial, PoolInv, PoolTypeOK, OneOwner
  <2>5. HoldsInUse'
    BY <1>3, <2>1 DEF Dial, PoolInv, PoolTypeOK, HoldsInUse
  <2>6. QED
    BY <2>3, <2>4, <2>5 DEF PoolInv
<1>4. ASSUME NEW q \in Queries, Discard(q) \/ Overflow(q)
      PROVE  PoolInv'
  <2>1. /\ open' = open \ {conn[q]} /\ conn' = [conn EXCEPT ![q] = Nil]
        /\ qpc' = [qpc EXCEPT ![q] = "idle"]
        /\ UNCHANGED <<closed, chanOpen, pool, closer>> /\ conn[q] # Nil
    BY <1>4 DEF Discard, Overflow, PoolInv, HoldsInUse
  <2>2. PoolTypeOK' /\ IsFiniteSet(pool)'
    BY <2>1 DEF PoolInv, PoolTypeOK
  <2>3. OneOwner'
    BY <2>1 DEF PoolInv, PoolTypeOK, OneOwner
  <2>4. HoldsInUse'
    BY <2>1 DEF PoolInv, PoolTypeOK, HoldsInUse
  <2>5. QED
    BY <2>2, <2>3, <2>4 DEF PoolInv
<1>5. ASSUME NEW q \in Queries, ToPool(q)
      PROVE  PoolInv'
  <2>1. /\ conn[q] \in Conns /\ conn[q] \in open /\ conn[q] \notin pool
        /\ \A r \in Queries : r # q => conn[r] # conn[q]
    BY <1>5 DEF ToPool, PoolInv, PoolTypeOK, OneOwner, HoldsInUse
  <2>2. PoolTypeOK' /\ IsFiniteSet(pool)'
    BY <1>5, <2>1, PoolGrows DEF ToPool, PoolInv, PoolTypeOK
  <2>3. OneOwner'
    BY <1>5, <2>1, <1>nil DEF ToPool, PoolInv, PoolTypeOK, OneOwner
  <2>4. HoldsInUse'
    BY <1>5 DEF ToPool, PoolInv, PoolTypeOK, HoldsInUse
  <2>5. QED
    BY <2>2, <2>3, <2>4 DEF PoolInv
<1>6. ASSUME SetClosed \/ CloseChannel \/ CloseReturns
      PROVE  PoolInv'
  <2>1. UNCHANGED <<pool, open, qpc, conn>>
    BY <1>6 DEF SetClosed, CloseChannel, CloseReturns
  <2>2. /\ closed' \in BOOLEAN /\ chanOpen' \in BOOLEAN
        /\ closer' \in {"none", "flagged", "draining", "done"}
    BY <1>6 DEF SetClosed, CloseChannel, CloseReturns, PoolInv, PoolTypeOK
  <2>3. PoolTypeOK' /\ IsFiniteSet(pool)'
    BY <2>1, <2>2 DEF PoolInv, PoolTypeOK
  <2>4. OneOwner' /\ HoldsInUse'
    BY <2>1 DEF PoolInv, OneOwner, HoldsInUse
  <2>5. QED
    BY <2>3, <2>4 DEF PoolInv
<1>7. ASSUME Drain
      PROVE  PoolInv'
  <2>1. PICK c \in pool : pool' = pool \ {c} /\ open' = open \ {c}
    BY <1>7 DEF Drain
  <2>2. PoolTypeOK' /\ IsFiniteSet(pool)'
    BY <1>7, <2>1, PoolShrinks DEF Drain, PoolInv, PoolTypeOK
  <2>3. OneOwner'
    BY <1>7, <2>1 DEF Drain, PoolInv, PoolTypeOK, OneOwner
  <2>4. HoldsInUse'
    BY <1>7 DEF Drain, PoolInv, HoldsInUse
  <2>5. QED
    BY <2>2, <2>3, <2>4 DEF PoolInv
<1>8. ASSUME UNCHANGED poolVars
      PROVE  PoolInv'
  BY <1>8 DEF poolVars, PoolInv, PoolTypeOK, OneOwner, HoldsInUse
<1>9. QED
  BY <1>1, <1>2, <1>3, <1>4, <1>5, <1>6, <1>7, <1>8 DEF PoolNext, QueryStep, CloseStep

(***************************************************************************)
(* Whatever Close interleaves with, a connection in use or pooled is open  *)
(* and has one owner, and the pool stays within its capacity.              *)
(***************************************************************************)
THEOREM ConnsHaveOneOwner == PoolSpec => [](PoolTypeOK /\ OneOwner)
<1>1. PoolInv => PoolTypeOK /\ OneOwner
  BY DEF PoolInv
<1>2. QED
  BY PoolInitInv, PoolNextInv, <1>1, PTL DEF PoolSpec
=============================================================================
