------------------------------ MODULE BioProofs ------------------------------
(***************************************************************************)
(* Proofs about Bio: with a clean log at boot the reference counts count,  *)
(* so a buffer is never recycled under its user or while it is pinned, and *)
(* every bread() returns what was written last.                            *)
(***************************************************************************)
EXTENDS BioInv, FiniteSetTheorems, TLAPS

(* Leaves go to the SMT solver, unless they name another prover.           *)
USE SMTT(60)

(* A count that stays below 2^32 does not wrap.                            *)
LEMMA NoWrap == ASSUME NEW n \in Nat, n < REFMOD PROVE n % REFMOD = n
  BY BioConstants

(* A count modulo 2^32 is in range.                                        *)
LEMMA InRange == ASSUME NEW n \in Int PROVE n % REFMOD \in 0..(REFMOD - 1)
  BY BioConstants

(* The references to a buffer are finitely many.                           *)
LEMMA RefsFinite ==
  \A i \in Buf : /\ IsFiniteSet(Refs(i)) /\ Cardinality(Refs(i)) \in Nat
                 /\ Cardinality(Refs(i)) <= Cardinality(Proc)
<1> TAKE i \in Buf
<1>1. Refs(i) \subseteq Proc
  BY DEF Refs
<1> QED  BY <1>1, BioConstants, FS_Subset, FS_CardinalityType

LEMMA RefsFiniteNext ==
  \A i \in Buf : /\ IsFiniteSet(Refs(i)') /\ Cardinality(Refs(i)') \in Nat
                 /\ Cardinality(Refs(i)') <= Cardinality(Proc)
<1> TAKE i \in Buf
<1>1. Refs(i)' \subseteq Proc
  BY DEF Refs
<1> QED  BY <1>1, BioConstants, FS_Subset, FS_CardinalityType

(* Moving a buffer to the front keeps the list a list.                     *)
LEMMA ToFrontList ==
  ASSUME TypeOK, ListOK, NEW i \in Buf
  PROVE  /\ ToFront(i) \in [Buf -> Buf]
         /\ \A j, k \in Buf : ToFront(i)[j] = ToFront(i)[k] => j = k
<1>1. NBUF \in Nat /\ 1 <= NBUF
  BY BioConstants
<1>2. \A j \in Buf : pos[j] \in Int /\ 1 <= pos[j] /\ pos[j] <= NBUF
  <2>1. pos \in [Buf -> Buf]
    BY Zenon DEF TypeOK
  <2>2. \A j \in Buf : pos[j] \in Buf
    BY <2>1, Zenon
  <2> QED  BY <1>1, <2>2 DEF Buf
<1>3. \A j \in Buf : ToFront(i)[j] = IF j = i THEN 1 ELSE
                                     IF pos[j] < pos[i] THEN pos[j] + 1 ELSE pos[j]
  BY DEF ToFront
<1>4. \A j \in Buf : ToFront(i)[j] \in Int /\ 1 <= ToFront(i)[j] /\ ToFront(i)[j] <= NBUF
  BY <1>1, <1>2, <1>3
<1>5. \A j \in Buf : ToFront(i)[j] \in Buf
  BY <1>1, <1>4 DEF Buf
<1>6. ToFront(i) \in [Buf -> Buf]
  BY <1>5, Zenon DEF ToFront
<1>7. ASSUME NEW j \in Buf, NEW k \in Buf, ToFront(i)[j] = ToFront(i)[k] PROVE j = k
  <2>1. PICK a \in Int, b \in Int, c \in Int : a = pos[i] /\ b = pos[j] /\ c = pos[k]
    BY <1>2
  <2>2. 1 <= a /\ 1 <= b /\ 1 <= c
    BY <1>2, <2>1
  <2>3. (b = c => j = k) /\ (b = a => j = i) /\ (c = a => k = i)
    BY <2>1 DEF ListOK
  <2>4. /\ ToFront(i)[j] = IF j = i THEN 1 ELSE IF b < a THEN b + 1 ELSE b
        /\ ToFront(i)[k] = IF k = i THEN 1 ELSE IF c < a THEN c + 1 ELSE c
    BY <1>3, <2>1
  <2>5. PICK x \in Int : x = ToFront(i)[j] /\ x = ToFront(i)[k]
    BY <1>4, <1>7
  <2>6. /\ x = IF j = i THEN 1 ELSE IF b < a THEN b + 1 ELSE b
        /\ x = IF k = i THEN 1 ELSE IF c < a THEN c + 1 ELSE c
    BY <2>4, <2>5
  <2> QED  BY <2>2, <2>3, <2>6
<1> QED  BY <1>6, <1>7

(* Every step preserves the types; no buffer leaves the LRU list.        *)
LEMMA TypeStep == BufferInvariant /\ [Next]_vars => TypeOK'
<1> SUFFICES ASSUME BufferInvariant, [Next]_vars PROVE TypeOK'
  OBVIOUS
<1> USE DEF TypeOK
<1>t. TypeOK /\ Wanting /\ BufferNotStolen /\ ListOK
  BY DEF BufferInvariant
<1>1. ASSUME NEW p \in Proc, NEW b \in Block, NEW i \in Buf, bget_cached(p, b, i)
      PROVE  TypeOK'
  <2>1. (refcnt[i] + 1) % REFMOD \in 0..(REFMOD - 1)
    BY <1>t, InRange, BioConstants
  <2> QED  BY <1>1, <1>t, <2>1 DEF bget_cached, Goto, diskVars
<1>2. ASSUME NEW p \in Proc, NEW b \in Block, NEW i \in Buf, bget_recycle(p, b, i)
      PROVE  TypeOK'
  <2>1. 1 \in 0..(REFMOD - 1)
    BY BioConstants
  <2> QED  BY <1>2, <1>t, <2>1 DEF bget_recycle, Goto, Cached, diskVars
<1>3. ASSUME NEW p \in Proc, NEW b \in Block, bget_panic(p, b)
      PROVE  TypeOK'
  BY <1>3, <1>t DEF bget_panic, Goto, bufVars, diskVars
<1>4. ASSUME NEW p \in Proc, NEW v \in Value, log_write(p, v)
      PROVE  TypeOK'
  <2>0. buf[p] \in Buf /\ blockno[buf[p]] \in Block
    BY <1>4, <1>t DEF log_write, Wanting, BufferNotStolen, Using
  <2>1. (refcnt[buf[p]] + 1) % REFMOD \in 0..(REFMOD - 1)
    BY <1>t, <2>0, InRange, BioConstants
  <2> QED  BY <1>4, <1>t, <2>0, <2>1 DEF log_write
<1>5. ASSUME NEW p \in Proc, NEW v \in Value, log_write_absorb(p, v)
      PROVE  TypeOK'
  <2>0. buf[p] \in Buf /\ blockno[buf[p]] \in Block
    BY <1>5, <1>t DEF log_write_absorb, Wanting, BufferNotStolen, Using
  <2> QED  BY <1>5, <1>t, <2>0 DEF log_write_absorb
<1>6. ASSUME NEW p \in Proc, acquiresleep(p)
      PROVE  TypeOK'
  BY <1>6, <1>t DEF acquiresleep, Goto, diskVars
<1>7. ASSUME NEW p \in Proc, bread(p)
      PROVE  TypeOK'
  <2>0. buf[p] \in Buf /\ blockno[buf[p]] \in Block
    BY <1>7, <1>t DEF bread, Goto, diskVars, Wanting, BufferNotStolen, Using
  <2> QED  BY <1>7, <1>t, <2>0 DEF bread, Goto, diskVars
<1>8. ASSUME NEW p \in Proc, install_trans(p)
      PROVE  TypeOK'
  <2>0. buf[p] \in Buf /\ blockno[buf[p]] \in Block
    BY <1>8, <1>t DEF install_trans, Wanting, BufferNotStolen, Using
  <2>1. (refcnt[buf[p]] - 1) % REFMOD \in 0..(REFMOD - 1)
    BY <1>t, <2>0, InRange, BioConstants
  <2> QED  BY <1>8, <1>t, <2>0, <2>1 DEF install_trans
<1>9. ASSUME NEW p \in Proc, releasesleep(p)
      PROVE  TypeOK'
  BY <1>9, <1>t DEF releasesleep, Goto, diskVars
<1>10. ASSUME NEW p \in Proc, brelse(p)
      PROVE  TypeOK'
  <2>0. buf[p] \in Buf
    BY <1>t
  <2>1. ToFront(buf[p]) \in [Buf -> Buf]
    BY <1>t, <2>0, ToFrontList, Zenon
  <2>2. (refcnt[buf[p]] - 1) % REFMOD \in 0..(REFMOD - 1)
    BY <1>t, <2>0, InRange, BioConstants
  <2> QED  BY <1>10, <1>t, <2>1, <2>2 DEF brelse, Goto
<1>11. ASSUME UNCHANGED vars PROVE TypeOK'
  BY <1>11, <1>t DEF vars
<1> QED
  BY <1>1, <1>2, <1>3, <1>4, <1>5, <1>6, <1>7, <1>8, <1>9, <1>10, <1>11 DEF Next

(* The LRU list stays a list.                                              *)
LEMMA ListStep == BufferInvariant /\ [Next]_vars => ListOK'
<1> SUFFICES ASSUME BufferInvariant, [Next]_vars PROVE ListOK'
  OBVIOUS
<1>t. TypeOK /\ ListOK
  BY DEF BufferInvariant
<1>1. ASSUME NEW p \in Proc, NEW b \in Block, NEW i \in Buf, bget_cached(p, b, i)
      PROVE  ListOK'
  BY <1>1, <1>t DEF bget_cached, Goto, diskVars, ListOK
<1>2. ASSUME NEW p \in Proc, NEW b \in Block, NEW i \in Buf, bget_recycle(p, b, i)
      PROVE  ListOK'
  BY <1>2, <1>t DEF bget_recycle, Goto, Cached, diskVars, ListOK
<1>3. ASSUME NEW p \in Proc, NEW b \in Block, bget_panic(p, b)
      PROVE  ListOK'
  BY <1>3, <1>t DEF bget_panic, Goto, bufVars, diskVars, ListOK
<1>4. ASSUME NEW p \in Proc, NEW v \in Value, log_write(p, v)
      PROVE  ListOK'
  BY <1>4, <1>t DEF log_write, ListOK
<1>5. ASSUME NEW p \in Proc, NEW v \in Value, log_write_absorb(p, v)
      PROVE  ListOK'
  BY <1>5, <1>t DEF log_write_absorb, ListOK
<1>6. ASSUME NEW p \in Proc, acquiresleep(p)
      PROVE  ListOK'
  BY <1>6, <1>t DEF acquiresleep, Goto, diskVars, ListOK
<1>7. ASSUME NEW p \in Proc, bread(p)
      PROVE  ListOK'
  BY <1>7, <1>t DEF bread, Goto, diskVars, ListOK
<1>8. ASSUME NEW p \in Proc, install_trans(p)
      PROVE  ListOK'
  BY <1>8, <1>t DEF install_trans, ListOK
<1>9. ASSUME NEW p \in Proc, releasesleep(p)
      PROVE  ListOK'
  BY <1>9, <1>t DEF releasesleep, Goto, diskVars, ListOK
<1>10. ASSUME NEW p \in Proc, brelse(p)
      PROVE  ListOK'
  <2>1. \A j, k \in Buf : ToFront(buf[p])[j] = ToFront(buf[p])[k] => j = k
    <3>1. buf[p] \in Buf
      BY <1>t DEF TypeOK
    <3> QED  BY <1>t, <3>1, ToFrontList, Zenon
  <2>2. pos' = pos \/ pos' = ToFront(buf[p])
    BY <1>10 DEF brelse
  <2> QED  BY <1>t, <2>1, <2>2 DEF ListOK
<1>11. ASSUME UNCHANGED vars PROVE ListOK'
  BY <1>11, <1>t DEF vars, ListOK
<1> QED
  BY <1>1, <1>2, <1>3, <1>4, <1>5, <1>6, <1>7, <1>8, <1>9, <1>10, <1>11 DEF Next

(* No step recycles a buffer in use, caches a block twice or gives a lock  *)
(* away.                                                                   *)
LEMMA UseStep == BufferInvariant /\ [Next]_vars => (recovering = {} /\ Wanting /\ OneCopy /\ BufferNotStolen /\ Locks)'
<1> SUFFICES ASSUME BufferInvariant, [Next]_vars PROVE (recovering = {} /\ Wanting /\ OneCopy /\ BufferNotStolen /\ Locks)'
  OBVIOUS
<1> USE DEF TypeOK
<1>t. /\ TypeOK /\ recovering = {} /\ Wanting /\ OneCopy /\ BufferNotStolen
      /\ RefCounts /\ Locks
  BY DEF BufferInvariant
<1>1. ASSUME NEW p \in Proc, NEW b \in Block, NEW i \in Buf, bget_cached(p, b, i)
      PROVE  (recovering = {} /\ Wanting /\ OneCopy /\ BufferNotStolen /\ Locks)'
  BY <1>1, <1>t DEF bget_cached, Goto, diskVars, Wanting, OneCopy, BufferNotStolen, Locks, Using, Locked
<1>2. ASSUME NEW p \in Proc, NEW b \in Block, NEW i \in Buf, bget_recycle(p, b, i)
      PROVE  (recovering = {} /\ Wanting /\ OneCopy /\ BufferNotStolen /\ Locks)'
  <2>1. \A q \in Proc : Using(q) => buf[q] # i
    <3>1. Cardinality(Refs(i)) = 0 /\ blockno[i] \notin logged
      BY <1>t, <1>2, RefsFinite DEF bget_recycle, RefCounts
    <3>2. Refs(i) = {}
      BY <3>1, RefsFinite, FS_EmptySet
    <3> QED  BY <3>2 DEF Refs
  <2> QED
    BY <1>2, <1>t, <2>1, BioConstants DEF bget_recycle, Goto, Cached, diskVars, Wanting, OneCopy, BufferNotStolen, Locks, Using, Locked
<1>3. ASSUME NEW p \in Proc, NEW b \in Block, bget_panic(p, b)
      PROVE  (recovering = {} /\ Wanting /\ OneCopy /\ BufferNotStolen /\ Locks)'
  BY <1>3, <1>t DEF bget_panic, Goto, bufVars, diskVars, Wanting, OneCopy, BufferNotStolen, Locks, Using, Locked
<1>4. ASSUME NEW p \in Proc, NEW v \in Value, log_write(p, v)
      PROVE  (recovering = {} /\ Wanting /\ OneCopy /\ BufferNotStolen /\ Locks)'
  BY <1>4, <1>t DEF log_write, Wanting, OneCopy, BufferNotStolen, Locks, Using, Locked
<1>5. ASSUME NEW p \in Proc, NEW v \in Value, log_write_absorb(p, v)
      PROVE  (recovering = {} /\ Wanting /\ OneCopy /\ BufferNotStolen /\ Locks)'
  BY <1>5, <1>t DEF log_write_absorb, Wanting, OneCopy, BufferNotStolen, Locks, Using, Locked
<1>6. ASSUME NEW p \in Proc, acquiresleep(p)
      PROVE  (recovering = {} /\ Wanting /\ OneCopy /\ BufferNotStolen /\ Locks)'
  BY <1>6, <1>t, BioConstants DEF acquiresleep, Goto, diskVars, Wanting, OneCopy, BufferNotStolen, Locks, Using, Locked
<1>7. ASSUME NEW p \in Proc, bread(p)
      PROVE  (recovering = {} /\ Wanting /\ OneCopy /\ BufferNotStolen /\ Locks)'
  BY <1>7, <1>t DEF bread, Goto, diskVars, Wanting, OneCopy, BufferNotStolen, Locks, Using, Locked
<1>8. ASSUME NEW p \in Proc, install_trans(p)
      PROVE  (recovering = {} /\ Wanting /\ OneCopy /\ BufferNotStolen /\ Locks)'
  BY <1>8, <1>t DEF install_trans, Wanting, OneCopy, BufferNotStolen, Locks, Using, Locked
<1>9. ASSUME NEW p \in Proc, releasesleep(p)
      PROVE  (recovering = {} /\ Wanting /\ OneCopy /\ BufferNotStolen /\ Locks)'
  BY <1>9, <1>t DEF releasesleep, Goto, diskVars, Wanting, OneCopy, BufferNotStolen, Locks, Using, Locked
<1>10. ASSUME NEW p \in Proc, brelse(p)
      PROVE  (recovering = {} /\ Wanting /\ OneCopy /\ BufferNotStolen /\ Locks)'
  BY <1>10, <1>t DEF brelse, Goto, ToFront, Wanting, OneCopy, BufferNotStolen, Locks, Using, Locked
<1>11. ASSUME UNCHANGED vars PROVE (recovering = {} /\ Wanting /\ OneCopy /\ BufferNotStolen /\ Locks)'
  BY <1>11, <1>t DEF vars, Wanting, OneCopy, BufferNotStolen, Locks, Using, Locked
<1> QED
  BY <1>1, <1>2, <1>3, <1>4, <1>5, <1>6, <1>7, <1>8, <1>9, <1>10, <1>11 DEF Next

(* The reference counts keep counting.                                     *)
LEMMA RefStep == BufferInvariant /\ [Next]_vars => RefCounts'
<1> SUFFICES ASSUME BufferInvariant, [Next]_vars PROVE RefCounts'
  OBVIOUS
<1> USE DEF TypeOK
<1>t. /\ TypeOK /\ RefCounts /\ Wanting /\ OneCopy /\ BufferNotStolen /\ Coherent
  BY DEF BufferInvariant
<1>1. ASSUME NEW p \in Proc, NEW b \in Block, NEW i \in Buf, bget_cached(p, b, i)
      PROVE  RefCounts'
  <2>1. p \notin Refs(i) /\ Refs(i)' = Refs(i) \union {p}
    BY <1>1, <1>t DEF bget_cached, Goto, diskVars, Refs, Using
  <2>2. \A j \in Buf : j # i => Refs(j)' = Refs(j)
    BY <1>1, <1>t DEF bget_cached, Goto, diskVars, Refs, Using
  <2>3. Cardinality(Refs(i)') = Cardinality(Refs(i)) + 1
    BY <2>1, RefsFinite, FS_AddElement, Zenon
  <2>c. Cardinality(Proc) \in Nat /\ Cardinality(Refs(i)) + 1 <= Cardinality(Proc)
    BY <2>3, RefsFiniteNext, FS_CardinalityType, BioConstants
  <2>4. refcnt[i] \in Nat /\ refcnt[i] + 1 < REFMOD
    BY <1>t, <2>3, RefsFinite, <2>c, CleanLog, BioConstants DEF RefCounts
  <2>5. refcnt'[i] = refcnt[i] + 1 /\ blockno' = blockno /\ logged' = logged
    BY <1>1, <1>t, <2>4, NoWrap DEF bget_cached, Goto, diskVars
  <2>6. \A j \in Buf : j # i => refcnt'[j] = refcnt[j]
    BY <1>1, <1>t DEF bget_cached, Goto, diskVars
  <2> QED  BY <1>t, <2>2, <2>3, <2>5, <2>6, RefsFinite DEF RefCounts
<1>2. ASSUME NEW p \in Proc, NEW b \in Block, NEW i \in Buf, bget_recycle(p, b, i)
      PROVE  RefCounts'
  <2>1. \A q \in Proc : Using(q) => buf[q] # i
    <3>1. Cardinality(Refs(i)) = 0 /\ blockno[i] \notin logged
      BY <1>t, <1>2, RefsFinite DEF bget_recycle, RefCounts
    <3>2. Refs(i) = {}
      BY <3>1, RefsFinite, FS_EmptySet
    <3> QED  BY <3>2 DEF Refs
  <2>2. Refs(i)' = {p}
    BY <1>2, <1>t, <2>1 DEF bget_recycle, Goto, Cached, diskVars, Refs, Using
  <2>3. \A j \in Buf : j # i => Refs(j)' = Refs(j)
    BY <1>2, <1>t DEF bget_recycle, Goto, Cached, diskVars, Refs, Using
  <2>4. Cardinality(Refs(i)') = 1
    BY <2>2, FS_Singleton
  <2>5. b \notin logged
    BY <1>2, <1>t DEF bget_recycle, Goto, Cached, diskVars, Coherent
  <2>6. refcnt'[i] = 1 /\ blockno'[i] = b /\ logged' = logged
    BY <1>2, <1>t DEF bget_recycle, Goto, Cached, diskVars
  <2>7. \A j \in Buf : j # i => refcnt'[j] = refcnt[j] /\ blockno'[j] = blockno[j]
    BY <1>2, <1>t DEF bget_recycle, Goto, Cached, diskVars
  <2> QED  BY <1>t, <2>3, <2>4, <2>5, <2>6, <2>7 DEF RefCounts
<1>3. ASSUME NEW p \in Proc, NEW b \in Block, bget_panic(p, b)
      PROVE  RefCounts'
  <2>1. \A j \in Buf : Refs(j)' = Refs(j)
    BY <1>3, <1>t DEF bget_panic, Goto, bufVars, diskVars, Refs, Using
  <2> QED  BY <1>3, <1>t, <2>1 DEF bget_panic, Goto, bufVars, diskVars, RefCounts
<1>4. ASSUME NEW p \in Proc, NEW v \in Value, log_write(p, v)
      PROVE  RefCounts'
  <2>0. buf[p] \in Buf /\ blockno[buf[p]] \in Block
    BY <1>4, <1>t DEF log_write, Wanting, BufferNotStolen, Using
  <2>1. \A j \in Buf : Refs(j)' = Refs(j)
    BY <1>4, <1>t DEF log_write, Refs, Using
  <2>2. refcnt[buf[p]] \in Nat /\ refcnt[buf[p]] + 1 < REFMOD
    BY <1>4, <1>t, <2>0, RefsFinite, FS_CardinalityType, CleanLog, BioConstants DEF RefCounts, log_write
  <2>3. refcnt'[buf[p]] = refcnt[buf[p]] + 1
    BY <1>4, <1>t, <2>0, <2>2, NoWrap DEF log_write
  <2>4. \A j \in Buf : j # buf[p] => refcnt'[j] = refcnt[j] /\ blockno[j] # blockno[buf[p]]
    BY <1>4, <1>t, <2>0, BioConstants, SMTT(30) DEF log_write, OneCopy
  <2>5. /\ blockno' = blockno /\ blockno[buf[p]] \notin logged
        /\ logged' = logged \union {blockno[buf[p]]}
    BY <1>4 DEF log_write
  <2> QED  BY <1>t, <2>0, <2>1, <2>3, <2>4, <2>5, RefsFinite DEF RefCounts
<1>5. ASSUME NEW p \in Proc, NEW v \in Value, log_write_absorb(p, v)
      PROVE  RefCounts'
  <2>1. \A j \in Buf : Refs(j)' = Refs(j)
    BY <1>5, <1>t DEF log_write_absorb, Refs, Using
  <2> QED  BY <1>5, <1>t, <2>1 DEF log_write_absorb, RefCounts
<1>6. ASSUME NEW p \in Proc, acquiresleep(p)
      PROVE  RefCounts'
  <2>1. \A j \in Buf : Refs(j)' = Refs(j)
    BY <1>6, <1>t DEF acquiresleep, Goto, diskVars, Refs, Using
  <2> QED  BY <1>6, <1>t, <2>1 DEF acquiresleep, Goto, diskVars, RefCounts
<1>7. ASSUME NEW p \in Proc, bread(p)
      PROVE  RefCounts'
  <2>1. \A j \in Buf : Refs(j)' = Refs(j)
    BY <1>7, <1>t DEF bread, Goto, diskVars, Refs, Using
  <2> QED  BY <1>7, <1>t, <2>1 DEF bread, Goto, diskVars, RefCounts
<1>8. ASSUME NEW p \in Proc, install_trans(p)
      PROVE  RefCounts'
  <2>0. buf[p] \in Buf /\ blockno[buf[p]] \in Block
    BY <1>8, <1>t DEF install_trans, Wanting, BufferNotStolen, Using
  <2>1. \A j \in Buf : Refs(j)' = Refs(j)
    BY <1>8, <1>t DEF install_trans, Refs, Using
  <2>2. refcnt[buf[p]] \in 0..(REFMOD - 1) /\ refcnt[buf[p]] >= 1
    BY <1>8, <1>t, <2>0, RefsFinite DEF RefCounts, install_trans
  <2>k. PICK n \in Nat : n = refcnt[buf[p]] - 1 /\ n < REFMOD
    BY <2>2, BioConstants
  <2>m. (refcnt[buf[p]] - 1) % REFMOD = refcnt[buf[p]] - 1
    BY <2>k, NoWrap, Zenon
  <2>3. refcnt'[buf[p]] = refcnt[buf[p]] - 1
    BY <1>8, <1>t, <2>0, <2>m DEF install_trans
  <2>4. \A j \in Buf : j # buf[p] => refcnt'[j] = refcnt[j] /\ blockno[j] # blockno[buf[p]]
    BY <1>8, <1>t, <2>0, BioConstants DEF install_trans, OneCopy
  <2>5. /\ blockno' = blockno /\ blockno[buf[p]] \in logged
        /\ logged' = logged \ {blockno[buf[p]]}
    BY <1>8 DEF install_trans
  <2> QED  BY <1>t, <2>0, <2>1, <2>3, <2>4, <2>5, RefsFinite DEF RefCounts
<1>9. ASSUME NEW p \in Proc, releasesleep(p)
      PROVE  RefCounts'
  <2>1. \A j \in Buf : Refs(j)' = Refs(j)
    BY <1>9, <1>t DEF releasesleep, Goto, diskVars, Refs, Using
  <2> QED  BY <1>9, <1>t, <2>1 DEF releasesleep, Goto, diskVars, RefCounts
<1>10. ASSUME NEW p \in Proc, brelse(p)
      PROVE  RefCounts'
  <2> DEFINE i == buf[p]
  <2>0. i \in Buf
    BY <1>t
  <2>1. p \in Refs(i) /\ \A j \in Buf : Refs(j)' = IF j = i THEN Refs(j) \ {p} ELSE Refs(j)
    BY <1>10, <1>t DEF brelse, Goto, ToFront, Refs, Using
  <2>2. PICK k \in Buf : k = i
    BY <2>0
  <2>3. Cardinality(Refs(k)') = Cardinality(Refs(k)) - 1 /\ Cardinality(Refs(k)) >= 1
    BY <2>1, <2>2, RefsFinite, RefsFiniteNext, FS_RemoveElement
  <2>4. refcnt[k] \in Nat /\ refcnt[k] >= 1
    BY <1>t, <2>3, RefsFinite DEF RefCounts
  <2>m. (refcnt[k] - 1) % REFMOD = refcnt[k] - 1
    BY <1>t, <2>2, <2>4, NoWrap, BioConstants
  <2>5. refcnt'[k] = refcnt[k] - 1 /\ blockno' = blockno /\ logged' = logged
    BY <1>10, <1>t, <2>2, <2>m DEF brelse
  <2>6. \A j \in Buf : j # k => refcnt'[j] = refcnt[j] /\ Refs(j)' = Refs(j)
    BY <1>10, <1>t, <2>1, <2>2 DEF brelse
  <2> QED  BY <1>t, <2>3, <2>5, <2>6, RefsFinite DEF RefCounts
<1>11. ASSUME UNCHANGED vars PROVE RefCounts'
  <2>1. \A j \in Buf : Refs(j)' = Refs(j)
    BY <1>11, <1>t DEF vars, Refs, Using
  <2> QED  BY <1>11, <1>t, <2>1 DEF vars, RefCounts
<1> QED
  BY <1>1, <1>2, <1>3, <1>4, <1>5, <1>6, <1>7, <1>8, <1>9, <1>10, <1>11 DEF Next

(* Valid buffers keep the last contents written.                           *)
LEMMA CoherentStep == BufferInvariant /\ [Next]_vars => Coherent'
<1> SUFFICES ASSUME BufferInvariant, [Next]_vars PROVE Coherent'
  OBVIOUS
<1> USE DEF TypeOK
<1>t. /\ TypeOK /\ RefCounts /\ Wanting /\ OneCopy /\ BufferNotStolen /\ Coherent
  BY DEF BufferInvariant
<1>1. ASSUME NEW p \in Proc, NEW b \in Block, NEW i \in Buf, bget_cached(p, b, i)
      PROVE  Coherent'
  BY <1>1, <1>t DEF bget_cached, Goto, diskVars, Coherent, Latest
<1>2. ASSUME NEW p \in Proc, NEW b \in Block, NEW i \in Buf, bget_recycle(p, b, i)
      PROVE  Coherent'
  <2>1. \A q \in Proc : Using(q) => buf[q] # i
    <3>1. Cardinality(Refs(i)) = 0 /\ blockno[i] \notin logged
      BY <1>t, <1>2, RefsFinite DEF bget_recycle, RefCounts
    <3>2. Refs(i) = {}
      BY <3>1, RefsFinite, FS_EmptySet
    <3> QED  BY <3>2 DEF Refs
  <2>2. blockno[i] \notin logged
    BY <1>t, <1>2, RefsFinite DEF bget_recycle, RefCounts
  <2> QED  BY <1>2, <1>t, <2>1, <2>2 DEF bget_recycle, Goto, Cached, diskVars, Coherent, Latest, Using
<1>3. ASSUME NEW p \in Proc, NEW b \in Block, bget_panic(p, b)
      PROVE  Coherent'
  BY <1>3, <1>t DEF bget_panic, Goto, bufVars, diskVars, Coherent, Latest
<1>4. ASSUME NEW p \in Proc, NEW v \in Value, log_write(p, v)
      PROVE  Coherent'
  <2>0. buf[p] \in Buf /\ blockno[buf[p]] \in Block /\ blockno[buf[p]] # NoBlock
    BY <1>4, <1>t, BioConstants DEF log_write, Wanting, BufferNotStolen, Using
  <2>1. \A j \in Buf : j # buf[p] => blockno[j] # blockno[buf[p]]
    BY <1>t, <2>0 DEF OneCopy
  <2> QED  BY <1>4, <1>t, <2>0, <2>1 DEF log_write, Coherent, Latest
<1>5. ASSUME NEW p \in Proc, NEW v \in Value, log_write_absorb(p, v)
      PROVE  Coherent'
  <2>0. buf[p] \in Buf /\ blockno[buf[p]] \in Block /\ blockno[buf[p]] # NoBlock
    BY <1>5, <1>t, BioConstants DEF log_write_absorb, Wanting, BufferNotStolen, Using
  <2>1. \A j \in Buf : j # buf[p] => blockno[j] # blockno[buf[p]]
    BY <1>t, <2>0 DEF OneCopy
  <2> QED  BY <1>5, <1>t, <2>0, <2>1 DEF log_write_absorb, Coherent, Latest
<1>6. ASSUME NEW p \in Proc, acquiresleep(p)
      PROVE  Coherent'
  BY <1>6, <1>t DEF acquiresleep, Goto, diskVars, Coherent, Latest
<1>7. ASSUME NEW p \in Proc, bread(p)
      PROVE  Coherent'
  <2>0. buf[p] \in Buf /\ blockno[buf[p]] \in Block /\ blockno[buf[p]] # NoBlock
    BY <1>7, <1>t, BioConstants DEF bread, Goto, diskVars, Wanting, BufferNotStolen, Using
  <2>1. valid[buf[p]] = 0 => blockno[buf[p]] \notin logged
    BY <1>t, <2>0 DEF Coherent, OneCopy
  <2> QED  BY <1>7, <1>t, <2>0, <2>1 DEF bread, Goto, diskVars, Coherent, Latest
<1>8. ASSUME NEW p \in Proc, install_trans(p)
      PROVE  Coherent'
  <2>0. buf[p] \in Buf /\ blockno[buf[p]] \in Block /\ blockno[buf[p]] # NoBlock
    BY <1>8, <1>t, BioConstants DEF install_trans, Wanting, BufferNotStolen, Using
  <2>1. \A j \in Buf : j # buf[p] => blockno[j] # blockno[buf[p]]
    BY <1>t, <2>0 DEF OneCopy
  <2> QED  BY <1>8, <1>t, <2>0, <2>1 DEF install_trans, Coherent, Latest
<1>9. ASSUME NEW p \in Proc, releasesleep(p)
      PROVE  Coherent'
  BY <1>9, <1>t DEF releasesleep, Goto, diskVars, Coherent, Latest
<1>10. ASSUME NEW p \in Proc, brelse(p)
      PROVE  Coherent'
  BY <1>10, <1>t DEF brelse, Goto, ToFront, Coherent, Latest
<1>11. ASSUME UNCHANGED vars PROVE Coherent'
  BY <1>11, <1>t DEF vars, Coherent, Latest
<1> QED
  BY <1>1, <1>2, <1>3, <1>4, <1>5, <1>6, <1>7, <1>8, <1>9, <1>10, <1>11 DEF Next

(* The invariant holds at boot with a clean log.                           *)
LEMMA InitBuffers == Init => BufferInvariant
<1> SUFFICES ASSUME Init PROVE BufferInvariant
  OBVIOUS
<1> USE DEF Init
<1>1. TypeOK
  BY BioConstants, CleanLog DEF TypeOK, Buf
<1>2. ListOK
  BY BioConstants DEF ListOK, Buf
<1>3. \A i \in Buf : Refs(i) = {}
  BY DEF Refs, Using
<1>4. RefCounts
  <2>1. Cardinality({}) = 0 /\ logged = {}
    BY FS_EmptySet, CleanLog
  <2> QED  BY <1>3, <2>1, SMTT(30) DEF RefCounts
<1>5. recovering = {} /\ Wanting /\ OneCopy /\ BufferNotStolen /\ Locks /\ Coherent
  BY CleanLog DEF Wanting, OneCopy, BufferNotStolen, Locks, Coherent, Using, Locked
<1> QED  BY <1>1, <1>2, <1>4, <1>5 DEF BufferInvariant

(* With a clean log at boot the buffer cache keeps its invariant, for any  *)
(* number of processes, buffers and blocks.                                *)
THEOREM BufferInvariance == Spec => []BufferInvariant
<1>1. BufferInvariant /\ [Next]_vars => BufferInvariant'
  BY TypeStep, ListStep, UseStep, RefStep, CoherentStep DEF BufferInvariant
<1> QED  BY <1>1, InitBuffers, PTL DEF Spec

(* bget() never recycles a buffer that is in use.                          *)
THEOREM NeverStolen == Spec => []BufferNotStolen
<1>1. BufferInvariant => BufferNotStolen
  BY DEF BufferInvariant
<1> QED  BY <1>1, BufferInvariance, PTL

(* "Only one process at a time can use a buffer" (bio.c), and a block has  *)
(* only one buffer.                                                        *)
THEOREM UsersExclusive == Spec => []OneUser
<1>1. BufferInvariant => OneUser
  BY BioConstants DEF BufferInvariant, TypeOK, OneUser, OneCopy, BufferNotStolen, Locks, Wanting, Using, Locked
<1> QED  BY <1>1, BufferInvariance, PTL

(* bread() returns the last contents written to the block, however often   *)
(* its buffer was recycled in between.                                     *)
THEOREM ReadsAreCurrent == Spec => []ReadsLatest
<1>1. BufferInvariant => ReadsLatest
  BY DEF BufferInvariant, TypeOK, ReadsLatest, Coherent, BufferNotStolen, Using
<1> QED  BY <1>1, BufferInvariance, PTL
=============================================================================
