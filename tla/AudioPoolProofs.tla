--------------------------- MODULE AudioPoolProofs --------------------------
(***************************************************************************)
(* What holds of AudioPool for any number of takes, streams and slots.     *)
(***************************************************************************)
EXTENDS AudioPool, FiniteSetTheorems, TLAPS

Using(t) == pc[t] \in {"recording", "stopped", "stop failed"}

\* init_lock is held by the one thread that opens streams or starts one.
LockInv ==
    /\ \A p \in Threads :
        pc[p] \in {"opening", "start"} => initLock = p /\ ~closed
    /\ \A p \in Threads : pc[p] = "opening" => slots = {}
    /\ opening # {} => initLock \in Threads /\ pc[initLock] = "opening"
    /\ IsFiniteSet(opening)
    /\ \A p \in {Main, Recovery, Prewarm} :
        pc[p] # "start" /\ pc[p] # "dropping"

\* Every open stream is in one place, and only open streams are in any.
StreamInv ==
    /\ slots \cup opening \subseteq open
    /\ slots \cap opening = {}
    /\ stale \subseteq slots \cup opening
    /\ \A p \in Threads :
        /\ detached[p] \subseteq open
        /\ detached[p] \cap (slots \cup opening) = {}
        /\ pc[p] \notin {"closing", "dropping"} => detached[p] = {}
        /\ \A q \in Threads : q # p => detached[p] \cap detached[q] = {}

\* Until the pool is closed, the busy slots are those of the takes.
BusyInv ==
    /\ busy \subseteq slots
    /\ \A s \in busy : \E t \in Takes : slotOf[t] = s
    /\ \A t \in Takes :
        /\ ~Using(t) => slotOf[t] = None
        /\ Using(t) => slotOf[t] \in Streams
        /\ Using(t) /\ ~closed => slotOf[t] \in busy
        /\ \A u \in Takes : u # t /\ slotOf[t] # None => slotOf[u] # slotOf[t]

\* A deferred recovery has a take to run it, and a closed pool stays empty.
RecoveryInv ==
    /\ pending => busy # {}
    /\ closed => slots = {} /\ opening = {}
    /\ closed <=> pc[Main] \in {"closing", "gone"}
    /\ stale # {} /\ ~RecoveryClosed =>
        notified \/ pc[Recovery] = "invalidate" \/ pending

IInv ==
    /\ TypeOK /\ LockInv /\ StreamInv /\ BusyInv /\ RecoveryInv
    /\ EveryStreamHasAnOwner

-----------------------------------------------------------------------------
(* One lemma per action.                                                   *)

\* The initial state: nothing is open and nobody waits.
LEMMA PoolInit == Init => IInv
  <1> SUFFICES ASSUME Init PROVE IInv
    OBVIOUS
  <1> USE PoolAssumption DEF Init
  <1>0. Cardinality({}) = 0 /\ 0 <= Size
    BY FS_EmptySet
  <1>z. Cardinality(slots) = 0 /\ Cardinality(opening) <= Size
    BY <1>0
  <1>1. TypeOK
    BY <1>z DEF TypeOK, Places, Threads
  <1>2. LockInv
    BY FS_EmptySet DEF LockInv, Threads
  <1>3. StreamInv
    BY DEF StreamInv
  <1>4. BusyInv
    BY DEF BusyInv, Using, Threads
  <1>5. RecoveryInv
    BY DEF RecoveryInv, RecoveryClosed, Threads
  <1>6. EveryStreamHasAnOwner
    BY DEF EveryStreamHasAnOwner
  <1> QED
    BY <1>1, <1>2, <1>3, <1>4, <1>5, <1>6 DEF IInv

\* Warming, or finding the pool warm or closed, moves only the thread and the lock.
LEMMA BeginWarmKeeps ==
  ASSUME IInv, NEW p \in Threads, BeginWarm(p)
  PROVE  IInv'
  <1> USE PoolAssumption DEF IInv, Goes
  <1>u. \A u \in Takes : Using(u)' <=> Using(u)
    BY DEF Using, TypeOK, Threads, BeginWarm, Warmed, NotWarmed
  <1>1. TypeOK'
    BY <1>u DEF TypeOK, Places, Threads, BeginWarm, Warmed, NotWarmed, poolVars
  <1>2. LockInv'
    BY <1>u DEF TypeOK, LockInv, LockFree, Threads, BeginWarm, Warmed,
       NotWarmed, poolVars
  <1>3. StreamInv'
    BY <1>u, <1>1 DEF TypeOK, LockInv, StreamInv, LockFree, Threads,
       BeginWarm, Warmed, NotWarmed, poolVars
  <1>4. BusyInv'
    BY <1>u, <1>1 DEF TypeOK, LockInv, BusyInv, RecoveryInv, Threads,
       BeginWarm, Warmed, NotWarmed, poolVars
  <1>5. RecoveryInv'
    BY <1>u, <1>1 DEF TypeOK, LockInv, StreamInv, BusyInv, RecoveryInv,
       RecoveryClosed, LockFree,
       Threads, BeginWarm, Warmed, NotWarmed, poolVars
  <1>6. EveryStreamHasAnOwner'
    BY <1>u, <1>1, <1>5 DEF TypeOK, LockInv, StreamInv, RecoveryInv,
       EveryStreamHasAnOwner, LockFree, Threads, BeginWarm, Warmed, NotWarmed,
       poolVars
  <1> QED
    BY <1>1, <1>2, <1>3, <1>4, <1>5, <1>6 DEF IInv

\* A stream that is opened belongs to the thread that opens it.
LEMMA OpenSlotKeeps ==
  ASSUME IInv, NEW p \in Threads, OpenSlot(p)
  PROVE  IInv'
  <1> USE PoolAssumption DEF IInv, Goes
  <1>0. /\ FreeStream \in Streams /\ FreeStream \notin open
        /\ \A u \in Takes : slotOf[u] # FreeStream
    BY DEF OpenSlot, FreeStream
  <1>a. /\ IsFiniteSet(opening')
        /\ Cardinality(opening') = Cardinality(opening) + 1
    BY <1>0, FS_AddElement DEF OpenSlot, LockInv, StreamInv
  <1>b. Cardinality(opening') \in Nat /\ Cardinality(opening') <= Size
    BY <1>a, FS_CardinalityType, PoolAssumption DEF OpenSlot, LockInv
  <1>1. TypeOK'
    BY <1>0, <1>a, <1>b, FS_EmptySet DEF TypeOK, Places, Threads, OpenSlot,
       poolVars
  <1>2. LockInv'
    BY <1>0, <1>a, <1>b, FS_EmptySet DEF TypeOK, LockInv, LockFree, Threads,
       OpenSlot, poolVars
  <1>3. StreamInv'
    BY <1>0, <1>a, <1>b, <1>1 DEF TypeOK, LockInv, StreamInv, LockFree,
       Threads, OpenSlot, poolVars
  <1>4. BusyInv'
    BY <1>0, <1>a, <1>b, <1>1 DEF TypeOK, LockInv, BusyInv, RecoveryInv,
       Using, Threads, OpenSlot, poolVars
  <1>5. RecoveryInv'
    BY <1>0, <1>a, <1>b, <1>1 DEF TypeOK, LockInv, StreamInv, BusyInv,
       RecoveryInv, RecoveryClosed, LockFree,
       Threads, OpenSlot, poolVars
  <1>6. EveryStreamHasAnOwner'
    BY <1>0, <1>a, <1>b, <1>1, <1>5 DEF TypeOK, LockInv, StreamInv,
       RecoveryInv,
       EveryStreamHasAnOwner, LockFree, Threads, OpenSlot, poolVars
  <1> QED
    BY <1>1, <1>2, <1>3, <1>4, <1>5, <1>6 DEF IInv

\* A failure leaves none of the thread's streams open.
LEMMA OpenFailsKeeps ==
  ASSUME IInv, NEW p \in Threads, OpenFails(p)
  PROVE  IInv'
  <1> USE PoolAssumption DEF IInv, Goes
  <1>z. Cardinality({}) = 0 /\ 0 <= Size
    BY FS_EmptySet
  <1>0. Cardinality(slots') \in {0, Size} /\ Cardinality(opening') <= Size
    BY <1>z DEF TypeOK, OpenFails
  <1>1. TypeOK'
    BY <1>0 DEF TypeOK, Places, Threads, OpenFails, NotWarmed
  <1>2. LockInv'
    BY <1>0, FS_EmptySet DEF TypeOK, LockInv, LockFree, Threads, OpenFails,
       NotWarmed
  <1>3. StreamInv'
    BY <1>0, <1>1 DEF TypeOK, LockInv, StreamInv, LockFree, Threads,
       OpenFails, NotWarmed
  <1>4. BusyInv'
    BY <1>0, <1>1 DEF TypeOK, LockInv, BusyInv, RecoveryInv, Using, Threads,
       OpenFails, NotWarmed
  <1>5. RecoveryInv'
    BY <1>0, <1>1 DEF TypeOK, LockInv, StreamInv, BusyInv, RecoveryInv,
       RecoveryClosed, LockFree,
       Threads, OpenFails, NotWarmed
  <1>6. EveryStreamHasAnOwner'
    BY <1>0, <1>1, <1>5 DEF TypeOK, LockInv, StreamInv, RecoveryInv,
       EveryStreamHasAnOwner, LockFree, Threads, OpenFails, NotWarmed
  <1> QED
    BY <1>1, <1>2, <1>3, <1>4, <1>5, <1>6 DEF IInv

\* The opened streams become the slots.
LEMMA InstallKeeps ==
  ASSUME IInv, NEW p \in Threads, Install(p)
  PROVE  IInv'
  <1> USE PoolAssumption DEF IInv, Goes
  <1>z. Cardinality({}) = 0 /\ 0 <= Size
    BY FS_EmptySet
  <1>0. Cardinality(slots') \in {0, Size} /\ Cardinality(opening') <= Size
    BY <1>z DEF TypeOK, Install
  <1>1. TypeOK'
    BY <1>0 DEF TypeOK, Places, Threads, Install, Warmed
  <1>2. LockInv'
    BY <1>0, FS_EmptySet DEF TypeOK, LockInv, LockFree, Threads, Install,
       Warmed
  <1>3. StreamInv'
    BY <1>0, <1>1 DEF TypeOK, LockInv, StreamInv, LockFree, Threads, Install,
       Warmed
  <1>4. BusyInv'
    BY <1>0, <1>1 DEF TypeOK, LockInv, BusyInv, RecoveryInv, Using, Threads,
       Install, Warmed
  <1>5. RecoveryInv'
    BY <1>0, <1>1 DEF TypeOK, LockInv, StreamInv, BusyInv, RecoveryInv,
       RecoveryClosed, LockFree,
       Threads, Install, Warmed
  <1>6. EveryStreamHasAnOwner'
    BY <1>0, <1>1, <1>5 DEF TypeOK, LockInv, StreamInv, RecoveryInv,
       EveryStreamHasAnOwner, LockFree, Threads, Install, Warmed
  <1> QED
    BY <1>1, <1>2, <1>3, <1>4, <1>5, <1>6 DEF IInv

\* A refused take changes nothing.
LEMMA RefuseKeeps ==
  ASSUME IInv, NEW t \in Takes, Refuse(t)
  PROVE  IInv'
  <1> USE PoolAssumption DEF IInv, Goes
  <1>1. TypeOK'
    BY DEF TypeOK, Places, Threads, Refuse, poolVars
  <1>2. LockInv'
    BY DEF TypeOK, LockInv, LockFree, Threads, Refuse, poolVars
  <1>3. StreamInv'
    BY <1>1 DEF TypeOK, LockInv, StreamInv, LockFree, Threads, Refuse, poolVars
  <1>4. BusyInv'
    BY <1>1 DEF TypeOK, LockInv, BusyInv, RecoveryInv, Using, Threads, Refuse,
       poolVars
  <1>5. RecoveryInv'
    BY <1>1 DEF TypeOK, LockInv, StreamInv, BusyInv, RecoveryInv,
       RecoveryClosed, LockFree,
       Threads, Refuse, poolVars
  <1>6. EveryStreamHasAnOwner'
    BY <1>1, <1>5 DEF TypeOK, LockInv, StreamInv, RecoveryInv,
       EveryStreamHasAnOwner, LockFree, Threads, Refuse, poolVars
  <1> QED
    BY <1>1, <1>2, <1>3, <1>4, <1>5, <1>6 DEF IInv

\* A take gets a slot nobody uses.
LEMMA StartSlotKeeps ==
  ASSUME IInv, NEW t \in Takes, StartSlot(t)
  PROVE  IInv'
  <1> USE PoolAssumption DEF IInv, Goes
  <1>0. FreeSlot \in slots /\ FreeSlot \notin busy
    BY DEF StartSlot, FreeSlot
  <1>u. \A u \in Takes : Using(u)' <=> Using(u) \/ u = t
    BY DEF Using, TypeOK, Threads, StartSlot
  <1>x. /\ busy' = busy \cup {FreeSlot} /\ slots' = slots
        /\ slotOf'[t] = FreeSlot
        /\ \A u \in Takes : u # t => slotOf'[u] = slotOf[u]
        /\ slotOf' \in [Takes -> Streams \cup {None}] /\ closed' = closed
        /\ FreeSlot \in Streams /\ None \notin Streams /\ ~closed
    BY <1>0 DEF StartSlot, TypeOK, LockInv, Threads
  <1>1. TypeOK'
    BY <1>0, <1>u, <1>x DEF TypeOK, Places, Threads, StartSlot
  <1>2. LockInv'
    BY <1>0, <1>u, <1>x DEF TypeOK, LockInv, LockFree, Threads, StartSlot
  <1>3. StreamInv'
    BY <1>0, <1>u, <1>x, <1>1 DEF TypeOK, LockInv, StreamInv, LockFree,
       Threads, StartSlot
  <1>4. BusyInv'
    <2> USE PoolAssumption DEF TypeOK
    <2>1. busy' \subseteq slots'
      BY <1>0, <1>x DEF BusyInv
    <2>2. ASSUME NEW s \in busy' PROVE \E u \in Takes : slotOf'[u] = s
      <3>1. CASE s = FreeSlot
        BY <1>x, <3>1
      <3>2. CASE s # FreeSlot
        <4>1. PICK u \in Takes : slotOf[u] = s
          BY <1>x, <2>2, <3>2 DEF BusyInv
        <4>2. slotOf[t] = None
          BY DEF BusyInv, StartSlot, Using
        <4>3. u # t
          BY <1>x, <2>2, <4>1, <4>2
        <4> QED
          BY <1>x, <4>1, <4>3
      <3> QED
        BY <3>1, <3>2
    <2>3. ASSUME NEW u \in Takes
          PROVE  /\ ~Using(u)' => slotOf'[u] = None
                 /\ Using(u)' => slotOf'[u] \in Streams
                 /\ Using(u)' /\ ~closed' => slotOf'[u] \in busy'
      <3>1. CASE u = t
        BY <1>u, <1>x, <3>1
      <3>2. CASE u # t
        BY <1>u, <1>x, <3>2 DEF BusyInv
      <3> QED
        BY <3>1, <3>2
    <2>4. ASSUME NEW u \in Takes, NEW v \in Takes, v # u, slotOf'[u] # None
          PROVE  slotOf'[v] # slotOf'[u]
      BY <1>x, <1>0, <2>4 DEF BusyInv
    <2> QED
      BY <2>1, <2>2, <2>3, <2>4 DEF BusyInv
  <1>5. RecoveryInv'
    BY <1>0, <1>u, <1>x, <1>1 DEF TypeOK, LockInv, StreamInv, BusyInv,
       RecoveryInv, RecoveryClosed, LockFree,
       Threads, StartSlot
  <1>6. EveryStreamHasAnOwner'
    BY <1>0, <1>u, <1>x, <1>1, <1>5 DEF TypeOK, LockInv, StreamInv,
       RecoveryInv,
       EveryStreamHasAnOwner, LockFree, Threads, StartSlot
  <1> QED
    BY <1>1, <1>2, <1>3, <1>4, <1>5, <1>6 DEF IInv

\* A slot that does not start makes the pool detach or defer.
LEMMA StartFailsKeeps ==
  ASSUME IInv, NEW t \in Takes, StartFails(t)
  PROVE  IInv'
  <1> USE PoolAssumption DEF IInv, Goes
  <1>1. TypeOK'
    BY FS_EmptySet DEF TypeOK, Places, Threads, StartFails, InvalidateLocked
  <1>2. LockInv'
    BY DEF TypeOK, LockInv, LockFree, Threads, StartFails, InvalidateLocked
  <1>3. StreamInv'
    BY <1>1 DEF TypeOK, LockInv, StreamInv, LockFree, Threads, StartFails,
       InvalidateLocked
  <1>4. BusyInv'
    BY <1>1 DEF TypeOK, LockInv, BusyInv, RecoveryInv, Using, Threads,
       StartFails, InvalidateLocked
  <1>5. RecoveryInv'
    BY <1>1 DEF TypeOK, LockInv, StreamInv, BusyInv, RecoveryInv,
       RecoveryClosed, LockFree,
       Threads, StartFails, InvalidateLocked
  <1>6. EveryStreamHasAnOwner'
    BY <1>1, <1>5 DEF TypeOK, LockInv, StreamInv, RecoveryInv,
       EveryStreamHasAnOwner, LockFree, Threads, StartFails, InvalidateLocked
  <1> QED
    BY <1>1, <1>2, <1>3, <1>4, <1>5, <1>6 DEF IInv

\* A failed acquire closes what it detached.
LEMMA DropKeeps ==
  ASSUME IInv, NEW t \in Takes, Drop(t)
  PROVE  IInv'
  <1> USE PoolAssumption DEF IInv, Goes
  <1>1. TypeOK'
    BY DEF TypeOK, Places, Threads, Drop, CloseSlots, poolVars
  <1>2. LockInv'
    BY DEF TypeOK, LockInv, LockFree, Threads, Drop, CloseSlots, poolVars
  <1>3. StreamInv'
    BY <1>1 DEF TypeOK, LockInv, StreamInv, LockFree, Threads, Drop,
       CloseSlots, poolVars
  <1>4. BusyInv'
    BY <1>1 DEF TypeOK, LockInv, BusyInv, RecoveryInv, Using, Threads, Drop,
       CloseSlots, poolVars
  <1>5. RecoveryInv'
    BY <1>1 DEF TypeOK, LockInv, StreamInv, BusyInv, RecoveryInv,
       RecoveryClosed, LockFree,
       Threads, Drop, CloseSlots, poolVars
  <1>6. EveryStreamHasAnOwner'
    BY <1>1, <1>5 DEF TypeOK, LockInv, StreamInv, RecoveryInv,
       EveryStreamHasAnOwner, LockFree, Threads, Drop, CloseSlots, poolVars
  <1> QED
    BY <1>1, <1>2, <1>3, <1>4, <1>5, <1>6 DEF IInv

\* Stopping leaves the slot busy.
LEMMA StopSlotKeeps ==
  ASSUME IInv, NEW t \in Takes, StopSlot(t)
  PROVE  IInv'
  <1> USE PoolAssumption DEF IInv, Goes
  <1>u. \A u \in Takes : Using(u)' <=> Using(u)
    BY DEF Using, TypeOK, Threads, StopSlot
  <1>v. pc'[Main] = pc[Main] /\ pc'[Recovery] = pc[Recovery]
    BY DEF StopSlot, TypeOK, Threads
  <1>1. TypeOK'
    BY <1>u, <1>v DEF TypeOK, Places, Threads, StopSlot, poolVars
  <1>2. LockInv'
    BY <1>u, <1>v DEF TypeOK, LockInv, LockFree, Threads, StopSlot, poolVars
  <1>3. StreamInv'
    BY ZenonT(60), <1>u, <1>v, <1>1
       DEF TypeOK, LockInv, StreamInv, LockFree, Threads,
       StopSlot, poolVars
  <1>4. BusyInv'
    BY <1>u, <1>v, <1>1 DEF TypeOK, LockInv, BusyInv, RecoveryInv, Threads,
       StopSlot, poolVars
  <1>5. RecoveryInv'
    BY <1>u, <1>v, <1>1 DEF TypeOK, LockInv, StreamInv, BusyInv, RecoveryInv,
       RecoveryClosed, LockFree,
       Threads, StopSlot, poolVars
  <1>6. EveryStreamHasAnOwner'
    BY <1>u, <1>v, <1>1, <1>5 DEF TypeOK, LockInv, StreamInv, RecoveryInv,
       EveryStreamHasAnOwner, LockFree, Threads, StopSlot, poolVars
  <1> QED
    BY <1>1, <1>2, <1>3, <1>4, <1>5, <1>6 DEF IInv

\* A release gives the slot back and runs what was deferred to it.
LEMMA ReleaseKeeps ==
  ASSUME IInv, NEW t \in Takes, Release(t)
  PROVE  IInv'
  <1> USE PoolAssumption DEF IInv, Goes
  <1>u. \A u \in Takes : Using(u)' <=> Using(u) /\ u # t
    BY DEF Using, TypeOK, Threads, Release
  <1>v. pc'[Main] = pc[Main] /\ pc'[Recovery] = pc[Recovery] /\ Using(t)
    BY DEF Release, TypeOK, Threads, Using
  <1>w. /\ \A p \in Threads :
            p # t => detached'[p] = detached[p] /\ pc'[p] = pc[p]
        /\ detached[t] = {}
        /\ \/ /\ slots' = slots /\ stale' = stale /\ detached'[t] = {}
           \/ /\ slots' = {} /\ stale' = {} /\ detached'[t] = slots
              /\ pc'[t] = "closing" /\ busy' = {}
    BY ZenonT(60)
       DEF Release, InvalidateLocked, TypeOK, LockInv, StreamInv, LockFree,
       Threads, Using
  <1>x. /\ busy' = busy \ {slotOf[t]}
        /\ slotOf'[t] = None
        /\ \A u \in Takes : u # t => slotOf'[u] = slotOf[u]
    BY DEF Release, TypeOK, Threads
  <1>1. TypeOK'
    <2>1. /\ busy' \in SUBSET Streams /\ warmError' \in BOOLEAN
          /\ slotOf' \in [Takes -> Streams \cup {None}]
          /\ pc' \in [Threads -> Places] /\ pending' \in BOOLEAN
      BY DEF TypeOK, Places, Threads, Release, InvalidateLocked
    <2>2. /\ slots' \in SUBSET Streams /\ stale' \in SUBSET Streams
          /\ Cardinality(slots') \in {0, Size}
      BY <1>w, FS_EmptySet DEF TypeOK
    <2>3. detached' \in [Threads -> SUBSET Streams]
      BY DEF TypeOK, Threads, Release, InvalidateLocked
    <2>4. UNCHANGED <<closed, initLock, opening, open, notified>>
      BY DEF Release
    <2> QED
      BY <2>1, <2>2, <2>3, <2>4 DEF TypeOK
  <1>2. LockInv'
    BY ZenonT(60), <1>u, <1>v, <1>w, <1>x
       DEF TypeOK, LockInv, LockFree, Threads, Release,
       InvalidateLocked
  <1>3. StreamInv'
    <2>1. open' = open /\ opening' = opening
      BY DEF Release
    <2>2. /\ slots' \cup opening' \subseteq open' /\ slots' \cap opening' = {}
          /\ stale' \subseteq slots' \cup opening'
      <3> opening = {}
        BY <1>w, PoolAssumption DEF Release, LockInv, LockFree
      <3> QED
        BY <1>w, <2>1 DEF StreamInv
    <2>3. ASSUME NEW p \in Threads
          PROVE  /\ detached'[p] \subseteq open'
                 /\ detached'[p] \cap (slots' \cup opening') = {}
                 /\ pc'[p] \notin {"closing", "dropping"} => detached'[p] = {}
      <3> opening = {}
        BY PoolAssumption DEF Release, LockInv, LockFree
      <3>1. CASE p = t
        BY <1>w, <2>1, <3>1 DEF StreamInv
      <3>2. CASE p # t
        BY <1>w, <2>1, <3>2 DEF StreamInv
      <3> QED
        BY <3>1, <3>2
    <2>4. ASSUME NEW p \in Threads, NEW q \in Threads, q # p
          PROVE  detached'[p] \cap detached'[q] = {}
      BY <1>w, <2>4 DEF StreamInv
    <2> QED
      BY <2>2, <2>3, <2>4 DEF StreamInv
  <1>4. BusyInv'
    <2> USE PoolAssumption DEF TypeOK
    <2>1. busy' \subseteq slots'
      BY <1>w, <1>x DEF BusyInv
    <2>2. ASSUME NEW s \in busy' PROVE \E u \in Takes : slotOf'[u] = s
      BY <1>x, <2>2 DEF BusyInv
    <2>3. ASSUME NEW u \in Takes
          PROVE  /\ ~Using(u)' => slotOf'[u] = None
                 /\ Using(u)' => slotOf'[u] \in Streams
                 /\ Using(u)' /\ ~closed' => slotOf'[u] \in busy'
      <3>1. CASE u = t
        BY <1>u, <1>x, <3>1
      <3>2. CASE u # t
        BY ZenonT(60), <1>u, <1>v, <1>x, <3>2 DEF BusyInv, Release
      <3> QED
        BY <3>1, <3>2
    <2>4. ASSUME NEW u \in Takes, NEW v \in Takes, v # u, slotOf'[u] # None
          PROVE  slotOf'[v] # slotOf'[u]
      BY <1>x, <2>4 DEF BusyInv
    <2> QED
      BY <2>1, <2>2, <2>3, <2>4 DEF BusyInv
  <1>5. RecoveryInv'
    BY <1>u, <1>v, <1>w, <1>x, <1>1 DEF TypeOK, LockInv, StreamInv, BusyInv,
       RecoveryInv, RecoveryClosed, LockFree,
       Threads, Release, InvalidateLocked
  <1>6. EveryStreamHasAnOwner'
    BY ZenonT(60), <1>u, <1>v, <1>w, <1>x, <1>1, <1>5
       DEF TypeOK, LockInv, StreamInv,
       RecoveryInv,
       EveryStreamHasAnOwner, LockFree, Threads, Release, InvalidateLocked
  <1> QED
    BY <1>1, <1>2, <1>3, <1>4, <1>5, <1>6 DEF IInv

\* A release closes what it detached and may start a prewarm.
LEMMA RecoveredKeeps ==
  ASSUME IInv, NEW t \in Takes, Recovered(t)
  PROVE  IInv'
  <1> USE PoolAssumption DEF IInv, Goes
  <1>1. TypeOK'
    BY DEF TypeOK, Places, Threads, Recovered, WarmAsync, CloseSlots, poolVars
  <1>2. LockInv'
    BY DEF TypeOK, LockInv, LockFree, Threads, Recovered, WarmAsync,
       CloseSlots, poolVars
  <1>3. StreamInv'
    BY <1>1 DEF TypeOK, LockInv, StreamInv, LockFree, Threads, Recovered,
       WarmAsync, CloseSlots, poolVars
  <1>4. BusyInv'
    BY <1>1 DEF TypeOK, LockInv, BusyInv, RecoveryInv, Using, Threads,
       Recovered, WarmAsync, CloseSlots, poolVars
  <1>5. RecoveryInv'
    BY <1>1 DEF TypeOK, LockInv, StreamInv, BusyInv, RecoveryInv,
       RecoveryClosed, LockFree,
       Threads, Recovered, WarmAsync, CloseSlots, poolVars
  <1>6. EveryStreamHasAnOwner'
    BY <1>1, <1>5 DEF TypeOK, LockInv, StreamInv, RecoveryInv,
       EveryStreamHasAnOwner, LockFree, Threads, Recovered, WarmAsync, CloseSlots,
       poolVars
  <1> QED
    BY <1>1, <1>2, <1>3, <1>4, <1>5, <1>6 DEF IInv

\* The prewarm thread ends.
LEMMA PrewarmEndsKeeps ==
  ASSUME IInv, PrewarmEnds
  PROVE  IInv'
  <1> USE PoolAssumption DEF IInv, Goes
  <1>1. TypeOK'
    BY DEF TypeOK, Places, Threads, PrewarmEnds, poolVars
  <1>2. LockInv'
    BY DEF TypeOK, LockInv, LockFree, Threads, PrewarmEnds, poolVars
  <1>3. StreamInv'
    BY <1>1 DEF TypeOK, LockInv, StreamInv, LockFree, Threads, PrewarmEnds,
       poolVars
  <1>4. BusyInv'
    BY <1>1 DEF TypeOK, LockInv, BusyInv, RecoveryInv, Using, Threads,
       PrewarmEnds, poolVars
  <1>5. RecoveryInv'
    BY <1>1 DEF TypeOK, LockInv, StreamInv, BusyInv, RecoveryInv,
       RecoveryClosed, LockFree,
       Threads, PrewarmEnds, poolVars
  <1>6. EveryStreamHasAnOwner'
    BY <1>1, <1>5 DEF TypeOK, LockInv, StreamInv, RecoveryInv,
       EveryStreamHasAnOwner, LockFree, Threads, PrewarmEnds, poolVars
  <1> QED
    BY <1>1, <1>2, <1>3, <1>4, <1>5, <1>6 DEF IInv

\* A device change makes all streams stale and is signalled.
LEMMA DeviceChangesKeeps ==
  ASSUME IInv, DeviceChanges
  PROVE  IInv'
  <1> USE PoolAssumption DEF IInv, Goes
  <1>1. TypeOK'
    BY DEF TypeOK, Places, Threads, DeviceChanges, poolVars
  <1>2. LockInv'
    BY DEF TypeOK, LockInv, LockFree, Threads, DeviceChanges, poolVars
  <1>3. StreamInv'
    BY <1>1 DEF TypeOK, LockInv, StreamInv, LockFree, Threads, DeviceChanges,
       poolVars
  <1>4. BusyInv'
    BY <1>1 DEF TypeOK, LockInv, BusyInv, RecoveryInv, Using, Threads,
       DeviceChanges, poolVars
  <1>5. RecoveryInv'
    BY <1>1 DEF TypeOK, LockInv, StreamInv, BusyInv, RecoveryInv,
       RecoveryClosed, LockFree,
       Threads, DeviceChanges, poolVars
  <1>6. EveryStreamHasAnOwner'
    BY <1>1, <1>5 DEF TypeOK, LockInv, StreamInv, RecoveryInv,
       EveryStreamHasAnOwner, LockFree, Threads, DeviceChanges, poolVars
  <1> QED
    BY <1>1, <1>2, <1>3, <1>4, <1>5, <1>6 DEF IInv

\* The worker takes a signal and owes an invalidation.
LEMMA TakeNotificationKeeps ==
  ASSUME IInv, TakeNotification
  PROVE  IInv'
  <1> USE PoolAssumption DEF IInv, Goes
  <1>1. TypeOK'
    BY DEF TypeOK, Places, Threads, TakeNotification, poolVars
  <1>2. LockInv'
    BY DEF TypeOK, LockInv, LockFree, Threads, TakeNotification, poolVars
  <1>3. StreamInv'
    BY <1>1 DEF TypeOK, LockInv, StreamInv, LockFree, Threads,
       TakeNotification, poolVars
  <1>4. BusyInv'
    BY <1>1 DEF TypeOK, LockInv, BusyInv, RecoveryInv, Using, Threads,
       TakeNotification, poolVars
  <1>5. RecoveryInv'
    BY <1>1 DEF TypeOK, LockInv, StreamInv, BusyInv, RecoveryInv,
       RecoveryClosed, LockFree,
       Threads, TakeNotification, poolVars
  <1>6. EveryStreamHasAnOwner'
    BY <1>1, <1>5 DEF TypeOK, LockInv, StreamInv, RecoveryInv,
       EveryStreamHasAnOwner, LockFree, Threads, TakeNotification, poolVars
  <1> QED
    BY <1>1, <1>2, <1>3, <1>4, <1>5, <1>6 DEF IInv

\* The worker detaches the slots or defers.
LEMMA InvalidateKeeps ==
  ASSUME IInv, Invalidate
  PROVE  IInv'
  <1> USE PoolAssumption DEF IInv, Goes
  <1>1. TypeOK'
    BY FS_EmptySet DEF TypeOK, Places, Threads, Invalidate, InvalidateLocked
  <1>2. LockInv'
    BY DEF TypeOK, LockInv, LockFree, Threads, Invalidate, InvalidateLocked
  <1>3. StreamInv'
    BY <1>1 DEF TypeOK, LockInv, StreamInv, LockFree, Threads, Invalidate,
       InvalidateLocked
  <1>4. BusyInv'
    BY <1>1 DEF TypeOK, LockInv, BusyInv, RecoveryInv, Using, Threads,
       Invalidate, InvalidateLocked
  <1>5. RecoveryInv'
    BY <1>1 DEF TypeOK, LockInv, StreamInv, BusyInv, RecoveryInv,
       RecoveryClosed, LockFree,
       Threads, Invalidate, InvalidateLocked
  <1>6. EveryStreamHasAnOwner'
    BY <1>1, <1>5 DEF TypeOK, LockInv, StreamInv, RecoveryInv,
       EveryStreamHasAnOwner, LockFree, Threads, Invalidate, InvalidateLocked
  <1> QED
    BY <1>1, <1>2, <1>3, <1>4, <1>5, <1>6 DEF IInv

\* The worker closes what it detached.
LEMMA ReplaceKeeps ==
  ASSUME IInv, Replace
  PROVE  IInv'
  <1> USE PoolAssumption DEF IInv, Goes
  <1>1. TypeOK'
    BY DEF TypeOK, Places, Threads, Replace, CloseSlots, poolVars
  <1>2. LockInv'
    BY DEF TypeOK, LockInv, LockFree, Threads, Replace, CloseSlots, poolVars
  <1>3. StreamInv'
    BY <1>1 DEF TypeOK, LockInv, StreamInv, LockFree, Threads, Replace,
       CloseSlots, poolVars
  <1>4. BusyInv'
    BY <1>1 DEF TypeOK, LockInv, BusyInv, RecoveryInv, Using, Threads,
       Replace, CloseSlots, poolVars
  <1>5. RecoveryInv'
    BY <1>1 DEF TypeOK, LockInv, StreamInv, BusyInv, RecoveryInv,
       RecoveryClosed, LockFree,
       Threads, Replace, CloseSlots, poolVars
  <1>6. EveryStreamHasAnOwner'
    BY <1>1, <1>5 DEF TypeOK, LockInv, StreamInv, RecoveryInv,
       EveryStreamHasAnOwner, LockFree, Threads, Replace, CloseSlots, poolVars
  <1> QED
    BY <1>1, <1>2, <1>3, <1>4, <1>5, <1>6 DEF IInv

\* The listener closes.
LEMMA QuitKeeps ==
  ASSUME IInv, Quit
  PROVE  IInv'
  <1> USE PoolAssumption DEF IInv, Goes
  <1>1. TypeOK'
    BY DEF TypeOK, Places, Threads, Quit, poolVars
  <1>2. LockInv'
    BY DEF TypeOK, LockInv, LockFree, Threads, Quit, poolVars
  <1>3. StreamInv'
    BY <1>1 DEF TypeOK, LockInv, StreamInv, LockFree, Threads, Quit, poolVars
  <1>4. BusyInv'
    BY <1>1 DEF TypeOK, LockInv, BusyInv, RecoveryInv, Using, Threads, Quit,
       poolVars
  <1>5. RecoveryInv'
    BY <1>1 DEF TypeOK, LockInv, StreamInv, BusyInv, RecoveryInv,
       RecoveryClosed, LockFree,
       Threads, Quit, poolVars
  <1>6. EveryStreamHasAnOwner'
    BY <1>1, <1>5 DEF TypeOK, LockInv, StreamInv, RecoveryInv,
       EveryStreamHasAnOwner, LockFree, Threads, Quit, poolVars
  <1> QED
    BY <1>1, <1>2, <1>3, <1>4, <1>5, <1>6 DEF IInv

\* The pool closes: nobody holds init_lock, and nobody will open again.
LEMMA ClosePoolKeeps ==
  ASSUME IInv, ClosePool
  PROVE  IInv'
  <1> USE PoolAssumption DEF IInv, Goes
  <1>1. TypeOK'
    BY FS_EmptySet DEF TypeOK, Places, Threads, ClosePool
  <1>2. LockInv'
    BY DEF TypeOK, LockInv, LockFree, Threads, ClosePool
  <1>3. StreamInv'
    BY <1>1 DEF TypeOK, LockInv, StreamInv, LockFree, Threads, ClosePool
  <1>4. BusyInv'
    BY <1>1 DEF TypeOK, LockInv, BusyInv, RecoveryInv, Using, Threads,
       ClosePool
  <1>5. RecoveryInv'
    BY <1>1 DEF TypeOK, LockInv, StreamInv, BusyInv, RecoveryInv,
       RecoveryClosed, LockFree,
       Threads, ClosePool
  <1>6. EveryStreamHasAnOwner'
    BY <1>1, <1>5 DEF TypeOK, LockInv, StreamInv, RecoveryInv,
       EveryStreamHasAnOwner, LockFree, Threads, ClosePool
  <1> QED
    BY <1>1, <1>2, <1>3, <1>4, <1>5, <1>6 DEF IInv

\* The main thread closes the last slots.
LEMMA ClosePoolSlotsKeeps ==
  ASSUME IInv, ClosePoolSlots
  PROVE  IInv'
  <1> USE PoolAssumption DEF IInv, Goes
  <1>1. TypeOK'
    BY DEF TypeOK, Places, Threads, ClosePoolSlots, CloseSlots, poolVars
  <1>2. LockInv'
    BY DEF TypeOK, LockInv, LockFree, Threads, ClosePoolSlots, CloseSlots,
       poolVars
  <1>3. StreamInv'
    BY <1>1 DEF TypeOK, LockInv, StreamInv, LockFree, Threads, ClosePoolSlots,
       CloseSlots, poolVars
  <1>4. BusyInv'
    BY <1>1 DEF TypeOK, LockInv, BusyInv, RecoveryInv, Using, Threads,
       ClosePoolSlots, CloseSlots, poolVars
  <1>5. RecoveryInv'
    BY <1>1 DEF TypeOK, LockInv, StreamInv, BusyInv, RecoveryInv,
       RecoveryClosed, LockFree,
       Threads, ClosePoolSlots, CloseSlots, poolVars
  <1>6. EveryStreamHasAnOwner'
    BY <1>1, <1>5 DEF TypeOK, LockInv, StreamInv, RecoveryInv,
       EveryStreamHasAnOwner, LockFree, Threads, ClosePoolSlots, CloseSlots,
       poolVars
  <1> QED
    BY <1>1, <1>2, <1>3, <1>4, <1>5, <1>6 DEF IInv

-----------------------------------------------------------------------------
(* The theorems.                                                           *)

\* Every step keeps the invariant.
LEMMA PoolNext == IInv /\ [Next]_vars => IInv'
  <1> SUFFICES ASSUME IInv, [Next]_vars PROVE IInv'
    OBVIOUS
  <1>1. CASE UNCHANGED vars
    BY ZenonT(60), <1>1
       DEF vars, IInv, TypeOK, LockInv, StreamInv, BusyInv, RecoveryInv,
       RecoveryClosed, Using, EveryStreamHasAnOwner
  <1>2. ASSUME NEW t \in Takes, Press(t) PROVE IInv'
    BY <1>2, BeginWarmKeeps DEF Press, Threads
  <1>3. ASSUME NEW t \in Takes, TakeStep(t) PROVE IInv'
    BY <1>3, OpenSlotKeeps, OpenFailsKeeps, InstallKeeps, RefuseKeeps,
       StartSlotKeeps, StartFailsKeeps, DropKeeps, StopSlotKeeps, ReleaseKeeps,
       RecoveredKeeps DEF TakeStep, Threads
  <1>4. ASSUME NEW p \in Threads, Warm(p) PROVE IInv'
    BY <1>4, BeginWarmKeeps, OpenSlotKeeps, OpenFailsKeeps, InstallKeeps DEF
       Warm
  <1>5. CASE PrewarmStep
    BY <1>4, <1>5, PrewarmEndsKeeps DEF PrewarmStep, Threads
  <1>6. CASE RecoveryStep
    BY <1>4, <1>6, TakeNotificationKeeps, InvalidateKeeps, ReplaceKeeps
       DEF RecoveryStep, Threads
  <1>7. CASE MainStep
    BY <1>4, <1>7, ClosePoolKeeps, ClosePoolSlotsKeeps DEF MainStep, Threads
  <1>8. CASE DeviceChanges
    BY <1>8, DeviceChangesKeeps
  <1>9. CASE Quit
    BY <1>9, QuitKeeps
  <1> QED
    BY <1>1, <1>2, <1>3, <1>5, <1>6, <1>7, <1>8, <1>9 DEF Next

\* Lock, streams, busy slots and deferred recoveries stay consistent.
THEOREM PoolInvariant == Spec => []IInv
  <1> QED
    BY PoolInit, PoolNext, PTL DEF Spec

\* The pool's variables keep their types, and it has all of its slots or none.
THEOREM PoolTypeCorrect == Spec => []TypeOK
  <1>1. IInv => TypeOK
    BY DEF IInv
  <1> QED
    BY <1>1, PoolInvariant, PTL

\* No recovery, failure or other take closes or shares the stream of a take.
THEOREM PoolKeepsTakes == Spec => []TakeKeepsItsStream
  <1>1. IInv => TakeKeepsItsStream
    BY ZenonT(60), PoolAssumption
       DEF IInv, StreamInv, BusyInv, Using, TakeKeepsItsStream,
       Threads
  <1> QED
    BY <1>1, PoolInvariant, PTL

\* A stale slot always has someone who is to replace it.
THEOREM PoolOwesStaleSlots == Spec => []StaleSlotIsOwed
  <1>1. IInv => StaleSlotIsOwed
    BY DEF IInv, BusyInv, RecoveryInv, StaleSlotIsOwed
  <1> QED
    BY <1>1, PoolInvariant, PTL

\* Every open stream has someone who is to close it, and a closed pool opens
\* none again.
THEOREM PoolLeaksNoStream == Spec => []EveryStreamHasAnOwner
  <1>1. IInv => EveryStreamHasAnOwner
    BY DEF IInv
  <1> QED
    BY <1>1, PoolInvariant, PTL

=============================================================================
