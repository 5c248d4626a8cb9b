---------------------- MODULE PrewarmedVerifierProofs -----------------------
(***************************************************************************)
(* Theorems about the verifier's supervisors, for any takes, workers and   *)
(* children and any number of spans.                                       *)
(*                                                                         *)
(* The argument: whoever is between the two ends of a locked section holds *)
(* the lock of its supervisor (LockInv); a child is known to exactly one   *)
(* supervisor (ChildInv); and what is under way between a child and its    *)
(* supervisor is what the holder of the lock waits for, or nothing         *)
(* (PipeInv), because every refusal discards the child with its pipe.      *)
(***************************************************************************)
EXTENDS PrewarmedVerifier, TLAPS

Locked(p) == pc[p] \in {"loading", "send", "waiting"}

\* A thread has a supervisor from its start to its end.
PlaceInv ==
    /\ \A p \in Threads : pc[p] \in {"idle", "done"} <=> of[p] = 0
    /\ \A w \in Workers : pc[w] \in {"idle", "lock", "loading", "finally"}
    /\ \A t \in Takes : pc[t] # "finally"
    /\ main = "start" => current # 0

LockInv ==
    /\ \A p \in Threads : Locked(p) => lock[of[p]] = p
    /\ \A s \in Made : lock[s] # None =>
        Locked(lock[s]) /\ of[lock[s]] = s /\ child[s] # None

ChildInv ==
    /\ \A k \in Children : proc[k] # "none" => \E s \in Made : child[s] = k
    /\ \A r, s \in Made : child[r] = child[s] /\ child[r] # None => r = s
    /\ \A s \in Made :
        child[s] # None => proc[child[s]] # "none" /\ ~closed[s]

Empty(k) == asked[k] = <<>> /\ pipe[k] = <<>>

\* What is under way between child k and thread p, which waits for it.
Loads(p, k) ==
    /\ pc[p] = "loading" /\ asked[k] = <<>>
    /\ pipe[k] = <<[kind |-> "ready", to |-> None]>>

Answers(p, k) ==
    /\ p \in Takes /\ pc[p] = "waiting"
    /\ \/ asked[k] = << <<p, span[p]>> >> /\ pipe[k] = <<>>
       \/ /\ asked[k] = <<>>
          /\ \E kind \in {"result", "bad"} :
                pipe[k] = <<[kind |-> kind, to |-> <<p, span[p]>>]>>

UnderWay(s, k) ==
    /\ proc[k] = "loading" =>
        lock[s] # None /\ pc[lock[s]] = "loading" /\ Empty(k)
    /\ \/ Empty(k)
       \/ lock[s] # None /\ (Loads(lock[s], k) \/ Answers(lock[s], k))

PipeInv ==
    /\ \A k \in Children : proc[k] = "none" => Empty(k)
    /\ \A s \in Made : child[s] # None => UnderWay(s, child[s])

IInv ==
    /\ TypeOK /\ PlaceInv /\ LockInv /\ ChildInv /\ PipeInv
    /\ WarmingHasOneWorker /\ AnswerIsOwn

\* The parts of TypeOK.
Places == {"idle", "starting", "span", "lock", "loading", "send", "waiting",
           "answered", "finally", "done"}

MadeTypes ==
    /\ made \in 0..MaxMade /\ current \in 0..made /\ stale \in 0..made
    /\ abandoned \subseteq 1..made

MenuTypes ==
    /\ main \in {"free", "schedule", "start", "close", "close and go", "gone"}
    /\ main \in {"close", "close and go"} => stale # 0

FlagTypes ==
    /\ warming \in BOOLEAN
    /\ closed \in [Made -> BOOLEAN] /\ late \in [Threads -> BOOLEAN]

ChildTypes ==
    /\ lock \in [Made -> Threads \cup {None}]
    /\ child \in [Made -> Children \cup {None}]
    /\ proc \in [Children -> {"none", "loading", "running", "dead"}]
    /\ asked \in [Children -> Seq(Requests)]
    /\ pipe \in [Children -> Seq(Messages)]
    /\ \A k \in Children : Len(asked[k]) + Len(pipe[k]) <= 1

PlaceTypes ==
    /\ pc \in [Threads -> Places]
    /\ of \in [Threads -> 0..made]

TakeTypes ==
    /\ span \in [Takes -> 1..MaxSpans]
    /\ answer \in [Takes -> Requests \cup {None}]

LEMMA Parts ==
    ASSUME IInv
    PROVE  /\ MadeTypes /\ MenuTypes /\ FlagTypes
           /\ ChildTypes /\ PlaceTypes /\ TakeTypes
           /\ PlaceInv /\ LockInv /\ ChildInv /\ PipeInv
           /\ WarmingHasOneWorker /\ AnswerIsOwn
  BY DEF IInv, TypeOK, MadeTypes, MenuTypes, FlagTypes, ChildTypes, PlaceTypes,
     TakeTypes, Places

LEMMA Whole ==
    ASSUME MadeTypes', MenuTypes', FlagTypes', ChildTypes', PlaceTypes',
           TakeTypes', PlaceInv', LockInv', ChildInv', PipeInv',
           WarmingHasOneWorker', AnswerIsOwn'
    PROVE  IInv'
  BY DEF IInv, TypeOK, MadeTypes, MenuTypes, FlagTypes, ChildTypes, PlaceTypes,
     TakeTypes, Places

-----------------------------------------------------------------------------
(* What several actions do.                                                *)

\* A thread that has started or has yet to has its supervisor among those made.
LEMMA SupervisorOf ==
    ASSUME MadeTypes, PlaceTypes, PlaceInv, NEW p \in Threads,
           pc[p] \notin {"idle", "done"}
    PROVE  of[p] \in Made /\ of[p] \in 1..made
<1>1. made \in Int /\ MaxMade \in Int /\ made <= MaxMade
  BY VerifierAssumption DEF MadeTypes
<1>2. of[p] \in 0..made /\ of[p] # 0
  BY DEF PlaceTypes, PlaceInv
<1> QED BY <1>1, <1>2 DEF Made

\* A thread that moves, or ends, leaves the other threads where they are.
Moves(p, place) ==
    /\ pc' = [pc EXCEPT ![p] = place]
    /\ IF place \in {"idle", "done"} THEN of' = [of EXCEPT ![p] = 0]
       ELSE of' = of

\* Nobody warms the supervisor that is not there.
LEMMA NobodyWarmsNone ==
    ASSUME PlaceInv
    PROVE  \A q \in Threads \cup {None} : ~Warms(q, 0)
  BY DEF Warms, PlaceInv, Threads

\* Who warms is as before, and the flag.
LEMMA SameWarmers ==
    ASSUME WarmingHasOneWorker, UNCHANGED <<current, warming, abandoned>>,
           \A q \in Threads \cup {None} : \A s : Warms(q, s)' <=> Warms(q, s)
    PROVE  WarmingHasOneWorker'
  BY DEF WarmingHasOneWorker

LEMMA MoveKeepsPlaces ==
    ASSUME MadeTypes, PlaceTypes, PlaceInv, WarmingHasOneWorker,
           UNCHANGED <<made, current, main, abandoned>>,
           NEW p \in Threads, pc[p] \notin {"idle", "done", "starting"},
           NEW place \in Places \ {"starting"}, Moves(p, place),
           \/ p \in Takes /\ place # "finally" /\ warming' = warming
           \/ /\ p \in Workers /\ place \in {"lock", "loading", "finally"}
              /\ warming' = warming
           \/ /\ p \in Workers /\ place = "idle"
              /\ warming' = (warming /\ current # of[p])
    PROVE  PlaceTypes' /\ PlaceInv' /\ WarmingHasOneWorker'
<1> USE VerifierAssumption DEF Threads
<1>1. PlaceTypes'
  <2>1. 0 \in 0..made
    BY DEF MadeTypes
  <2> QED BY <2>1 DEF PlaceTypes, Moves
<1>2. PlaceInv'
  BY DEF PlaceTypes, Moves, PlaceInv
<1>3. /\ \A q \in Threads \ {p} : pc'[q] = pc[q] /\ of'[q] = of[q]
      /\ pc'[p] = place /\ p # None
  BY DEF PlaceTypes, Moves
<1>4. ASSUME NEW q \in (Threads \ {p}) \cup {None}, NEW s
      PROVE  Warms(q, s)' <=> Warms(q, s)
  BY <1>3, <1>4 DEF Warms
<1>5. CASE p \in Takes \/ place # "idle"
  <2>1. \A s : Warms(p, s)' <=> Warms(p, s)
    BY <1>3, <1>5 DEF Warms, Moves, PlaceInv
  <2>2. warming' = warming
    BY <1>5
  <2> QED BY <1>1, <1>2, <1>4, <2>1, <2>2, SameWarmers
<1>6. CASE p \in Workers /\ place = "idle"
  <2>1. \A s : ~Warms(p, s)' /\ (Warms(p, s) <=> s = of[p])
    BY <1>3, <1>6 DEF Warms
  <2>2. warming' = (warming /\ current # of[p])
    BY <1>6
  <2>3. of[p] \in Made
    BY SupervisorOf
  <2>4. CASE current = of[p]
    <3>1. \A q \in Threads \cup {None} : ~Warms(q, current)'
      BY <1>4, <2>1, <2>3, <2>4 DEF WarmingHasOneWorker
    <3>2. current \notin abandoned
      BY <2>1, <2>4 DEF WarmingHasOneWorker
    <3> QED
      BY <1>1, <1>2, <1>4, <2>1, <2>2, <2>4, <3>1, <3>2
      DEF WarmingHasOneWorker
  <2>5. CASE current # of[p]
    <3>1. \A q \in Threads \cup {None} :
            Warms(q, current)' <=> Warms(q, current)
      BY <1>4, <2>1, <2>5
    <3> QED
      BY <1>1, <1>2, <1>4, <2>1, <2>2, <2>5, <3>1 DEF WarmingHasOneWorker
  <2> QED BY <2>4, <2>5
<1> QED BY <1>5, <1>6

\* The steps outside a locked section touch nothing of what the lock protects.
Outside ==
    /\ UNCHANGED <<lock, children, closed>>
    /\ \A p \in Threads :
        /\ Locked(p) <=> Locked(p)'
        /\ Locked(p) => UNCHANGED <<pc[p], of[p]>>
    /\ \A t \in Takes : Locked(t) => UNCHANGED span[t]

LEMMA OutsideKeeps ==
    ASSUME ChildTypes, LockInv, ChildInv, PipeInv, Outside
    PROVE  ChildTypes' /\ LockInv' /\ ChildInv' /\ PipeInv'
<1>1. ChildTypes'
  BY DEF Outside, ChildTypes, children
<1>2. LockInv'
  <2>1. \A p \in Threads : Locked(p)' => lock'[of'[p]] = p
    BY DEF Outside, LockInv
  <2>2. \A s \in Made : lock'[s] # None =>
            Locked(lock[s])' /\ of'[lock'[s]] = s /\ child'[s] # None
    <3> SUFFICES ASSUME NEW s \in Made, lock'[s] # None
                 PROVE  Locked(lock[s])' /\ of'[lock'[s]] = s /\ child'[s] # None
      OBVIOUS
    <3>1. lock' = lock /\ child' = child /\ lock[s] \in Threads
      BY DEF Outside, ChildTypes, children
    <3> QED BY <3>1 DEF Outside, LockInv
  <2> QED BY <2>1, <2>2 DEF LockInv
<1>3. ChildInv'
  BY DEF Outside, ChildInv, children
<1>4. ASSUME NEW s \in Made, child'[s] # None
      PROVE  UnderWay(s, child[s])'
  <2>1. UnderWay(s, child[s]) /\ child' = child
    BY <1>4 DEF Outside, PipeInv, children
  <2>2. lock'[s] = lock[s] /\ lock[s] \in Threads \cup {None}
    BY DEF Outside, ChildTypes
  <2>3. lock[s] # None =>
            Locked(lock[s]) /\ pc'[lock[s]] = pc[lock[s]]
            /\ (lock[s] \in Takes => span'[lock[s]] = span[lock[s]])
    BY <2>2 DEF Outside, LockInv
  <2> QED
    BY <2>1, <2>2, <2>3 DEF UnderWay, Empty, Loads, Answers, Outside, children
<1>5. PipeInv'
  BY <1>4 DEF Outside, PipeInv, Empty, children
<1> QED BY <1>1, <1>2, <1>3, <1>5

\* A thread that finds no child takes the lock and starts one.
LEMMA StartKeeps ==
    ASSUME ChildTypes, PlaceTypes, LockInv, ChildInv, PipeInv,
           NEW p \in Threads, of[p] \in Made, ~Locked(p),
           lock[of[p]] = None, ~HasChild(of[p]), ~closed[of[p]],
           StartChild(of[p]), Locks(p), Goes(p, "loading"),
           UNCHANGED <<closed, span>>
    PROVE  ChildTypes' /\ LockInv' /\ ChildInv' /\ PipeInv'
<1> DEFINE s == of[p]
<1> USE VerifierAssumption DEF Locks, Goes
<1>1. PICK k \in Children :
        /\ proc[k] = "none"
        /\ child' = [child EXCEPT ![s] = k]
        /\ proc' = [j \in Children |->
            IF j = k THEN "loading" ELSE IF j = child[s] THEN "none" ELSE proc[j]]
        /\ asked' = [j \in Children |-> IF j = child[s] THEN <<>> ELSE asked[j]]
        /\ pipe' = [j \in Children |-> IF j = child[s] THEN <<>> ELSE pipe[j]]
  BY DEF StartChild
<1>2. /\ p # None /\ p \in Threads
      /\ lock' = [lock EXCEPT ![s] = p] /\ pc' = [pc EXCEPT ![p] = "loading"]
      /\ of' = of
  BY DEF Threads
<1>3. /\ \A r \in Made : child[r] # k
      /\ asked[k] = <<>> /\ pipe[k] = <<>>
  BY <1>1 DEF ChildInv, PipeInv, Empty
<1>4. ChildTypes'
  <2>1. /\ lock' \in [Made -> Threads \cup {None}]
        /\ child' \in [Made -> Children \cup {None}]
        /\ proc' \in [Children -> {"none", "loading", "running", "dead"}]
    BY <1>1, <1>2 DEF ChildTypes
  <2>2. /\ asked' \in [Children -> Seq(Requests)]
        /\ pipe' \in [Children -> Seq(Messages)]
    BY <1>1 DEF ChildTypes
  <2>3. ASSUME NEW j \in Children PROVE Len(asked'[j]) + Len(pipe'[j]) <= 1
    <3>1. Len(<<>>) + Len(<<>>) <= 1
      OBVIOUS
    <3> QED BY <1>1, <3>1 DEF ChildTypes
  <2> QED BY <2>1, <2>2, <2>3 DEF ChildTypes
<1>5. LockInv'
  <2>1. \A q \in Threads : Locked(q)' => lock'[of'[q]] = q
    <3> SUFFICES ASSUME NEW q \in Threads, Locked(q)'
                 PROVE  lock'[of'[q]] = q
      OBVIOUS
    <3>1. CASE q = p
      BY <3>1, <1>2 DEF ChildTypes
    <3>2. CASE q # p
      <4>1. Locked(q) /\ lock[of[q]] = q /\ q # None
        BY <3>2, <1>2 DEF LockInv, Locked, PlaceTypes, Threads
      <4>2. of[q] # s
        BY <4>1
      <4> QED BY <4>1, <4>2, <1>2 DEF ChildTypes
    <3> QED BY <3>1, <3>2
  <2>2. ASSUME NEW r \in Made, lock'[r] # None
        PROVE  Locked(lock[r])' /\ of'[lock'[r]] = r /\ child'[r] # None
    <3>1. CASE r = s
      BY <3>1, <1>1, <1>2 DEF Locked, ChildTypes, PlaceTypes
    <3>2. CASE r # s
      <4>1. lock'[r] = lock[r] /\ child'[r] = child[r] /\ lock[r] # p
            /\ lock[r] \in Threads
        BY <3>2, <2>2, <1>1, <1>2 DEF ChildTypes, LockInv
      <4> QED BY <4>1, <2>2, <1>2 DEF LockInv, Locked, PlaceTypes
    <3> QED BY <3>1, <3>2
  <2> QED BY <2>1, <2>2 DEF LockInv
<1>6. ChildInv'
  <2>1. ASSUME NEW j \in Children, proc'[j] # "none"
        PROVE  \E r \in Made : child'[r] = j
    <3>1. CASE j = k
      BY <3>1, <1>1 DEF ChildTypes
    <3>2. CASE j # k
      <4>1. j # child[s] /\ proc[j] # "none"
        BY <3>2, <2>1, <1>1
      <4> QED BY <4>1, <1>1 DEF ChildInv, ChildTypes
    <3> QED BY <3>1, <3>2
  <2>2. ASSUME NEW q \in Made, NEW r \in Made, child'[q] = child'[r],
               child'[r] # None
        PROVE  q = r
    BY <2>2, <1>1, <1>3 DEF ChildInv, ChildTypes
  <2>3. ASSUME NEW r \in Made, child'[r] # None
        PROVE  proc'[child'[r]] # "none" /\ ~closed'[r]
    <3>1. CASE r = s
      BY <3>1, <1>1 DEF ChildTypes
    <3>2. CASE r # s
      BY <3>2, <2>3, <1>1, <1>3 DEF ChildInv, ChildTypes
    <3> QED BY <3>1, <3>2
  <2> QED BY <2>1, <2>2, <2>3 DEF ChildInv
<1>7. PipeInv'
  <2>1. \A j \in Children : proc'[j] = "none" => Empty(j)'
    BY <1>1 DEF PipeInv, Empty
  <2>2. ASSUME NEW r \in Made, child'[r] # None PROVE UnderWay(r, child[r])'
    <3>1. CASE r = s
      <4>1. child'[r] = k /\ lock'[r] = p /\ pc'[p] = "loading"
        BY <3>1, <1>1, <1>2 DEF ChildTypes, PlaceTypes
      <4>2. asked'[k] = <<>> /\ pipe'[k] = <<>>
        BY <1>1, <1>3
      <4> QED BY <4>1, <4>2, <1>2 DEF UnderWay, Empty
    <3>2. CASE r # s
      <4>1. /\ child'[r] = child[r] /\ child[r] \in Children
            /\ child[r] # k /\ child[r] # child[s] /\ lock'[r] = lock[r]
        BY <3>2, <2>2, <1>1, <1>2, <1>3 DEF ChildInv, ChildTypes
      <4>2. /\ proc'[child[r]] = proc[child[r]]
            /\ asked'[child[r]] = asked[child[r]]
            /\ pipe'[child[r]] = pipe[child[r]]
        BY <4>1, <1>1
      <4>3. lock[r] # None => lock[r] \in Threads /\ pc'[lock[r]] = pc[lock[r]]
        BY <1>2 DEF LockInv, ChildTypes, PlaceTypes
      <4>4. UnderWay(r, child[r])
        BY <4>1, <2>2 DEF PipeInv
      <4> QED BY <4>1, <4>2, <4>3, <4>4
              DEF UnderWay, Empty, Loads, Answers
    <3> QED BY <3>1, <3>2
  <2> QED BY <2>1, <2>2 DEF PipeInv
<1> QED BY <1>4, <1>5, <1>6, <1>7

\* Who had the lock of s, if anybody, has left its locked section.
Leaves(s) ==
    /\ lock' = [lock EXCEPT ![s] = None]
    /\ \A q \in Threads :
        IF Locked(q) /\ of[q] # s
        THEN /\ Locked(q)' /\ UNCHANGED <<pc[q], of[q]>>
             /\ q \in Takes => UNCHANGED span[q]
        ELSE ~Locked(q)'

\* The lock says who is between the two ends of a locked section.
LEMMA LeavingKeepsLocks ==
    ASSUME ChildTypes, PlaceTypes, LockInv, NEW s \in Made, Leaves(s),
           \A r \in Made \ {s} : child'[r] = child[r]
    PROVE  /\ LockInv'
           /\ \A r \in Made \ {s} :
                lock'[r] = lock[r]
                /\ (lock[r] # None => Locked(lock[r]) /\ of[lock[r]] = r
                                      /\ lock[r] \in Threads)
<1> USE VerifierAssumption
<1>1. \A r \in Made \ {s} :
        lock'[r] = lock[r]
        /\ (lock[r] # None => Locked(lock[r]) /\ of[lock[r]] = r
                              /\ lock[r] \in Threads)
  BY DEF Leaves, ChildTypes, LockInv
<1>2. lock'[s] = None
  BY DEF Leaves, ChildTypes
<1>3. ASSUME NEW q \in Threads, Locked(q)' PROVE lock'[of'[q]] = q
  <2>1. Locked(q) /\ of[q] # s /\ of'[q] = of[q]
    BY <1>3 DEF Leaves
  <2>2. lock[of[q]] = q
    BY <2>1 DEF LockInv
  <2> QED BY <2>1, <2>2 DEF Leaves, ChildTypes
<1>4. ASSUME NEW r \in Made, lock'[r] # None
      PROVE  Locked(lock[r])' /\ of'[lock'[r]] = r /\ child'[r] # None
  <2>1. r # s /\ lock'[r] = lock[r] /\ Locked(lock[r]) /\ of[lock[r]] = r
        /\ lock[r] \in Threads /\ child'[r] = child[r]
    BY <1>1, <1>2, <1>4
  <2> QED BY <2>1, <1>4 DEF LockInv, Leaves
<1>5. LockInv'
  BY <1>3, <1>4 DEF LockInv
<1> QED BY <1>1, <1>5

\* What is under way at another supervisor stays so.
LEMMA ElsewhereUnderWay ==
    ASSUME PipeInv, NEW s \in Made, Leaves(s), NEW r \in Made \ {s},
           child[r] # None, lock'[r] = lock[r],
           lock[r] # None => Locked(lock[r]) /\ of[lock[r]] = r
                             /\ lock[r] \in Threads,
           NEW k, k = child[r],
           UNCHANGED <<child[r], proc[k], asked[k], pipe[k]>>
    PROVE  UnderWay(r, child[r])'
<1>1. UnderWay(r, k) /\ child'[r] = k
  BY DEF PipeInv
<1>2. lock[r] # None =>
        pc'[lock[r]] = pc[lock[r]]
        /\ (lock[r] \in Takes => span'[lock[r]] = span[lock[r]])
  BY DEF Leaves
<1> QED BY <1>1, <1>2 DEF UnderWay, Empty, Loads, Answers

\* A child that is discarded takes its pipe with it.
LEMMA DiscardKeeps ==
    ASSUME ChildTypes, PlaceTypes, LockInv, ChildInv, PipeInv,
           NEW s \in Made, Discard(s), Leaves(s),
           \A r \in Made \ {s} : UNCHANGED closed[r]
    PROVE  ChildTypes' /\ LockInv' /\ ChildInv' /\ PipeInv'
<1> USE VerifierAssumption
<1>1. /\ child' = [child EXCEPT ![s] = None]
      /\ proc' = [k \in Children |-> IF k = child[s] THEN "none" ELSE proc[k]]
      /\ asked' = [k \in Children |-> IF k = child[s] THEN <<>> ELSE asked[k]]
      /\ pipe' = [k \in Children |-> IF k = child[s] THEN <<>> ELSE pipe[k]]
  BY DEF Discard
<1>2. ChildTypes'
  <2>1. /\ lock' \in [Made -> Threads \cup {None}]
        /\ child' \in [Made -> Children \cup {None}]
        /\ proc' \in [Children -> {"none", "loading", "running", "dead"}]
    BY <1>1 DEF ChildTypes, Leaves
  <2>2. /\ asked' \in [Children -> Seq(Requests)]
        /\ pipe' \in [Children -> Seq(Messages)]
    BY <1>1 DEF ChildTypes
  <2>3. ASSUME NEW j \in Children PROVE Len(asked'[j]) + Len(pipe'[j]) <= 1
    <3>1. Len(<<>>) + Len(<<>>) <= 1
      OBVIOUS
    <3> QED BY <1>1, <3>1 DEF ChildTypes
  <2> QED BY <2>1, <2>2, <2>3 DEF ChildTypes
<1>3. \A r \in Made \ {s} : child'[r] = child[r]
  BY <1>1 DEF ChildTypes
<1>4. child'[s] = None
  BY <1>1 DEF ChildTypes
<1>5. \A r \in Made \ {s} :
        child[r] # None => child[r] \in Children /\ child[r] # child[s]
  BY DEF ChildTypes, ChildInv
<1>6. ChildInv'
  <2>1. ASSUME NEW j \in Children, proc'[j] # "none"
        PROVE  \E r \in Made : child'[r] = j
    <3>1. proc[j] # "none" /\ j # child[s]
      BY <2>1, <1>1
    <3>2. PICK r \in Made : child[r] = j
      BY <3>1 DEF ChildInv
    <3> QED BY <3>1, <3>2, <1>3
  <2>2. ASSUME NEW q \in Made, NEW r \in Made, child'[q] = child'[r],
               child'[r] # None
        PROVE  q = r
    BY <2>2, <1>3, <1>4 DEF ChildInv
  <2>3. ASSUME NEW r \in Made, child'[r] # None
        PROVE  proc'[child'[r]] # "none" /\ ~closed'[r]
    BY <2>3, <1>1, <1>3, <1>4, <1>5 DEF ChildInv
  <2> QED BY <2>1, <2>2, <2>3 DEF ChildInv
<1>7. LockInv'
  BY <1>3, LeavingKeepsLocks
<1>8. PipeInv'
  <2>1. \A j \in Children : proc'[j] = "none" => Empty(j)'
    BY <1>1 DEF PipeInv, Empty
  <2>2. ASSUME NEW r \in Made, child'[r] # None PROVE UnderWay(r, child[r])'
    <3>1. r # s /\ child'[r] = child[r] /\ child[r] # None
      BY <2>2, <1>3, <1>4
    <3>2. UNCHANGED <<proc[child[r]], asked[child[r]], pipe[child[r]]>>
      BY <3>1, <1>1, <1>5
    <3>3. /\ lock'[r] = lock[r]
          /\ lock[r] # None => Locked(lock[r]) /\ of[lock[r]] = r
                               /\ lock[r] \in Threads
      BY <3>1, <1>3, LeavingKeepsLocks
    <3> QED BY <3>1, <3>2, <3>3, ElsewhereUnderWay
  <2> QED BY <2>1, <2>2 DEF PipeInv
<1> QED BY <1>2, <1>6, <1>7, <1>8

\* A step inside a locked section, or of a child, at one supervisor only.
Inside(s, k) ==
    /\ UNCHANGED <<child, lock, closed, of, span>>
    /\ \A j \in Children \ {k} : UNCHANGED <<proc[j], asked[j], pipe[j]>>
    /\ \A q \in Threads :
        /\ Locked(q) <=> Locked(q)'
        /\ Locked(q) /\ of[q] # s => UNCHANGED pc[q]

LEMMA InsideKeeps ==
    ASSUME ChildTypes, LockInv, ChildInv, PipeInv,
           NEW s \in Made, NEW k \in Children, child[s] = k,
           Inside(s, k), proc'[k] # "none", UnderWay(s, k)'
    PROVE  LockInv' /\ ChildInv' /\ PipeInv'
<1> USE VerifierAssumption
<1>1. LockInv'
  <2>1. \A q \in Threads : Locked(q)' => lock'[of'[q]] = q
    BY DEF Inside, LockInv
  <2>2. ASSUME NEW r \in Made, lock'[r] # None
        PROVE  Locked(lock[r])' /\ of'[lock'[r]] = r /\ child'[r] # None
    <3>1. lock[r] \in Threads /\ lock'[r] = lock[r] /\ lock[r] # None
      BY <2>2 DEF Inside, ChildTypes
    <3> QED BY <3>1 DEF Inside, LockInv
  <2> QED BY <2>1, <2>2 DEF LockInv
<1>2. \A r \in Made \ {s} : child[r] # None =>
        /\ child[r] \in Children \ {k}
        /\ UNCHANGED <<proc[child[r]], asked[child[r]], pipe[child[r]]>>
  BY DEF Inside, ChildTypes, ChildInv
<1>3. ChildInv'
  <2>1. \A j \in Children : proc'[j] # "none" => \E r \in Made : child'[r] = j
    BY DEF Inside, ChildInv
  <2>2. \A q, r \in Made : child'[q] = child'[r] /\ child'[r] # None => q = r
    BY DEF Inside, ChildInv
  <2>3. \A r \in Made :
            child'[r] # None => proc'[child'[r]] # "none" /\ ~closed'[r]
    BY <1>2 DEF Inside, ChildInv
  <2> QED BY <2>1, <2>2, <2>3 DEF ChildInv
<1>4. PipeInv'
  <2>1. \A j \in Children : proc'[j] = "none" => Empty(j)'
    BY DEF Inside, PipeInv, Empty
  <2>2. ASSUME NEW r \in Made, child'[r] # None PROVE UnderWay(r, child[r])'
    <3>1. CASE r = s
      BY <3>1 DEF Inside
    <3>2. CASE r # s
      <4>1. /\ UnderWay(r, child[r]) /\ child' = child /\ lock' = lock
            /\ UNCHANGED <<proc[child[r]], asked[child[r]], pipe[child[r]]>>
        BY <3>2, <2>2, <1>2 DEF Inside, PipeInv
      <4>2. lock[r] # None => pc'[lock[r]] = pc[lock[r]] /\ span' = span
        <5>1. lock[r] # None =>
                  lock[r] \in Threads /\ Locked(lock[r]) /\ of[lock[r]] = r
          BY DEF LockInv, ChildTypes
        <5> QED BY <5>1, <3>2 DEF Inside
      <4> QED BY <4>1, <4>2 DEF UnderWay, Empty, Loads, Answers
    <3> QED BY <3>1, <3>2
  <2> QED BY <2>1, <2>2 DEF PipeInv
<1> QED BY <1>1, <1>3, <1>4

\* Sequences of at most one message.
LEMMA OneMessage ==
    /\ Len(<<>>) = 0
    /\ \A m : /\ Len(<<m>>) = 1 /\ <<m>> # <<>> /\ Head(<<m>>) = m
              /\ Append(<<>>, m) = <<m>> /\ Tail(<<m>>) = <<>>
  OBVIOUS

\* Whoever is in a locked section has a child, and what is under way is for it.
LEMMA Holder ==
    ASSUME ChildTypes, LockInv, ChildInv, PipeInv,
           NEW p \in Threads, of[p] \in Made, Locked(p)
    PROVE  /\ lock[of[p]] = p /\ p # None
           /\ child[of[p]] \in Children
           /\ proc[child[of[p]]] # "none" /\ ~closed[of[p]]
           /\ UnderWay(of[p], child[of[p]])
<1> USE VerifierAssumption DEF Threads
<1>1. lock[of[p]] = p /\ p # None
  BY DEF LockInv
<1>2. child[of[p]] # None
  BY <1>1 DEF LockInv
<1> QED BY <1>1, <1>2 DEF ChildTypes, ChildInv, PipeInv

\* What a thread receives was all there was.
LEMMA ReceiptEmpties ==
    ASSUME ChildTypes, LockInv, ChildInv, PipeInv,
           NEW p \in Threads, of[p] \in Made, Locked(p),
           pipe[child[of[p]]] # <<>>, Receive(p), UNCHANGED <<proc, asked>>
    PROVE  /\ asked'[child[of[p]]] = <<>> /\ pipe'[child[of[p]]] = <<>>
           /\ proc[child[of[p]]] # "loading"
           /\ \A j \in Children \ {child[of[p]]} : UNCHANGED pipe[j]
           /\ \/ Loads(p, child[of[p]])
              \/ /\ p \in Takes /\ pc[p] = "waiting"
                 /\ \E kind \in {"result", "bad"} :
                       pipe[child[of[p]]] = <<[kind |-> kind,
                                               to |-> <<p, span[p]>>]>>
           /\ asked' \in [Children -> Seq(Requests)]
           /\ pipe' \in [Children -> Seq(Messages)]
           /\ \A j \in Children : Len(asked'[j]) + Len(pipe'[j]) <= 1
<1> DEFINE k == child[of[p]]
<1>1. /\ k \in Children /\ lock[of[p]] = p /\ UnderWay(of[p], k)
  BY Holder
<1>2. /\ proc[k] # "loading" /\ asked[k] = <<>>
      /\ \/ Loads(p, k)
         \/ /\ p \in Takes /\ pc[p] = "waiting"
            /\ \E kind \in {"result", "bad"} :
                  pipe[k] = <<[kind |-> kind, to |-> <<p, span[p]>>]>>
  BY <1>1 DEF UnderWay, Empty, Loads, Answers
<1>3. \E m : pipe[k] = <<m>>
  BY <1>2 DEF Loads
<1>4. /\ pipe' = [pipe EXCEPT ![k] = Tail(pipe[k])]
      /\ pipe \in [Children -> Seq(Messages)] /\ asked' = asked
  BY DEF Receive, ChildTypes
<1>5. Tail(pipe[k]) = <<>>
  BY <1>3, OneMessage
<1>6. pipe' \in [Children -> Seq(Messages)] /\ pipe'[k] = <<>>
      /\ \A j \in Children \ {k} : pipe'[j] = pipe[j]
  BY <1>1, <1>4, <1>5
<1>7. \A j \in Children : Len(asked'[j]) + Len(pipe'[j]) <= 1
  <2>1. Len(<<>>) + Len(<<>>) <= 1
    OBVIOUS
  <2> QED BY <1>2, <1>4, <1>6, <2>1 DEF ChildTypes
<1>8. asked'[k] = <<>> /\ asked' \in [Children -> Seq(Requests)]
  BY <1>2, <1>4 DEF ChildTypes
<1> QED BY <1>2, <1>6, <1>7, <1>8

\* A thread that got its message leaves with the child empty.
LEMMA ReceiptLeaves ==
    ASSUME ChildTypes, PlaceTypes, LockInv, ChildInv, PipeInv,
           NEW p \in Threads, of[p] \in Made, Locked(p),
           pipe[child[of[p]]] # <<>>, Receive(p), Leaves(of[p]),
           UNCHANGED <<child, proc, asked, closed>>
    PROVE  ChildTypes' /\ LockInv' /\ ChildInv' /\ PipeInv'
<1> USE VerifierAssumption
<1> DEFINE s == of[p]
           k == child[s]
<1>1. /\ asked'[k] = <<>> /\ pipe'[k] = <<>>
      /\ proc[k] # "loading" /\ k \in Children
      /\ \A j \in Children \ {k} : UNCHANGED pipe[j]
  BY ReceiptEmpties, Holder
<1>2. ChildTypes'
  <2>1. /\ asked' \in [Children -> Seq(Requests)]
        /\ pipe' \in [Children -> Seq(Messages)]
        /\ \A j \in Children : Len(asked'[j]) + Len(pipe'[j]) <= 1
    BY ReceiptEmpties
  <2> QED BY <2>1 DEF ChildTypes, Leaves
<1>3. LockInv'
  BY LeavingKeepsLocks
<1>4. ChildInv'
  BY DEF ChildInv
<1>5. PipeInv'
  <2>1. \A j \in Children : proc'[j] = "none" => Empty(j)'
    BY <1>1 DEF PipeInv, Empty
  <2>2. ASSUME NEW r \in Made, child'[r] # None PROVE UnderWay(r, child[r])'
    <3>1. CASE r = s
      BY <3>1, <1>1 DEF UnderWay, Empty
    <3>2. CASE r # s
      <4>1. /\ child[r] \in Children \ {k}
            /\ UNCHANGED <<child[r], proc[child[r]], asked[child[r]],
                           pipe[child[r]]>>
        BY <3>2, <2>2, <1>1 DEF ChildInv, ChildTypes
      <4>2. /\ lock'[r] = lock[r]
            /\ lock[r] # None => Locked(lock[r]) /\ of[lock[r]] = r
                                 /\ lock[r] \in Threads
        BY <3>2, LeavingKeepsLocks
      <4> QED BY <4>1, <4>2, <2>2, <3>2, ElsewhereUnderWay
    <3> QED BY <3>1, <3>2
  <2> QED BY <2>1, <2>2 DEF PipeInv
<1> QED BY <1>2, <1>3, <1>4, <1>5

LEMMA MoveIsOutside ==
    ASSUME PlaceTypes, NEW p \in Threads, ~Locked(p),
           NEW place \in Places \ {"loading", "send", "waiting"},
           Moves(p, place), UNCHANGED <<lock, children, closed>>,
           \A t \in Takes \ {p} : UNCHANGED span[t]
    PROVE  Outside
<1>1. \A q \in Threads \ {p} : pc'[q] = pc[q] /\ of'[q] = of[q]
  BY DEF PlaceTypes, Moves
<1>2. pc'[p] = place
  BY DEF PlaceTypes, Moves
<1> QED BY <1>1, <1>2 DEF Outside, Locked, Threads

LEMMA MoveLeaves ==
    ASSUME PlaceTypes, LockInv, NEW p \in Threads, Locked(p),
           NEW place \in Places \ {"loading", "send", "waiting"},
           Moves(p, place), Unlocks(p),
           \A t \in Takes \ {p} : UNCHANGED span[t]
    PROVE  Leaves(of[p])
<1>1. \A q \in Threads \ {p} : pc'[q] = pc[q] /\ of'[q] = of[q]
  BY DEF PlaceTypes, Moves
<1>2. pc'[p] = place
  BY DEF PlaceTypes, Moves
<1>3. \A q \in Threads : Locked(q) /\ of[q] = of[p] => q = p
  BY DEF LockInv
<1>4. ASSUME NEW q \in Threads
      PROVE  IF Locked(q) /\ of[q] # of[p]
             THEN /\ Locked(q)' /\ UNCHANGED <<pc[q], of[q]>>
                  /\ q \in Takes => UNCHANGED span[q]
             ELSE ~Locked(q)'
  <2>1. CASE q = p
    BY <2>1, <1>2 DEF Locked
  <2>2. CASE q # p
    BY <2>2, <1>1, <1>3 DEF Locked
  <2> QED BY <2>1, <2>2
<1> QED BY <1>4 DEF Leaves, Unlocks

LEMMA AnswersKept ==
    ASSUME AnswerIsOwn, PlaceTypes, NEW p \in Threads,
           NEW place \in Places, pc' = [pc EXCEPT ![p] = place],
           \A u \in Takes \ {p} : UNCHANGED <<span[u], answer[u]>>,
           place = "answered" => answer'[p] = <<p, span'[p]>>
    PROVE  AnswerIsOwn'
<1> SUFFICES ASSUME NEW u \in Takes, pc'[u] = "answered"
             PROVE  answer'[u] = <<u, span'[u]>>
  BY DEF AnswerIsOwn
<1>1. CASE u = p
  <2>1. place = "answered"
    BY <1>1 DEF PlaceTypes
  <2> QED BY <1>1, <2>1
<1>2. CASE u # p
  <2>1. pc'[u] = pc[u]
    BY <1>2 DEF PlaceTypes, Threads
  <2> QED BY <1>2, <2>1 DEF AnswerIsOwn
<1> QED BY <1>1, <1>2

\* The end of a span, or of the take.
LEMMA SpanEnds ==
    ASSUME TakeTypes, FlagTypes, NEW t \in Takes, NextSpan(t) \/ EndsTake(t)
    PROVE  /\ late' \in [Threads -> BOOLEAN]
           /\ span' \in [Takes -> 1..MaxSpans]
           /\ \A u \in Takes \ {t} : UNCHANGED span[u]
           /\ \E place \in {"span", "done"} : Moves(t, place)
<1>1. CASE EndsTake(t)
  <2>1. Moves(t, "done") /\ span' = [span EXCEPT ![t] = 1]
        /\ late' = [late EXCEPT ![t] = FALSE]
    BY <1>1 DEF EndsTake, Ends, Moves
  <2>2. 1 \in 1..MaxSpans
    BY VerifierAssumption
  <2>3. late' \in [Threads -> BOOLEAN]
    BY <2>1 DEF FlagTypes
  <2> QED BY <2>1, <2>2, <2>3 DEF TakeTypes, FlagTypes
<1>2. CASE NextSpan(t) /\ span[t] < MaxSpans
  <2>1. Moves(t, "span") /\ span' = [span EXCEPT ![t] = span[t] + 1]
        /\ late' = late
    BY <1>2 DEF NextSpan, Goes, Moves
  <2>2. span[t] + 1 \in 1..MaxSpans
    BY <1>2, VerifierAssumption DEF TakeTypes
  <2> QED BY <2>1, <2>2 DEF TakeTypes, FlagTypes
<1> QED BY <1>1, <1>2 DEF NextSpan

\* A thread moves, and whatever the lock protects is as it should be.
LEMMA ThreadKeeps ==
    ASSUME IInv, UNCHANGED <<made, current, abandoned, main, stale, closed>>,
           NEW p \in Threads, pc[p] \notin {"idle", "done", "starting"},
           NEW place \in Places \ {"starting"}, Moves(p, place),
           \/ p \in Takes /\ place # "finally" /\ warming' = warming
           \/ /\ p \in Workers /\ place \in {"lock", "loading", "finally"}
              /\ warming' = warming
           \/ /\ p \in Workers /\ place = "idle"
              /\ warming' = (warming /\ current # of[p]),
           warming' \in BOOLEAN, late' \in [Threads -> BOOLEAN], TakeTypes',
           \A u \in Takes \ {p} : UNCHANGED <<span[u], answer[u]>>,
           place = "answered" => answer'[p] = <<p, span'[p]>>,
           ChildTypes' /\ LockInv' /\ ChildInv' /\ PipeInv'
    PROVE  IInv'
<1>1. /\ MadeTypes /\ MenuTypes /\ FlagTypes /\ PlaceTypes
      /\ PlaceInv /\ WarmingHasOneWorker /\ AnswerIsOwn
  BY Parts
<1>2. PlaceTypes' /\ PlaceInv' /\ WarmingHasOneWorker'
  BY <1>1, MoveKeepsPlaces
<1>3. AnswerIsOwn'
  BY <1>1, AnswersKept DEF Moves
<1>4. MadeTypes' /\ MenuTypes'
  BY <1>1 DEF MadeTypes, MenuTypes
<1>5. FlagTypes'
  BY <1>1 DEF FlagTypes
<1> QED BY <1>2, <1>3, <1>4, <1>5, Whole

-----------------------------------------------------------------------------
(* One lemma per action.                                                   *)

LEMMA TurnOnKeeps == ASSUME IInv, TurnOn PROVE IInv'
<1>1. /\ MadeTypes /\ MenuTypes /\ FlagTypes
      /\ ChildTypes /\ PlaceTypes /\ TakeTypes
      /\ PlaceInv /\ LockInv /\ ChildInv /\ PipeInv
      /\ WarmingHasOneWorker /\ AnswerIsOwn
  BY Parts
<1>2. /\ UNCHANGED <<warming, abandoned, stale, closed, lock, child, proc>>
      /\ UNCHANGED <<asked, pipe, pc, of, late, span, answer>>
      /\ main = "free" /\ main' = "schedule"
      /\ \/ UNCHANGED <<made, current>>
         \/ /\ current = 0 /\ made < MaxMade
            /\ made' = made + 1 /\ current' = made + 1
  BY DEF TurnOn, children, places, takes
<1>3. made' \in 0..MaxMade /\ made <= made' /\ current' \in 0..made'
  BY <1>1, <1>2, VerifierAssumption DEF MadeTypes
<1>4. MadeTypes'
  BY <1>1, <1>2, <1>3, VerifierAssumption DEF MadeTypes
<1>5. MenuTypes'
  BY <1>2 DEF MenuTypes
<1>6. FlagTypes'
  BY <1>1, <1>2 DEF FlagTypes
<1>7. PlaceTypes'
  <2>1. \A i \in 0..made : i \in 0..made'
    BY <1>1, <1>3, VerifierAssumption DEF MadeTypes
  <2> QED BY <1>1, <1>2, <2>1 DEF PlaceTypes
<1>8. TakeTypes' /\ PlaceInv' /\ AnswerIsOwn'
  BY <1>1, <1>2 DEF TakeTypes, PlaceInv, AnswerIsOwn
<1>9. Outside
  BY <1>2 DEF Outside, Locked, children
<1>10. WarmingHasOneWorker'
  <2>1. \A p \in Threads \cup {None} : \A s : Warms(p, s)' <=> Warms(p, s)
    BY <1>2 DEF Warms
  <2>2. CASE UNCHANGED current
    BY <1>1, <1>2, <2>1, <2>2, SameWarmers
  <2>3. CASE current = 0 /\ current' = made + 1
    <3>1. \A p \in Threads \cup {None} : ~Warms(p, 0) /\ ~Warms(p, made + 1)
      <4>1. made \in Int /\ \A p \in Threads : of[p] # made + 1
        BY <1>1, VerifierAssumption DEF PlaceTypes, MadeTypes
      <4> QED BY <1>1, <1>2, <4>1, NobodyWarmsNone DEF Warms, Threads
    <3>2. 0 \notin abandoned /\ made + 1 \notin abandoned
      BY <1>1, VerifierAssumption DEF MadeTypes
    <3> QED BY <1>1, <1>2, <2>1, <2>3, <3>1, <3>2 DEF WarmingHasOneWorker
  <2> QED BY <1>2, <2>2, <2>3
<1> QED
  BY <1>1, <1>4, <1>5, <1>6, <1>7, <1>8, <1>9, <1>10, OutsideKeeps, Whole

LEMMA TurnOffKeeps == ASSUME IInv, TurnOff PROVE IInv'
<1>1. /\ MadeTypes /\ MenuTypes /\ FlagTypes
      /\ ChildTypes /\ PlaceTypes /\ TakeTypes
      /\ PlaceInv /\ LockInv /\ ChildInv /\ PipeInv
      /\ WarmingHasOneWorker /\ AnswerIsOwn
  BY Parts
<1>2. /\ UNCHANGED <<made, abandoned, closed, lock, child, proc, asked, pipe>>
      /\ UNCHANGED <<pc, of, late, span, answer>>
      /\ current # 0 /\ current' = 0 /\ stale' = current
      /\ main = "free" /\ main' \in {"close", "close and go"}
  BY DEF TurnOff, children, places, takes
<1>3. warming' = FALSE
  BY DEF TurnOff
<1>4. MadeTypes'
  <2>1. 0 \in 0..made /\ made \in 0..MaxMade
    BY <1>1, VerifierAssumption DEF MadeTypes
  <2> QED BY <1>1, <1>2, <2>1 DEF MadeTypes
<1>5. MenuTypes'
  BY <1>2 DEF TurnOff, MenuTypes
<1>6. FlagTypes'
  BY <1>1, <1>2, <1>3 DEF FlagTypes
<1>7. PlaceTypes' /\ TakeTypes' /\ PlaceInv' /\ AnswerIsOwn'
  BY <1>1, <1>2 DEF PlaceTypes, TakeTypes, PlaceInv, AnswerIsOwn
<1>8. Outside
  BY <1>2 DEF Outside, Locked, children
<1>9. WarmingHasOneWorker'
  <2>1. \A p \in Threads \cup {None} : \A s : Warms(p, s)' <=> Warms(p, s)
    BY <1>2 DEF Warms
  <2>2. \A p \in Threads \cup {None} : ~Warms(p, 0)
    BY <1>1, NobodyWarmsNone
  <2>3. 0 \notin abandoned
    BY <1>1 DEF MadeTypes
  <2> QED BY <1>1, <1>2, <1>3, <2>1, <2>2, <2>3 DEF WarmingHasOneWorker
<1> QED
  BY <1>1, <1>4, <1>5, <1>6, <1>7, <1>8, <1>9, OutsideKeeps, Whole

\* Somebody has set the flag for a supervisor that none warms.
LEMMA FlagSet ==
    ASSUME WarmingHasOneWorker, WarmsCurrent, UNCHANGED <<current, abandoned>>,
           warming' = TRUE, NEW p \in Threads \cup {None},
           Warms(p, current)', \A s : s # current => ~Warms(p, s)',
           \A q \in (Threads \cup {None}) \ {p} : \A s :
                Warms(q, s)' <=> Warms(q, s)
    PROVE  WarmingHasOneWorker'
<1>1. /\ current \notin abandoned
      /\ \A q \in Threads \cup {None} : ~Warms(q, current)
  BY DEF WarmingHasOneWorker, WarmsCurrent
<1> QED BY <1>1 DEF WarmingHasOneWorker

\* The thread is started, or not: whoever had set the flag hands its supervisor
\* over to a worker, or leaves it to nobody.
LEMMA HandedOver ==
    ASSUME WarmingHasOneWorker, UNCHANGED <<current, warming>>,
           NEW s \in Made, NEW p \in Threads \cup {None}, Warms(p, s),
           \A r : r # s => ~Warms(p, r),
           \A r : ~Warms(p, r)',
           \/ /\ abandoned' = abandoned
              /\ \E w \in Threads \ {p} :
                    /\ \A r : ~Warms(w, r) /\ (Warms(w, r)' <=> r = s)
                    /\ \A q \in (Threads \cup {None}) \ {p, w} : \A r :
                          Warms(q, r)' <=> Warms(q, r)
           \/ /\ abandoned' = abandoned \cup {s}
              /\ \A q \in (Threads \cup {None}) \ {p} : \A r :
                    Warms(q, r)' <=> Warms(q, r)
    PROVE  WarmingHasOneWorker'
<1>1. /\ s \notin abandoned
      /\ \A q \in (Threads \cup {None}) \ {p} : ~Warms(q, s)
  BY DEF WarmingHasOneWorker
<1>2. ASSUME abandoned' = abandoned, NEW w \in Threads \ {p},
             \A r : ~Warms(w, r) /\ (Warms(w, r)' <=> r = s),
             \A q \in (Threads \cup {None}) \ {p, w} : \A r :
                Warms(q, r)' <=> Warms(q, r)
      PROVE  WarmingHasOneWorker'
  <2>1. /\ \A r \in Made : \A q, o \in Threads \cup {None} :
                Warms(q, r)' /\ Warms(o, r)' => q = o
        /\ \A r \in abandoned' : \A q \in Threads \cup {None} : ~Warms(q, r)'
    BY <1>1, <1>2 DEF WarmingHasOneWorker
  <2>2. (\E q \in Threads \cup {None} : Warms(q, current)')
        <=> (\E q \in Threads \cup {None} : Warms(q, current))
    BY <1>2
  <2> QED BY <1>2, <2>1, <2>2 DEF WarmingHasOneWorker
<1>3. ASSUME abandoned' = abandoned \cup {s},
             \A q \in (Threads \cup {None}) \ {p} : \A r :
                Warms(q, r)' <=> Warms(q, r)
      PROVE  WarmingHasOneWorker'
  BY <1>1, <1>3 DEF WarmingHasOneWorker
<1> QED BY <1>2, <1>3

\* A thread outside the locked sections that moves to a place outside them.
LEMMA NoLockTouched ==
    ASSUME IInv, UNCHANGED <<made, stale, closed, lock, child, proc, asked>>,
           UNCHANGED <<pipe, span, answer>>,
           \A p \in Threads :
                \/ UNCHANGED <<pc[p], of[p]>>
                \/ ~Locked(p) /\ pc'[p] \in {"starting", "lock", "span", "done"},
           warming' \in BOOLEAN, late' \in [Threads -> BOOLEAN],
           MadeTypes', MenuTypes', PlaceTypes', PlaceInv', WarmingHasOneWorker'
    PROVE  IInv'
<1>0. /\ FlagTypes /\ ChildTypes /\ TakeTypes
      /\ LockInv /\ ChildInv /\ PipeInv /\ AnswerIsOwn
  BY Parts
<1>1. FlagTypes' /\ TakeTypes'
  BY <1>0 DEF FlagTypes, TakeTypes
<1>2. AnswerIsOwn'
  BY <1>0 DEF AnswerIsOwn, Threads
<1>3. Outside
  BY DEF Outside, Locked, children
<1> QED BY <1>0, <1>1, <1>2, <1>3, OutsideKeeps, Whole

LEMMA ScheduleKeeps == ASSUME IInv, Schedule PROVE IInv'
<1>0. /\ MadeTypes /\ MenuTypes /\ FlagTypes /\ PlaceTypes
      /\ PlaceInv /\ WarmingHasOneWorker
  BY Parts
<1>1. /\ UNCHANGED <<made, current, abandoned, stale, closed, lock, child>>
      /\ UNCHANGED <<proc, asked, pipe, pc, of, late, span, answer>>
      /\ main = "schedule"
  BY DEF Schedule, children, places, takes
<1>2. MadeTypes' /\ MenuTypes' /\ PlaceTypes'
  BY <1>0, <1>1 DEF Schedule, MadeTypes, MenuTypes, PlaceTypes
<1>3. PlaceInv'
  BY <1>0, <1>1 DEF Schedule, WarmsCurrent, PlaceInv
<1>4. WarmingHasOneWorker' /\ warming' \in BOOLEAN
  <2>1. CASE WarmsCurrent /\ warming' = TRUE /\ main' = "start"
    <3>1. /\ Warms(None, current)' /\ \A s : s # current => ~Warms(None, s)'
          /\ \A q \in Threads : \A s : q # None /\ (Warms(q, s)' <=> Warms(q, s))
      BY <1>1, <2>1, VerifierAssumption DEF Warms, Threads
    <3> QED BY <1>0, <1>1, <2>1, <3>1, FlagSet
  <2>2. CASE main' = "free" /\ UNCHANGED warming
    <3>1. \A q \in Threads \cup {None} : \A s : Warms(q, s)' <=> Warms(q, s)
      BY <1>1, <2>2 DEF Warms
    <3> QED BY <1>0, <1>1, <2>2, <3>1, SameWarmers DEF FlagTypes
  <2> QED BY <2>1, <2>2 DEF Schedule
<1>5. late' \in [Threads -> BOOLEAN]
  BY <1>0, <1>1 DEF FlagTypes
<1> QED BY <1>1, <1>2, <1>3, <1>4, <1>5, NoLockTouched

LEMMA MenuStartsKeeps == ASSUME IInv, MenuStarts PROVE IInv'
<1> USE VerifierAssumption DEF Threads
<1>0. /\ MadeTypes /\ MenuTypes /\ FlagTypes /\ PlaceTypes
      /\ PlaceInv /\ WarmingHasOneWorker
  BY Parts
<1>1. /\ UNCHANGED <<made, current, warming, stale, closed, lock, child>>
      /\ UNCHANGED <<proc, asked, pipe, span, answer>>
      /\ main = "start" /\ main' = "free"
  BY DEF MenuStarts, children, takes
<1>2. current \in Made /\ current \in 1..made /\ current # 0
  <2>1. current # 0
    BY <1>0, <1>1 DEF PlaceInv
  <2> QED BY <1>0, <2>1 DEF MadeTypes, Made
<1>3. MenuTypes' /\ warming' \in BOOLEAN
  BY <1>0, <1>1 DEF MenuTypes, FlagTypes
<1>4. /\ Warms(None, current) /\ \A r : r # current => ~Warms(None, r)
      /\ \A r : ~Warms(None, r)'
  BY <1>1 DEF Warms
<1>5. CASE StartsWorker(current, pc, of)
  <2>1. PICK w \in Workers :
          /\ pc[w] = "idle" /\ UNCHANGED <<late, abandoned>>
          /\ pc' = [pc EXCEPT ![w] = "lock"]
          /\ of' = [of EXCEPT ![w] = current]
    BY <1>5 DEF StartsWorker
  <2>2. /\ pc'[w] = "lock" /\ of'[w] = current /\ w # None
        /\ \A q \in Threads \ {w} : UNCHANGED <<pc[q], of[q]>>
    BY <1>0, <2>1 DEF PlaceTypes
  <2>3. MadeTypes' /\ PlaceTypes'
    BY <1>0, <1>1, <1>2, <2>1 DEF MadeTypes, PlaceTypes, Places
  <2>4. PlaceInv'
    BY <1>0, <1>1, <1>2, <2>2 DEF PlaceInv
  <2>5. /\ \A r : ~Warms(w, r) /\ (Warms(w, r)' <=> r = current)
        /\ \A q \in (Threads \cup {None}) \ {None, w} : \A r :
              Warms(q, r)' <=> Warms(q, r)
    BY <2>1, <2>2 DEF Warms
  <2>6. WarmingHasOneWorker'
    BY <1>0, <1>1, <1>2, <1>4, <2>1, <2>2, <2>5, HandedOver
  <2>7. late' \in [Threads -> BOOLEAN]
    BY <1>0, <2>1 DEF FlagTypes
  <2>8. ~Locked(w)
    BY <2>1 DEF Locked
  <2> QED
    BY <1>1, <1>3, <2>2, <2>3, <2>4, <2>6, <2>7, <2>8, NoLockTouched
<1>6. CASE abandoned' = abandoned \cup {current} /\ UNCHANGED places
  <2>1. UNCHANGED <<pc, of, late>>
    BY <1>6 DEF places
  <2>2. MadeTypes' /\ PlaceTypes' /\ PlaceInv'
    BY <1>0, <1>1, <1>2, <1>6, <2>1 DEF MadeTypes, PlaceTypes, PlaceInv
  <2>3. \A q \in (Threads \cup {None}) \ {None} : \A r :
            Warms(q, r)' <=> Warms(q, r)
    BY <1>1, <2>1 DEF Warms
  <2>4. WarmingHasOneWorker'
    BY <1>0, <1>1, <1>2, <1>4, <1>6, <2>3, HandedOver
  <2>5. late' \in [Threads -> BOOLEAN]
    BY <1>0, <2>1 DEF FlagTypes
  <2> QED BY <1>1, <1>3, <2>1, <2>2, <2>4, <2>5, NoLockTouched
<1> QED BY <1>5, <1>6 DEF MenuStarts

LEMMA AskKeeps == ASSUME IInv, NEW t \in Takes, Ask(t) PROVE IInv'
<1> USE VerifierAssumption DEF Threads
<1>0. /\ MadeTypes /\ MenuTypes /\ FlagTypes /\ PlaceTypes
      /\ PlaceInv /\ WarmingHasOneWorker
  BY Parts
<1>1. /\ UNCHANGED <<made, current, abandoned, main, stale, closed, lock>>
      /\ UNCHANGED <<child, proc, asked, pipe, span, answer>>
      /\ pc[t] = "idle" /\ t \notin Workers /\ t # None
  BY DEF Ask, children, takes
<1>2. MadeTypes' /\ MenuTypes'
  BY <1>0, <1>1 DEF MadeTypes, MenuTypes
<1>3. PICK place \in {"span", "starting", "done"} :
        /\ pc' = [pc EXCEPT ![t] = place]
        /\ IF place = "done" THEN of' = [of EXCEPT ![t] = 0]
           ELSE current # 0 /\ of' = [of EXCEPT ![t] = current]
        /\ IF place = "starting" THEN WarmsCurrent /\ warming' = TRUE
           ELSE warming' = warming
        /\ late' \in [Threads -> BOOLEAN]
  BY <1>0 DEF Ask, Ends, FlagTypes, WarmsCurrent
<1>4. /\ pc'[t] = place /\ (of'[t] = 0 <=> place = "done")
      /\ place # "done" => of'[t] = current
      /\ \A q \in Threads \ {t} : UNCHANGED <<pc[q], of[q]>>
  BY <1>0, <1>3 DEF PlaceTypes
<1>5. PlaceTypes'
  <2>1. 0 \in 0..made /\ current \in 0..made
    BY <1>0 DEF MadeTypes
  <2> QED BY <1>0, <1>1, <1>3, <2>1 DEF PlaceTypes, Places
<1>6. PlaceInv'
  BY <1>0, <1>1, <1>4 DEF PlaceInv
<1>7. \A q \in (Threads \cup {None}) \ {t} : \A r : Warms(q, r)' <=> Warms(q, r)
  BY <1>1, <1>4 DEF Warms
<1>8. WarmingHasOneWorker' /\ warming' \in BOOLEAN
  <2>1. CASE place = "starting"
    <3>1. Warms(t, current)' /\ \A r : r # current => ~Warms(t, r)'
      BY <1>1, <1>4, <2>1 DEF Warms
    <3> QED BY <1>0, <1>1, <1>3, <1>7, <2>1, <3>1, FlagSet
  <2>2. CASE place # "starting"
    <3>1. \A r : Warms(t, r)' <=> Warms(t, r)
      BY <1>1, <1>4, <2>2 DEF Warms
    <3> QED BY <1>0, <1>1, <1>3, <1>7, <2>2, <3>1, SameWarmers DEF FlagTypes
  <2> QED BY <2>1, <2>2
<1>9. ~Locked(t)
  BY <1>1 DEF Locked
<1> QED BY <1>1, <1>2, <1>3, <1>4, <1>5, <1>6, <1>8, <1>9, NoLockTouched

LEMMA TakeStartsKeeps == ASSUME IInv, NEW t \in Takes, TakeStarts(t) PROVE IInv'
<1> USE VerifierAssumption DEF Threads
<1>0. /\ MadeTypes /\ MenuTypes /\ FlagTypes /\ PlaceTypes
      /\ PlaceInv /\ WarmingHasOneWorker
  BY Parts
<1>1. /\ UNCHANGED <<made, current, warming, main, stale, closed, lock>>
      /\ UNCHANGED <<child, proc, asked, pipe, span, answer>>
      /\ pc[t] = "starting" /\ t \notin Workers /\ t # None
  BY DEF TakeStarts, children, takes
<1>2. of[t] \in Made /\ of[t] \in 1..made /\ 0 \in 0..made
  BY <1>0, <1>1, SupervisorOf DEF MadeTypes
<1>3. MenuTypes' /\ warming' \in BOOLEAN
  BY <1>0, <1>1 DEF MenuTypes, FlagTypes
<1>4. Warms(t, of[t]) /\ \A r : r # of[t] => ~Warms(t, r)
  BY <1>1 DEF Warms
<1>5. ~Locked(t)
  BY <1>1 DEF Locked
<1>6. CASE StartsWorker(of[t], [pc EXCEPT ![t] = "done"], [of EXCEPT ![t] = 0])
  <2>1. PICK w \in Workers :
          /\ pc[w] = "idle" /\ UNCHANGED <<late, abandoned>>
          /\ pc' = [[pc EXCEPT ![t] = "done"] EXCEPT ![w] = "lock"]
          /\ of' = [[of EXCEPT ![t] = 0] EXCEPT ![w] = of[t]]
    BY <1>6 DEF StartsWorker
  <2>2. /\ pc'[w] = "lock" /\ of'[w] = of[t] /\ w # None /\ w # t
        /\ pc'[t] = "done" /\ of'[t] = 0
        /\ \A q \in Threads \ {t, w} : UNCHANGED <<pc[q], of[q]>>
    BY <1>0, <1>1, <2>1 DEF PlaceTypes
  <2>3. MadeTypes' /\ PlaceTypes'
    BY <1>0, <1>1, <1>2, <2>1 DEF MadeTypes, PlaceTypes, Places
  <2>4. PlaceInv'
    BY <1>0, <1>1, <1>2, <2>2 DEF PlaceInv
  <2>5. /\ \A r : ~Warms(w, r) /\ (Warms(w, r)' <=> r = of[t])
        /\ \A r : ~Warms(t, r)'
        /\ \A q \in (Threads \cup {None}) \ {t, w} : \A r :
              Warms(q, r)' <=> Warms(q, r)
    BY <1>1, <2>1, <2>2 DEF Warms
  <2>6. WarmingHasOneWorker'
    BY <1>0, <1>1, <1>2, <1>4, <2>1, <2>2, <2>5, HandedOver
  <2>7. late' \in [Threads -> BOOLEAN]
    BY <1>0, <2>1 DEF FlagTypes
  <2>8. ~Locked(w)
    BY <2>1 DEF Locked
  <2> QED
    BY <1>1, <1>3, <1>5, <2>2, <2>3, <2>4, <2>6, <2>7, <2>8, NoLockTouched
<1>7. CASE Ends(t, "done") /\ abandoned' = abandoned \cup {of[t]}
  <2>1. /\ pc' = [pc EXCEPT ![t] = "done"] /\ of' = [of EXCEPT ![t] = 0]
        /\ late' \in [Threads -> BOOLEAN]
    BY <1>0, <1>7 DEF Ends, FlagTypes
  <2>2. /\ pc'[t] = "done" /\ of'[t] = 0
        /\ \A q \in Threads \ {t} : UNCHANGED <<pc[q], of[q]>>
    BY <1>0, <2>1 DEF PlaceTypes
  <2>3. MadeTypes' /\ PlaceTypes'
    BY <1>0, <1>1, <1>2, <1>7, <2>1 DEF MadeTypes, PlaceTypes, Places
  <2>4. PlaceInv'
    BY <1>0, <1>1, <2>2 DEF PlaceInv
  <2>5. /\ \A r : ~Warms(t, r)'
        /\ \A q \in (Threads \cup {None}) \ {t} : \A r :
              Warms(q, r)' <=> Warms(q, r)
    BY <1>1, <2>2 DEF Warms
  <2>6. WarmingHasOneWorker'
    BY <1>0, <1>1, <1>2, <1>4, <1>7, <2>5, HandedOver
  <2> QED BY <1>1, <1>3, <1>5, <2>1, <2>2, <2>3, <2>4, <2>6, NoLockTouched
<1> QED BY <1>6, <1>7 DEF TakeStarts

LEMMA CloseKeeps == ASSUME IInv, Close PROVE IInv'
<1>0. /\ MadeTypes /\ MenuTypes /\ FlagTypes
      /\ ChildTypes /\ PlaceTypes /\ TakeTypes
      /\ PlaceInv /\ LockInv /\ ChildInv /\ PipeInv
      /\ WarmingHasOneWorker /\ AnswerIsOwn
  BY Parts
<1>1. /\ UNCHANGED <<made, current, warming, abandoned, lock, pc, of, late>>
      /\ UNCHANGED <<span, answer>>
      /\ main # "start" /\ main' # "start"
      /\ stale \in Made /\ stale # 0 /\ lock[stale] = None /\ Discard(stale)
      /\ closed' = [closed EXCEPT ![stale] = TRUE]
      /\ stale' = 0
  <2>1. stale # 0
    BY <1>0 DEF Close, MenuTypes
  <2>2. stale \in Made
    BY <1>0, <2>1, VerifierAssumption DEF MadeTypes, Made
  <2> QED BY <2>1, <2>2 DEF Close, places, takes
<1>2. MadeTypes'
  BY <1>0, <1>1, VerifierAssumption DEF MadeTypes
<1>3. MenuTypes'
  BY <1>0 DEF MenuTypes, Close
<1>4. FlagTypes'
  BY <1>0, <1>1 DEF FlagTypes
<1>5. PlaceTypes' /\ TakeTypes' /\ PlaceInv' /\ WarmingHasOneWorker'
      /\ AnswerIsOwn'
  <2>1. \A p \in Threads \cup {None} : \A s : Warms(p, s)' <=> Warms(p, s)
    BY <1>1 DEF Warms
  <2>2. WarmingHasOneWorker'
    BY <1>0, <1>1, <2>1, SameWarmers
  <2> QED
    BY <1>0, <1>1, <2>2 DEF PlaceTypes, TakeTypes, PlaceInv, AnswerIsOwn
<1>6. Leaves(stale)
  <2>1. lock' = [lock EXCEPT ![stale] = None]
    BY <1>0, <1>1 DEF ChildTypes
  <2>2. ASSUME NEW q \in Threads
        PROVE  (Locked(q) <=> Locked(q)') /\ (Locked(q) => of[q] # stale)
    BY <1>0, <1>1, VerifierAssumption DEF Locked, LockInv, Threads
  <2> QED BY <1>1, <2>1, <2>2 DEF Leaves
<1>7. \A r \in Made \ {stale} : UNCHANGED closed[r]
  BY <1>0, <1>1 DEF FlagTypes
<1>8. ChildTypes' /\ LockInv' /\ ChildInv' /\ PipeInv'
  <2> DEFINE s == stale
  <2>1. s \in Made /\ Discard(s) /\ Leaves(s)
        /\ \A r \in Made \ {s} : UNCHANGED closed[r]
    BY <1>1, <1>6, <1>7
  <2> HIDE DEF s
  <2> QED BY <1>0, <2>1, DiscardKeeps
<1> QED BY <1>2, <1>3, <1>4, <1>5, <1>8, Whole

LEMMA WarmKeeps == ASSUME IInv, NEW w \in Workers, Warm(w) PROVE IInv'
<1>0. /\ MadeTypes /\ MenuTypes /\ FlagTypes
      /\ ChildTypes /\ PlaceTypes /\ TakeTypes
      /\ PlaceInv /\ LockInv /\ ChildInv /\ PipeInv
      /\ WarmingHasOneWorker /\ AnswerIsOwn
  BY Parts
<1>1. /\ UNCHANGED <<made, current, warming, abandoned, main, stale, closed,
                     span, answer>>
      /\ pc[w] = "lock" /\ lock[of[w]] = None /\ w \in Threads /\ of[w] \in Made
  BY <1>0, SupervisorOf DEF Warm, supervisors, takes, Threads
<1>2. TakeTypes' /\ warming' \in BOOLEAN
  BY <1>0, <1>1 DEF TakeTypes, FlagTypes
<1>3. CASE Goes(w, "finally") /\ UNCHANGED <<lock, children>>
  <2>1. Moves(w, "finally") /\ late' = late
    BY <1>3 DEF Goes, Moves
  <2>2. Outside
    BY <1>0, <1>1, <1>3, <2>1, MoveIsOutside DEF Locked, Places
  <2>3. ChildTypes' /\ LockInv' /\ ChildInv' /\ PipeInv'
    BY <1>0, <2>2, OutsideKeeps
  <2>4. late' \in [Threads -> BOOLEAN]
    BY <1>0, <2>1 DEF FlagTypes
  <2> QED BY <1>1, <1>2, <2>1, <2>3, <2>4, ThreadKeeps DEF Places
<1>4. CASE /\ ~closed[of[w]] /\ ~HasChild(of[w])
           /\ StartChild(of[w]) /\ Goes(w, "loading") /\ Locks(w)
  <2>1. Moves(w, "loading") /\ late' = late
    BY <1>4 DEF Goes, Moves
  <2>2. ChildTypes' /\ LockInv' /\ ChildInv' /\ PipeInv'
    BY <1>0, <1>1, <1>4, StartKeeps DEF Locked
  <2>3. late' \in [Threads -> BOOLEAN]
    BY <1>0, <2>1 DEF FlagTypes
  <2> QED BY <1>1, <1>2, <2>1, <2>2, <2>3, ThreadKeeps DEF Places
<1> QED BY <1>3, <1>4 DEF Warm

LEMMA WarmEndsKeeps == ASSUME IInv, NEW w \in Workers, WarmEnds(w) PROVE IInv'
<1>0. /\ MadeTypes /\ MenuTypes /\ FlagTypes
      /\ ChildTypes /\ PlaceTypes /\ TakeTypes
      /\ PlaceInv /\ LockInv /\ ChildInv /\ PipeInv
      /\ WarmingHasOneWorker /\ AnswerIsOwn
  BY Parts
<1>1. /\ UNCHANGED <<made, current, warming, abandoned, main, stale, closed,
                     span, answer>>
      /\ pc[w] = "loading" /\ w \in Threads /\ of[w] \in Made
      /\ Unlocks(w) /\ Goes(w, "finally")
  BY <1>0, SupervisorOf DEF WarmEnds, supervisors, takes, Threads
<1>2. TakeTypes' /\ warming' \in BOOLEAN /\ late' \in [Threads -> BOOLEAN]
  BY <1>0, <1>1 DEF TakeTypes, FlagTypes, Goes
<1>3. Moves(w, "finally") /\ Locked(w)
  BY <1>1 DEF Goes, Moves, Locked
<1>4. Leaves(of[w])
  BY <1>0, <1>1, <1>3, MoveLeaves DEF Places
<1>5. ChildTypes' /\ LockInv' /\ ChildInv' /\ PipeInv'
  <2>1. CASE Discard(of[w])
    BY <1>0, <1>1, <1>4, <2>1, DiscardKeeps
  <2>2. CASE /\ Has(w, "ready") /\ Receive(w)
             /\ UNCHANGED <<child, proc, asked>>
    <3>1. pipe[child[of[w]]] # <<>>
      BY <2>2 DEF Has
    <3> QED BY <1>0, <1>1, <1>3, <1>4, <2>2, <3>1, ReceiptLeaves
  <2> QED BY <2>1, <2>2 DEF WarmEnds
<1> QED BY <1>1, <1>2, <1>3, <1>5, ThreadKeeps DEF Places

LEMMA WorkerEndsKeeps ==
    ASSUME IInv, NEW w \in Workers, WorkerEnds(w) PROVE IInv'
<1>0. /\ MadeTypes /\ MenuTypes /\ FlagTypes
      /\ ChildTypes /\ PlaceTypes /\ TakeTypes
      /\ PlaceInv /\ LockInv /\ ChildInv /\ PipeInv
      /\ WarmingHasOneWorker /\ AnswerIsOwn
  BY Parts
<1>1. /\ UNCHANGED <<made, current, abandoned, main, stale, closed, lock,
                     child, proc, asked, pipe, span, answer>>
      /\ pc[w] = "finally" /\ w \in Threads
      /\ warming' = (warming /\ current # of[w]) /\ Ends(w, "idle")
  BY DEF WorkerEnds, children, takes, Threads
<1>2. Moves(w, "idle") /\ late' = [late EXCEPT ![w] = FALSE]
  BY <1>1 DEF Ends, Moves
<1>3. TakeTypes'
  BY <1>0, <1>1 DEF TakeTypes
<1>4. warming' \in BOOLEAN
  BY <1>1
<1>5. late' \in [Threads -> BOOLEAN]
  BY <1>0, <1>2 DEF FlagTypes
<1>6. Outside
  BY <1>0, <1>1, <1>2, MoveIsOutside DEF Locked, Places, children
<1>7. ChildTypes' /\ LockInv' /\ ChildInv' /\ PipeInv'
  BY <1>0, <1>6, OutsideKeeps
<1> QED BY <1>1, <1>2, <1>3, <1>4, <1>5, <1>7, ThreadKeeps DEF Places

LEMMA BeginSpanKeeps == ASSUME IInv, NEW t \in Takes, BeginSpan(t) PROVE IInv'
<1>0. /\ MadeTypes /\ MenuTypes /\ FlagTypes
      /\ ChildTypes /\ PlaceTypes /\ TakeTypes
      /\ PlaceInv /\ LockInv /\ ChildInv /\ PipeInv
      /\ WarmingHasOneWorker /\ AnswerIsOwn
  BY Parts
<1>1. /\ UNCHANGED <<made, current, warming, abandoned, main, stale, closed,
                     lock, child, proc, asked, pipe, answer>>
      /\ pc[t] = "span" /\ t \in Threads
  BY DEF BeginSpan, supervisors, children, Threads
<1>2. /\ late' \in [Threads -> BOOLEAN]
      /\ span' \in [Takes -> 1..MaxSpans]
      /\ \A u \in Takes \ {t} : UNCHANGED span[u]
      /\ \E place \in {"lock", "span", "done"} : Moves(t, place)
  <2>1. CASE EndsTake(t)
    BY <1>0, <2>1, SpanEnds
  <2>2. CASE Goes(t, "lock") /\ UNCHANGED span
    BY <1>0, <2>2 DEF Goes, Moves, FlagTypes, TakeTypes
  <2> QED BY <2>1, <2>2 DEF BeginSpan
<1>3. PICK place \in {"lock", "span", "done"} : Moves(t, place)
  BY <1>2
<1>4. TakeTypes' /\ warming' \in BOOLEAN
  BY <1>0, <1>1, <1>2 DEF TakeTypes, FlagTypes
<1>5. Outside
  BY <1>0, <1>1, <1>2, <1>3, MoveIsOutside DEF Locked, Places, children
<1>6. ChildTypes' /\ LockInv' /\ ChildInv' /\ PipeInv'
  BY <1>0, <1>5, OutsideKeeps
<1> QED BY <1>1, <1>2, <1>3, <1>4, <1>6, ThreadKeeps DEF Places

LEMMA VerifyKeeps == ASSUME IInv, NEW t \in Takes, Verify(t) PROVE IInv'
<1>0. /\ MadeTypes /\ MenuTypes /\ FlagTypes
      /\ ChildTypes /\ PlaceTypes /\ TakeTypes
      /\ PlaceInv /\ LockInv /\ ChildInv /\ PipeInv
      /\ WarmingHasOneWorker /\ AnswerIsOwn
  BY Parts
<1>1. /\ UNCHANGED <<made, current, warming, abandoned, main, stale, closed,
                     answer>>
      /\ pc[t] = "lock" /\ t \in Threads /\ of[t] \in Made /\ lock[of[t]] = None
  BY <1>0, SupervisorOf DEF Verify, supervisors, Threads
<1>2. warming' \in BOOLEAN
  BY <1>0, <1>1 DEF FlagTypes
<1>3. CASE NextSpan(t) /\ UNCHANGED <<lock, children>>
  <2>1. /\ late' \in [Threads -> BOOLEAN]
        /\ span' \in [Takes -> 1..MaxSpans]
        /\ \A u \in Takes \ {t} : UNCHANGED span[u]
        /\ \E place \in {"span", "done"} : Moves(t, place)
    BY <1>0, <1>3, SpanEnds
  <2>2. PICK place \in {"span", "done"} : Moves(t, place)
    BY <2>1
  <2>3. Outside
    BY <1>0, <1>1, <1>3, <2>1, <2>2, MoveIsOutside DEF Locked, Places
  <2>4. ChildTypes' /\ LockInv' /\ ChildInv' /\ PipeInv'
    BY <1>0, <2>3, OutsideKeeps
  <2>5. TakeTypes'
    BY <1>0, <1>1, <2>1 DEF TakeTypes
  <2> QED BY <1>1, <1>2, <2>1, <2>2, <2>4, <2>5, ThreadKeeps DEF Places
<1>4. CASE /\ ~closed[of[t]] /\ Locks(t) /\ UNCHANGED span
           /\ ~HasChild(of[t]) /\ Goes(t, "loading") /\ StartChild(of[t])
  <2>1. Moves(t, "loading") /\ late' = late
    BY <1>4 DEF Goes, Moves
  <2>2. ChildTypes' /\ LockInv' /\ ChildInv' /\ PipeInv'
    BY <1>0, <1>1, <1>4, StartKeeps DEF Locked
  <2>3. late' \in [Threads -> BOOLEAN] /\ TakeTypes'
    BY <1>0, <1>1, <1>4, <2>1 DEF FlagTypes, TakeTypes
  <2> QED BY <1>1, <1>2, <1>4, <2>1, <2>2, <2>3, ThreadKeeps DEF Places
<1>5. CASE /\ ~closed[of[t]] /\ Locks(t) /\ UNCHANGED span
           /\ HasChild(of[t]) /\ Goes(t, "send") /\ UNCHANGED children
  <2> DEFINE s == of[t]
  <2>1. /\ Moves(t, "send") /\ late' = late /\ of' = of
        /\ pc' = [pc EXCEPT ![t] = "send"] /\ lock' = [lock EXCEPT ![s] = t]
        /\ UNCHANGED <<child, proc, asked, pipe, span, closed>>
        /\ child[s] # None /\ t # None
    BY <1>1, <1>5, VerifierAssumption
       DEF Goes, Moves, Locks, children, HasChild
  <2>2. ChildTypes'
    BY <1>0, <1>1, <2>1 DEF ChildTypes
  <2>3. /\ pc'[t] = "send" /\ lock'[s] = t
        /\ \A q \in Threads \ {t} : pc'[q] = pc[q]
        /\ \A r \in Made \ {s} : lock'[r] = lock[r]
        /\ \A r \in Made \ {s} : lock[r] # None =>
              lock[r] \in Threads /\ lock[r] # t
    BY <1>0, <1>1, <2>1 DEF ChildTypes, PlaceTypes, LockInv, Locked
  <2>4. LockInv'
    <3>1. ASSUME NEW q \in Threads, Locked(q)' PROVE lock'[of'[q]] = q
      <4>1. CASE q = t
        BY <4>1, <2>1, <2>3
      <4>2. CASE q # t
        <5>1. Locked(q) /\ lock[of[q]] = q /\ q # None
          BY <1>0, <3>1, <4>2, <2>3, VerifierAssumption
             DEF Locked, LockInv, Threads
        <5>2. of[q] # s
          BY <1>1, <5>1
        <5> QED BY <1>0, <2>1, <5>1, <5>2 DEF ChildTypes
      <4> QED BY <4>1, <4>2
    <3>2. ASSUME NEW r \in Made, lock'[r] # None
          PROVE  Locked(lock[r])' /\ of'[lock'[r]] = r /\ child'[r] # None
      <4>1. CASE r = s
        BY <4>1, <2>1, <2>3 DEF Locked
      <4>2. CASE r # s
        BY <1>0, <3>2, <4>2, <2>1, <2>3 DEF Locked, LockInv
      <4> QED BY <4>1, <4>2
    <3> QED BY <3>1, <3>2 DEF LockInv
  <2>5. ChildInv'
    BY <1>0, <2>1 DEF ChildInv
  <2>6. PipeInv'
    <3>1. \A k \in Children : proc'[k] = "none" => Empty(k)'
      BY <1>0, <2>1 DEF PipeInv, Empty
    <3>2. ASSUME NEW r \in Made, child'[r] # None
          PROVE  UnderWay(r, child[r])'
      <4>1. UnderWay(r, child[r])
        BY <1>0, <2>1, <3>2 DEF PipeInv
      <4>2. CASE r = s
        <5>1. Empty(child[r]) /\ proc[child[r]] # "loading"
          BY <1>1, <4>1, <4>2 DEF UnderWay
        <5> QED BY <2>1, <5>1 DEF UnderWay, Empty
      <4>3. CASE r # s
        <5>1. lock'[r] = lock[r]
              /\ (lock[r] # None => pc'[lock[r]] = pc[lock[r]])
          BY <2>3, <4>3
        <5> QED BY <2>1, <4>1, <5>1 DEF UnderWay, Empty, Loads, Answers
      <4> QED BY <4>2, <4>3
    <3> QED BY <3>1, <3>2 DEF PipeInv
  <2>7. late' \in [Threads -> BOOLEAN] /\ TakeTypes'
    BY <1>0, <1>1, <2>1 DEF FlagTypes, TakeTypes
  <2> QED BY <1>1, <1>2, <2>1, <2>2, <2>4, <2>5, <2>6, <2>7, ThreadKeeps
          DEF Places
<1> QED BY <1>3, <1>4, <1>5 DEF Verify

LEMMA ChildStartedKeeps ==
    ASSUME IInv, NEW t \in Takes, ChildStarted(t) PROVE IInv'
<1>0. /\ MadeTypes /\ MenuTypes /\ FlagTypes
      /\ ChildTypes /\ PlaceTypes /\ TakeTypes
      /\ PlaceInv /\ LockInv /\ ChildInv /\ PipeInv
      /\ WarmingHasOneWorker /\ AnswerIsOwn
  BY Parts
<1>1. /\ UNCHANGED <<made, current, warming, abandoned, main, stale, closed,
                     lock, child, proc, asked, span, answer>>
      /\ pc[t] = "loading" /\ t \in Threads /\ of[t] \in Made /\ Locked(t)
      /\ Receive(t) /\ Goes(t, "send") /\ pipe[child[of[t]]] # <<>>
  BY <1>0, SupervisorOf
     DEF ChildStarted, supervisors, takes, Threads, Locked, Has
<1>2. Moves(t, "send") /\ of' = of /\ late' = late
  BY <1>1 DEF Goes, Moves
<1>3. /\ warming' \in BOOLEAN /\ late' \in [Threads -> BOOLEAN] /\ TakeTypes'
  BY <1>0, <1>1, <1>2 DEF FlagTypes, TakeTypes
<1>4. PICK s \in Made, k \in Children :
        /\ s = of[t] /\ k = child[s] /\ proc[k] # "none"
  BY <1>0, <1>1, Holder
<1>5. /\ asked'[k] = <<>> /\ pipe'[k] = <<>> /\ proc[k] # "loading"
      /\ \A j \in Children \ {k} : UNCHANGED pipe[j]
      /\ asked' \in [Children -> Seq(Requests)]
      /\ pipe' \in [Children -> Seq(Messages)]
      /\ \A j \in Children : Len(asked'[j]) + Len(pipe'[j]) <= 1
  BY <1>0, <1>1, <1>4, ReceiptEmpties
<1>6. ChildTypes'
  BY <1>0, <1>1, <1>5 DEF ChildTypes
<1>7. Inside(s, k)
  <2>1. ASSUME NEW q \in Threads
        PROVE  /\ Locked(q) <=> Locked(q)'
               /\ Locked(q) /\ of[q] # s => UNCHANGED pc[q]
    BY <1>0, <1>1, <1>2, <1>4 DEF Moves, PlaceTypes, Locked
  <2> QED BY <1>1, <1>2, <1>5, <2>1 DEF Inside
<1>8. UnderWay(s, k)'
  BY <1>1, <1>5 DEF UnderWay, Empty
<1>9. LockInv' /\ ChildInv' /\ PipeInv'
  BY <1>0, <1>1, <1>4, <1>7, <1>8, InsideKeeps
<1> QED BY <1>1, <1>2, <1>3, <1>6, <1>9, ThreadKeeps DEF Places

LEMMA ChildReadsKeeps ==
    ASSUME IInv, NEW k \in Children, ChildReads(k) PROVE IInv'
<1>0. /\ MadeTypes /\ MenuTypes /\ FlagTypes
      /\ ChildTypes /\ PlaceTypes /\ TakeTypes
      /\ PlaceInv /\ LockInv /\ ChildInv /\ PipeInv
      /\ WarmingHasOneWorker /\ AnswerIsOwn
  BY Parts
<1>1. PICK t \in Takes :
        /\ UNCHANGED <<made, current, warming, abandoned, main, stale, closed>>
        /\ UNCHANGED <<lock, child, proc, pipe, span, answer>>
        /\ pc[t] = "send" /\ t \in Threads /\ of[t] \in Made /\ Locked(t)
        /\ child[of[t]] = k /\ proc[k] = "running"
        /\ asked' = [asked EXCEPT ![k] = Append(@, <<t, span[t]>>)]
        /\ Goes(t, "waiting")
  BY <1>0, SupervisorOf DEF ChildReads, supervisors, takes, Threads, Locked
<1>2. Moves(t, "waiting") /\ of' = of /\ late' = late
  BY <1>1 DEF Goes, Moves
<1>3. /\ warming' \in BOOLEAN /\ late' \in [Threads -> BOOLEAN] /\ TakeTypes'
  BY <1>0, <1>1, <1>2 DEF FlagTypes, TakeTypes
<1>4. PICK s \in Made :
        /\ s = of[t] /\ k = child[s]
        /\ lock[s] = t /\ t # None /\ UnderWay(s, k)
  BY <1>0, <1>1, Holder
<1>5. Empty(k) /\ proc[k] # "loading"
  BY <1>1, <1>4 DEF UnderWay, Loads, Answers
<1>6. /\ asked'[k] = << <<t, span[t]>> >> /\ pipe'[k] = <<>>
      /\ \A j \in Children \ {k} : asked'[j] = asked[j]
  BY <1>0, <1>1, <1>4, <1>5, OneMessage DEF ChildTypes, Empty
<1>7. ChildTypes'
  <2>1. <<t, span[t]>> \in Requests
    BY <1>0 DEF Requests, TakeTypes
  <2>2. asked' \in [Children -> Seq(Requests)]
    BY <1>0, <1>1, <1>4, <1>5, <2>1 DEF ChildTypes, Empty
  <2>3. \A j \in Children : Len(asked'[j]) + Len(pipe'[j]) <= 1
    <3>1. Len(asked'[k]) + Len(pipe'[k]) <= 1
      BY <1>6, OneMessage
    <3> QED BY <1>0, <1>1, <1>6, <3>1 DEF ChildTypes
  <2> QED BY <1>0, <1>1, <2>2, <2>3 DEF ChildTypes
<1>8. pc'[t] = "waiting" /\ lock' = lock /\ \A q \in Threads \ {t} : pc'[q] = pc[q]
  BY <1>0, <1>1, <1>2 DEF Moves, PlaceTypes
<1>9. Inside(s, k)
  <2>1. ASSUME NEW q \in Threads
        PROVE  /\ Locked(q) <=> Locked(q)'
               /\ Locked(q) /\ of[q] # s => UNCHANGED pc[q]
    BY <1>1, <1>4, <1>8 DEF Locked
  <2> QED BY <1>1, <1>2, <1>6, <2>1 DEF Inside
<1>10. UnderWay(s, k)'
  <2>1. Answers(t, k)'
    BY <1>1, <1>6, <1>8 DEF Answers
  <2>2. lock'[s] = t /\ proc'[k] # "loading"
    BY <1>1, <1>4, <1>5
  <2> QED BY <1>4, <2>1, <2>2 DEF UnderWay
<1>11. LockInv' /\ ChildInv' /\ PipeInv'
  BY <1>0, <1>1, <1>4, <1>9, <1>10, InsideKeeps
<1> QED BY <1>1, <1>2, <1>3, <1>7, <1>11, ThreadKeeps DEF Places

LEMMA VerifyFailsKeeps ==
    ASSUME IInv, NEW t \in Takes, VerifyFails(t) PROVE IInv'
<1>0. /\ MadeTypes /\ MenuTypes /\ FlagTypes
      /\ ChildTypes /\ PlaceTypes /\ TakeTypes
      /\ PlaceInv /\ LockInv /\ ChildInv /\ PipeInv
      /\ WarmingHasOneWorker /\ AnswerIsOwn
  BY Parts
<1>1. /\ UNCHANGED <<made, current, warming, abandoned, main, stale, closed,
                     answer>>
      /\ pc[t] \in {"loading", "send", "waiting"} /\ Locked(t) /\ t \in Threads
      /\ of[t] \in Made
      /\ Discard(of[t]) /\ Unlocks(t) /\ NextSpan(t)
  BY <1>0, SupervisorOf DEF VerifyFails, supervisors, Threads, Locked
<1>2. /\ late' \in [Threads -> BOOLEAN]
      /\ span' \in [Takes -> 1..MaxSpans]
      /\ \A u \in Takes \ {t} : UNCHANGED span[u]
      /\ \E place \in {"span", "done"} : Moves(t, place)
  BY <1>0, <1>1, SpanEnds
<1>3. PICK place \in {"span", "done"} : Moves(t, place)
  BY <1>2
<1>4. TakeTypes' /\ warming' \in BOOLEAN
  BY <1>0, <1>1, <1>2 DEF TakeTypes, FlagTypes
<1>5. Leaves(of[t])
  BY <1>0, <1>1, <1>2, <1>3, MoveLeaves DEF Places
<1>6. ChildTypes' /\ LockInv' /\ ChildInv' /\ PipeInv'
  BY SMTT(30), <1>0, <1>1, <1>5, DiscardKeeps
<1> QED BY <1>1, <1>2, <1>3, <1>4, <1>6, ThreadKeeps DEF Places

LEMMA AnsweredKeeps == ASSUME IInv, NEW t \in Takes, Answered(t) PROVE IInv'
<1>0. /\ MadeTypes /\ MenuTypes /\ FlagTypes
      /\ ChildTypes /\ PlaceTypes /\ TakeTypes
      /\ PlaceInv /\ LockInv /\ ChildInv /\ PipeInv
      /\ WarmingHasOneWorker /\ AnswerIsOwn
  BY Parts
<1>1. /\ UNCHANGED <<made, current, warming, abandoned, main, stale, closed,
                     child, proc, asked, span>>
      /\ pc[t] = "waiting" /\ Locked(t) /\ t \in Threads /\ of[t] \in Made
      /\ pipe[child[of[t]]] # <<>>
      /\ answer' = [answer EXCEPT ![t] = Head(pipe[child[of[t]]]).to]
      /\ Receive(t) /\ Unlocks(t) /\ Goes(t, "answered")
  BY <1>0, SupervisorOf DEF Answered, supervisors, Threads, Locked, Has
<1>2. Moves(t, "answered") /\ late' = late
  BY <1>1 DEF Goes, Moves
<1>3. Leaves(of[t])
  BY <1>0, <1>1, <1>2, MoveLeaves DEF Places
<1>4. ChildTypes' /\ LockInv' /\ ChildInv' /\ PipeInv'
  BY <1>0, <1>1, <1>3, ReceiptLeaves
<1>5. PICK kind \in {"result", "bad"} :
        pipe[child[of[t]]] = <<[kind |-> kind, to |-> <<t, span[t]>>]>>
  BY <1>0, <1>1, ReceiptEmpties DEF Loads
<1>6. Head(pipe[child[of[t]]]).to = <<t, span[t]>>
  BY <1>5
<1>7. /\ answer' = [answer EXCEPT ![t] = <<t, span[t]>>]
      /\ answer'[t] = <<t, span'[t]>>
      /\ \A u \in Takes \ {t} : answer'[u] = answer[u]
  BY <1>0, <1>1, <1>6 DEF TakeTypes
<1>8. /\ warming' \in BOOLEAN /\ late' \in [Threads -> BOOLEAN] /\ TakeTypes'
  <2>1. <<t, span[t]>> \in Requests
    BY <1>0 DEF Requests, TakeTypes
  <2> QED BY <1>0, <1>1, <1>2, <1>7, <2>1 DEF FlagTypes, TakeTypes
<1> QED BY <1>1, <1>2, <1>4, <1>7, <1>8, ThreadKeeps DEF Places

LEMMA CountKeeps == ASSUME IInv, NEW t \in Takes, Count(t) PROVE IInv'
<1>0. /\ MadeTypes /\ MenuTypes /\ FlagTypes
      /\ ChildTypes /\ PlaceTypes /\ TakeTypes
      /\ PlaceInv /\ LockInv /\ ChildInv /\ PipeInv
      /\ WarmingHasOneWorker /\ AnswerIsOwn
  BY Parts
<1>1. /\ UNCHANGED <<made, current, warming, abandoned, main, stale, closed,
                     lock, child, proc, asked, pipe>>
      /\ pc[t] = "answered" /\ t \in Threads
      /\ answer' = [answer EXCEPT ![t] = None]
      /\ NextSpan(t) \/ EndsTake(t)
  BY DEF Count, supervisors, children, Threads
<1>2. /\ late' \in [Threads -> BOOLEAN]
      /\ span' \in [Takes -> 1..MaxSpans]
      /\ \A u \in Takes \ {t} : UNCHANGED span[u]
      /\ \E place \in {"span", "done"} : Moves(t, place)
  BY <1>0, <1>1, SpanEnds
<1>3. PICK place \in {"span", "done"} : Moves(t, place)
  BY <1>2
<1>4. TakeTypes' /\ warming' \in BOOLEAN
      /\ \A u \in Takes \ {t} : UNCHANGED answer[u]
  BY <1>0, <1>1, <1>2 DEF TakeTypes, FlagTypes
<1>5. Outside
  BY <1>0, <1>1, <1>2, <1>3, MoveIsOutside DEF Locked, Places, children
<1>6. ChildTypes' /\ LockInv' /\ ChildInv' /\ PipeInv'
  BY <1>0, <1>5, OutsideKeeps
<1> QED BY <1>1, <1>2, <1>3, <1>4, <1>6, ThreadKeeps DEF Places

\* A step of a child changes what is under way at its supervisor only.
LEMMA ChildStepKeeps ==
    ASSUME IInv, NEW k \in Children, Alive(k),
           UNCHANGED <<supervisors, lock, child, places, takes>>,
           ChildTypes', proc'[k] # "none",
           \A j \in Children \ {k} : UNCHANGED <<proc[j], asked[j], pipe[j]>>,
           \A s \in Made : child[s] = k => UnderWay(s, k)'
    PROVE  IInv'
<1>0. /\ MadeTypes /\ MenuTypes /\ FlagTypes
      /\ ChildTypes /\ PlaceTypes /\ TakeTypes
      /\ PlaceInv /\ LockInv /\ ChildInv /\ PipeInv
      /\ WarmingHasOneWorker /\ AnswerIsOwn
  BY Parts
<1>1. UNCHANGED <<made, current, warming, abandoned, main, stale, closed, lock,
                  child, pc, of, late, span, answer>>
  BY DEF supervisors, places, takes
<1>2. /\ MadeTypes' /\ MenuTypes' /\ FlagTypes' /\ PlaceTypes' /\ TakeTypes'
  BY <1>0, <1>1 DEF MadeTypes, MenuTypes, FlagTypes, PlaceTypes, TakeTypes
<1>3. PlaceInv' /\ WarmingHasOneWorker' /\ AnswerIsOwn'
  BY <1>0, <1>1 DEF PlaceInv, WarmingHasOneWorker, Warms, AnswerIsOwn
<1>4. PICK s \in Made : child[s] = k
  BY <1>0 DEF ChildInv, Alive
<1>5. Inside(s, k)
  BY <1>1 DEF Inside, Locked
<1>6. LockInv' /\ ChildInv' /\ PipeInv'
  BY <1>0, <1>4, <1>5, InsideKeeps
<1> QED BY <1>2, <1>3, <1>6, Whole

LEMMA ChildLoadsKeeps ==
    ASSUME IInv, NEW k \in Children, ChildLoads(k) PROVE IInv'
<1>0. /\ MadeTypes /\ MenuTypes /\ FlagTypes
      /\ ChildTypes /\ PlaceTypes /\ TakeTypes
      /\ PlaceInv /\ LockInv /\ ChildInv /\ PipeInv
      /\ WarmingHasOneWorker /\ AnswerIsOwn
  BY Parts
<1>1. /\ UNCHANGED <<supervisors, lock, child, places, takes, asked>>
      /\ proc[k] = "loading" /\ proc' = [proc EXCEPT ![k] = "running"]
      /\ pipe' = [pipe EXCEPT ![k] = Append(@, [kind |-> "ready", to |-> None])]
  BY DEF ChildLoads, ChildSends
<1>2. PICK s \in Made : child[s] = k
  BY <1>0, <1>1 DEF ChildInv
<1>3. UnderWay(s, k) /\ child[s] # None
  BY <1>0, <1>2, VerifierAssumption DEF PipeInv
<1>4. asked[k] = <<>> /\ pipe[k] = <<>>
  BY <1>1, <1>3 DEF UnderWay, Empty
<1>5. /\ pipe'[k] = <<[kind |-> "ready", to |-> None]>>
      /\ pipe' \in [Children -> Seq(Messages)]
  <2>1. [kind |-> "ready", to |-> None] \in Messages
    BY DEF Messages
  <2> QED BY <1>0, <1>1, <1>4, <2>1, OneMessage DEF ChildTypes
<1>6. ChildTypes'
  <2>1. Len(asked'[k]) + Len(pipe'[k]) <= 1
    BY <1>1, <1>4, <1>5, OneMessage
  <2>2. \A j \in Children : Len(asked'[j]) + Len(pipe'[j]) <= 1
    BY <1>0, <1>1, <2>1 DEF ChildTypes
  <2>3. proc' \in [Children -> {"none", "loading", "running", "dead"}]
    BY <1>0, <1>1 DEF ChildTypes
  <2> QED BY <1>0, <1>1, <1>5, <2>2, <2>3 DEF ChildTypes
<1>7. proc'[k] = "running"
      /\ \A j \in Children \ {k} : UNCHANGED <<proc[j], asked[j], pipe[j]>>
  BY <1>0, <1>1 DEF ChildTypes
<1>8. ASSUME NEW r \in Made, child[r] = k PROVE UnderWay(r, k)'
  <2>1. lock[r] # None /\ pc[lock[r]] = "loading"
    BY <1>0, <1>1, <1>8, VerifierAssumption DEF PipeInv, UnderWay
  <2>2. UNCHANGED <<pc, lock>>
    BY <1>1 DEF places
  <2> QED BY <1>1, <1>4, <1>5, <1>7, <2>1, <2>2 DEF UnderWay, Loads
<1> QED BY <1>1, <1>6, <1>7, <1>8, ChildStepKeeps DEF Alive

LEMMA ChildAnswersKeeps ==
    ASSUME IInv, NEW k \in Children, ChildAnswers(k) PROVE IInv'
<1>0. /\ MadeTypes /\ MenuTypes /\ FlagTypes
      /\ ChildTypes /\ PlaceTypes /\ TakeTypes
      /\ PlaceInv /\ LockInv /\ ChildInv /\ PipeInv
      /\ WarmingHasOneWorker /\ AnswerIsOwn
  BY Parts
<1>1. PICK kind \in {"result", "bad"} :
      /\ UNCHANGED <<supervisors, lock, child, places, takes, proc>>
      /\ proc[k] = "running" /\ asked[k] # <<>>
      /\ asked' = [asked EXCEPT ![k] = Tail(@)]
      /\ pipe' = [pipe EXCEPT ![k] =
                    Append(@, [kind |-> kind, to |-> Head(asked[k])])]
  BY DEF ChildAnswers, ChildSends
<1>2. PICK s \in Made : child[s] = k
  BY <1>0, <1>1 DEF ChildInv
<1>3. UnderWay(s, k) /\ child[s] # None
  BY <1>0, <1>2, VerifierAssumption DEF PipeInv
<1>4. PICK t \in Takes :
        /\ lock[s] = t /\ lock[s] # None /\ pc[t] = "waiting"
        /\ asked[k] = << <<t, span[t]>> >> /\ pipe[k] = <<>>
  BY <1>1, <1>3 DEF UnderWay, Empty, Loads, Answers
<1>5. /\ asked'[k] = <<>>
      /\ pipe'[k] = <<[kind |-> kind, to |-> <<t, span[t]>>]>>
  <2>1. /\ Tail(asked[k]) = <<>> /\ Head(asked[k]) = <<t, span[t]>>
        /\ \A m : Append(pipe[k], m) = <<m>>
    BY <1>4, OneMessage
  <2> QED BY <1>0, <1>1, <2>1 DEF ChildTypes
<1>6. ChildTypes'
  <2>1. [kind |-> kind, to |-> <<t, span[t]>>] \in Messages
    BY <1>0 DEF Messages, Requests, TakeTypes
  <2>2. pipe' \in [Children -> Seq(Messages)]
    BY <1>0, <1>1, <1>4, <2>1, OneMessage DEF ChildTypes
  <2>3. asked' \in [Children -> Seq(Requests)]
    BY <1>0, <1>1, <1>4, OneMessage DEF ChildTypes
  <2>4. Len(asked'[k]) + Len(pipe'[k]) <= 1
    BY <1>5, OneMessage
  <2>5. \A j \in Children : Len(asked'[j]) + Len(pipe'[j]) <= 1
    BY <1>0, <1>1, <2>4 DEF ChildTypes
  <2> QED BY <1>0, <1>1, <2>2, <2>3, <2>5 DEF ChildTypes
<1>7. proc'[k] = "running"
      /\ \A j \in Children \ {k} : UNCHANGED <<proc[j], asked[j], pipe[j]>>
  BY <1>0, <1>1 DEF ChildTypes
<1>8. ASSUME NEW r \in Made, child[r] = k PROVE UnderWay(r, k)'
  <2>1. r = s
    BY <1>0, <1>2, <1>3, <1>8 DEF ChildInv
  <2>2. UNCHANGED <<pc, lock, span>>
    BY <1>1 DEF places, takes
  <2>3. Answers(t, k)'
    BY <1>4, <1>5, <2>2 DEF Answers
  <2> QED BY <1>4, <1>7, <2>1, <2>2, <2>3 DEF UnderWay
<1> QED BY <1>1, <1>6, <1>7, <1>8, ChildStepKeeps DEF Alive

LEMMA ChildDiesKeeps ==
    ASSUME IInv, NEW k \in Children, ChildDies(k) PROVE IInv'
<1>0. /\ MadeTypes /\ MenuTypes /\ FlagTypes
      /\ ChildTypes /\ PlaceTypes /\ TakeTypes
      /\ PlaceInv /\ LockInv /\ ChildInv /\ PipeInv
      /\ WarmingHasOneWorker /\ AnswerIsOwn
  BY Parts
<1>1. /\ UNCHANGED <<supervisors, lock, child, places, takes, pipe>>
      /\ Alive(k) /\ proc' = [proc EXCEPT ![k] = "dead"]
      /\ asked' = [asked EXCEPT ![k] = <<>>]
  BY DEF ChildDies
<1>2. proc'[k] = "dead" /\ asked'[k] = <<>>
      /\ \A j \in Children \ {k} : UNCHANGED <<proc[j], asked[j], pipe[j]>>
  BY <1>0, <1>1 DEF ChildTypes
<1>3. ChildTypes'
  <2>1. /\ asked' \in [Children -> Seq(Requests)]
        /\ proc' \in [Children -> {"none", "loading", "running", "dead"}]
    BY <1>0, <1>1 DEF ChildTypes
  <2>2. Len(asked'[k]) + Len(pipe'[k]) <= 1
    <3>1. Len(asked[k]) \in Nat /\ Len(pipe[k]) \in Nat
          /\ Len(asked[k]) + Len(pipe[k]) <= 1
      BY <1>0 DEF ChildTypes
    <3>2. Len(asked'[k]) = 0
      BY <1>2, OneMessage
    <3>3. Len(pipe'[k]) = Len(pipe[k])
      BY <1>1
    <3>4. Len(pipe[k]) <= 1
      <4>1. \A a, b \in Nat : a + b <= 1 => b <= 1
        OBVIOUS
      <4> QED BY <3>1, <4>1
    <3> QED BY <3>1, <3>2, <3>3, <3>4
  <2>3. \A j \in Children : Len(asked'[j]) + Len(pipe'[j]) <= 1
    BY <1>0, <1>1, <2>2 DEF ChildTypes
  <2> QED BY <1>0, <1>1, <2>1, <2>3 DEF ChildTypes
<1>4. ASSUME NEW r \in Made, child[r] = k PROVE UnderWay(r, k)'
  <2>1. UnderWay(r, k) /\ UNCHANGED <<pc, lock, span, pipe>>
    BY <1>0, <1>1, <1>4, VerifierAssumption DEF PipeInv, places, takes
  <2>2. CASE pipe[k] = <<>>
    BY <1>2, <2>1, <2>2 DEF UnderWay, Empty
  <2>3. CASE pipe[k] # <<>>
    BY <1>2, <2>1, <2>3 DEF UnderWay, Empty, Loads, Answers
  <2> QED BY <2>2, <2>3
<1> QED BY <1>1, <1>2, <1>3, <1>4, ChildStepKeeps

LEMMA DeadlinePassesKeeps ==
    ASSUME IInv, NEW p \in Threads, DeadlinePasses(p) PROVE IInv'
<1>0. /\ MadeTypes /\ MenuTypes /\ FlagTypes
      /\ ChildTypes /\ PlaceTypes /\ TakeTypes
      /\ PlaceInv /\ LockInv /\ ChildInv /\ PipeInv
      /\ WarmingHasOneWorker /\ AnswerIsOwn
  BY Parts
<1>1. /\ UNCHANGED <<made, current, warming, abandoned, main, stale, closed,
                     lock, child, proc, asked, pipe, pc, of, span, answer>>
      /\ late' = [late EXCEPT ![p] = TRUE]
  BY DEF DeadlinePasses, supervisors, children, takes
<1>2. /\ MadeTypes' /\ MenuTypes' /\ PlaceTypes' /\ TakeTypes'
  BY <1>0, <1>1 DEF MadeTypes, MenuTypes, PlaceTypes, TakeTypes
<1>3. FlagTypes'
  BY <1>0, <1>1 DEF FlagTypes
<1>4. PlaceInv' /\ WarmingHasOneWorker' /\ AnswerIsOwn'
  BY <1>0, <1>1 DEF PlaceInv, WarmingHasOneWorker, Warms, AnswerIsOwn
<1>5. Outside
  BY <1>1 DEF Outside, Locked, children
<1> QED BY <1>0, <1>2, <1>3, <1>4, <1>5, OutsideKeeps, Whole

-----------------------------------------------------------------------------
(* The theorems.                                                           *)

LEMMA InitIInv == ASSUME Init PROVE IInv
<1> USE VerifierAssumption DEF Init
<1>1. TypeOK
  <2>1. /\ 0 \in 0..MaxMade /\ 0 \in 0..0 /\ 1 \in 1..MaxSpans
    OBVIOUS
  <2>2. /\ made \in 0..MaxMade /\ current \in 0..made /\ stale \in 0..made
        /\ of \in [Threads -> 0..made] /\ span \in [Takes -> 1..MaxSpans]
    BY <2>1
  <2>3. \A k \in Children : Len(asked[k]) + Len(pipe[k]) <= 1
    <3>1. \A k \in Children : asked[k] = <<>> /\ pipe[k] = <<>>
      OBVIOUS
    <3>2. Len(<<>>) + Len(<<>>) <= 1
      OBVIOUS
    <3> QED BY <3>1, <3>2
  <2>4. /\ asked \in [Children -> Seq(Requests)]
        /\ pipe \in [Children -> Seq(Messages)]
    OBVIOUS
  <2>5. /\ warming \in BOOLEAN /\ late \in [Threads -> BOOLEAN]
        /\ closed \in [Made -> BOOLEAN]
    OBVIOUS
  <2> QED BY <2>2, <2>3, <2>4, <2>5 DEF TypeOK
<1>2. PlaceInv /\ LockInv
  BY DEF PlaceInv, LockInv, Locked, Threads
<1>3. ChildInv /\ PipeInv
  BY DEF ChildInv, PipeInv, Empty
<1>4. WarmingHasOneWorker /\ AnswerIsOwn
  BY DEF WarmingHasOneWorker, Warms, AnswerIsOwn, Threads
<1> QED BY <1>1, <1>2, <1>3, <1>4 DEF IInv

LEMMA StepKeepsIInv == IInv /\ [Next]_vars => IInv'
<1> SUFFICES ASSUME IInv, [Next]_vars PROVE IInv'
  OBVIOUS
<1>1. CASE TurnOn \/ Schedule \/ MenuStarts \/ TurnOff \/ Close
  BY <1>1, TurnOnKeeps, ScheduleKeeps, MenuStartsKeeps, TurnOffKeeps,
     CloseKeeps
<1>2. ASSUME NEW t \in Takes, Ask(t) \/ TakeStarts(t) \/ TakeSteps(t)
      PROVE  IInv'
  BY <1>2, AskKeeps, TakeStartsKeeps, BeginSpanKeeps, VerifyKeeps,
     ChildStartedKeeps, VerifyFailsKeeps, AnsweredKeeps, CountKeeps
  DEF TakeSteps
<1>3. ASSUME NEW w \in Workers, WorkerSteps(w) PROVE IInv'
  BY <1>3, WarmKeeps, WarmEndsKeeps, WorkerEndsKeeps DEF WorkerSteps
<1>4. ASSUME NEW k \in Children,
             \/ ChildLoads(k) \/ ChildReads(k)
             \/ ChildAnswers(k) \/ ChildDies(k)
      PROVE  IInv'
  BY <1>4, ChildLoadsKeeps, ChildReadsKeeps, ChildAnswersKeeps, ChildDiesKeeps
<1>5. ASSUME NEW p \in Threads, DeadlinePasses(p) PROVE IInv'
  BY <1>5, DeadlinePassesKeeps
<1>6. CASE UNCHANGED vars
  <2>1. UNCHANGED <<made, current, warming, abandoned, main, stale, closed,
                    lock, child, proc, asked, pipe, pc, of, late, span,
                    answer>>
    BY <1>6 DEF vars, supervisors, children, places, takes
  <2>2. TypeOK'
    BY <2>1 DEF IInv, TypeOK
  <2>3. PlaceInv' /\ LockInv' /\ ChildInv'
    BY <2>1 DEF IInv, PlaceInv, LockInv, Locked, ChildInv
  <2>4. PipeInv'
    BY <2>1 DEF IInv, PipeInv, Empty, UnderWay, Loads, Answers
  <2>5. WarmingHasOneWorker' /\ AnswerIsOwn'
    BY <2>1 DEF IInv, WarmingHasOneWorker, Warms, AnswerIsOwn
  <2> QED BY <2>2, <2>3, <2>4, <2>5 DEF IInv
<1> QED BY <1>1, <1>2, <1>3, <1>4, <1>5, <1>6 DEF Next

\* The inductive invariant: who holds the lock, whose each child is, and that a
\* pipe has only what answers the request that is under way.
THEOREM VerifierInvariant == Spec => []IInv
  BY InitIInv, StepKeepsIInv, PTL DEF Spec

\* Every supervisor, child, thread and message stays what its type says, with
\* at most one message between a child and its supervisor (verify, prewarm).
THEOREM VerifierTypeCorrect == Spec => []TypeOK
<1>1. IInv => TypeOK
  BY DEF IInv
<1> QED BY <1>1, VerifierInvariant, PTL

\* An answer is counted for the request it answers (verify).
THEOREM VerifierAnswersOwn == Spec => []AnswerIsOwn
<1>1. IInv => AnswerIsOwn
  BY DEF IInv
<1> QED BY <1>1, VerifierInvariant, PTL

\* No running child is stranded: its supervisor knows it and is not closed
\* (prewarm, _discard_locked, close).
THEOREM VerifierStrandsNoChild == Spec => []NoStrayChild
<1>1. IInv => NoStrayChild
  <2> SUFFICES ASSUME IInv, NEW k \in Children, Alive(k)
               PROVE  \E s \in Made : child[s] = k /\ ~closed[s]
    BY DEF NoStrayChild
  <2>1. PICK s \in Made : child[s] = k
    BY DEF IInv, ChildInv, Alive
  <2>2. k # None
    BY VerifierAssumption
  <2> QED BY <2>1, <2>2 DEF IInv, ChildInv
<1> QED BY <1>1, VerifierInvariant, PTL

\* The flag "warming" says that somebody is at it for the current supervisor:
\* whoever has set the flag and is about to start the worker, or the worker, or,
\* for good, a worker that did not start.  Nobody else warms the same one
\* (schedule_selective_relisten_prewarm).
THEOREM VerifierHasOneWarmer == Spec => []WarmingHasOneWorker
<1>1. IInv => WarmingHasOneWorker
  BY DEF IInv
<1> QED BY <1>1, VerifierInvariant, PTL

\* What OnlySendOutlastsDeadline asks with ENABLED, as the guards that it comes
\* to: whoever holds a lock past its deadline is where one of its own steps is
\* allowed, whatever the child did, or sends to a child that lives and has not
\* read the request (verify, prewarm).
LateHolderMayGoOn ==
    \A p \in Threads, s \in Made :
        lock[s] = p /\ late[p] =>
            \/ p \in Workers /\ pc[p] = "loading" /\ Fails(p, "ready")
            \/ /\ p \in Takes
               /\ \/ pc[p] = "loading" /\ Fails(p, "ready")
                  \/ pc[p] = "send" /\ ~HasChild(of[p])
                  \/ pc[p] = "waiting" /\ Fails(p, "result")
            \/ WaitsForReader(p)

\* A thread that holds the lock past its deadline meets the guard of a step that
\* gives the lock up, unless it waits for the child to read what it sends
\* (verify, prewarm).
THEOREM VerifierHolderMayGoOn == Spec => []LateHolderMayGoOn
<1>1. IInv => LateHolderMayGoOn
  <2> SUFFICES ASSUME IInv, NEW p \in Threads, NEW s \in Made,
                      lock[s] = p, late[p]
               PROVE  \/ p \in Workers /\ pc[p] = "loading"
                      \/ p \in Takes /\ pc[p] \in {"loading", "waiting"}
                      \/ /\ p \in Takes /\ pc[p] = "send"
                         /\ ~HasChild(of[p]) \/ WaitsForReader(p)
    BY DEF LateHolderMayGoOn, Fails
  <2>1. Locked(p) /\ of[p] = s /\ p # None /\ child[s] # None
    BY VerifierAssumption DEF IInv, LockInv, Threads
  <2>2. ASSUME p \in Takes, pc[p] = "send"
        PROVE  ~HasChild(of[p]) \/ WaitsForReader(p)
    <3>1. proc[child[s]] # "loading"
      BY <2>1, <2>2 DEF IInv, PipeInv, UnderWay
    <3> QED BY <2>1, <2>2, <3>1 DEF HasChild, Alive, WaitsForReader
  <2> QED BY <2>1, <2>2 DEF IInv, PlaceInv, Locked, Threads
<1> QED BY <1>1, VerifierInvariant, PTL
=============================================================================
