-------------------------- MODULE PrewarmedVerifier -------------------------
(***************************************************************************)
(* Selective Re-listen: prewarmed_verifier.py (a supervisor that keeps one *)
(* child process, in which a loaded model answers one request at a time),  *)
(* its owner in dictate.py (made when the user opts in, warmed by a worker *)
(* thread, closed when the user opts out) and the take that asks it about  *)
(* the uncertain spans of its text under one deadline                      *)
(* (execute_consequence_plan).                                             *)
(*                                                                         *)
(* A request is its take and the number of its span.  A deadline may pass  *)
(* at any point.  The child and the pipe from it are modelled by what it   *)
(* may do: load, answer, answer nonsense, stop, or nothing.                *)
(***************************************************************************)
EXTENDS Integers, Sequences, FiniteSets

CONSTANTS
    Takes, Workers, Children,
    MaxSpans,           \* _RELISEN_MAX_SPANS
    MaxMade,            \* bound: supervisors made
    None

\* A take and a prewarm worker are different threads; None is no object.
ASSUME VerifierAssumption ==
    /\ MaxSpans \in Nat \ {0} /\ MaxMade \in Nat
    /\ Takes \cap Workers = {}
    /\ None \notin Takes \cup Workers \cup Children

VARIABLES
    made, current,      \* supervisors made; CONSEQUENCE_VERIFIER, 0 for None
    warming,            \* CONSEQUENCE_VERIFIER_STATE["warming"]
    main, stale,        \* the thread of the menu, and what it is to close
    closed, lock,       \* of each supervisor: _closed, the holder of _lock
    child,              \*   and _process
    proc, asked, pipe,  \* of each child: its state, what it was sent, its pipe
    pc, of,             \* of each take and worker: where it is, its supervisor
    late,               \*   and whether its deadline has passed
    span, answer,       \* of each take: its span, and the request answered
    abandoned           \* history: supervisors whose worker did not start

supervisors == <<made, current, warming, abandoned, main, stale, closed>>
children == <<child, proc, asked, pipe>>
takes == <<span, answer>>
places == <<pc, of, late>>
vars == <<supervisors, lock, children, places, takes>>

Threads == Takes \cup Workers
Made == 1..MaxMade
Requests == Takes \X (1..MaxSpans)
Messages == [kind : {"ready", "result", "bad"}, to : Requests \cup {None}]

TypeOK ==
    /\ made \in 0..MaxMade /\ current \in 0..made /\ warming \in BOOLEAN
    /\ main \in {"free", "schedule", "start", "close", "close and go", "gone"}
    /\ stale \in 0..made /\ (main \in {"close", "close and go"} => stale # 0)
    /\ closed \in [Made -> BOOLEAN] /\ lock \in [Made -> Threads \cup {None}]
    /\ child \in [Made -> Children \cup {None}]
    /\ proc \in [Children -> {"none", "loading", "running", "dead"}]
    /\ asked \in [Children -> Seq(Requests)]
    /\ pipe \in [Children -> Seq(Messages)]
    /\ \A k \in Children : Len(asked[k]) + Len(pipe[k]) <= 1
    /\ pc \in [Threads -> {"idle", "starting", "span", "lock", "loading",
                           "send", "waiting", "answered", "finally", "done"}]
    /\ of \in [Threads -> 0..made] /\ late \in [Threads -> BOOLEAN]
    /\ span \in [Takes -> 1..MaxSpans]
    /\ answer \in [Takes -> Requests \cup {None}]
    /\ abandoned \subseteq 1..made

Init ==
    /\ made = 0 /\ current = 0 /\ warming = FALSE /\ abandoned = {}
    /\ main = "free" /\ stale = 0
    /\ closed = [s \in Made |-> FALSE]
    /\ lock = [s \in Made |-> None] /\ child = [s \in Made |-> None]
    /\ proc = [k \in Children |-> "none"]
    /\ asked = [k \in Children |-> <<>>] /\ pipe = [k \in Children |-> <<>>]
    /\ pc = [p \in Threads |-> "idle"]
    /\ of = [p \in Threads |-> 0] /\ late = [p \in Threads |-> FALSE]
    /\ span = [t \in Takes |-> 1] /\ answer = [t \in Takes |-> None]

-----------------------------------------------------------------------------
(* The child of a supervisor.  What follows is done with its lock held.    *)

Alive(k) == proc[k] \in {"loading", "running"}
HasChild(s) == child[s] # None /\ Alive(child[s])

\* Property ready, which does not wait for the lock.
Ready(s) == lock[s] = None /\ ~closed[s] /\ HasChild(s)

\* _discard_locked: the pipe is closed and the child stopped.
Discard(s) ==
    /\ child' = [child EXCEPT ![s] = None]
    /\ proc' = [k \in Children |-> IF k = child[s] THEN "none" ELSE proc[k]]
    /\ asked' = [k \in Children |-> IF k = child[s] THEN <<>> ELSE asked[k]]
    /\ pipe' = [k \in Children |-> IF k = child[s] THEN <<>> ELSE pipe[k]]

\* _ensure_child_locked, the child dead or missing: another one is started.  A
\* start that fails is a child that dies at once: nobody else sees it.
StartChild(s) ==
    \E k \in Children :
        /\ proc[k] = "none"
        /\ child' = [child EXCEPT ![s] = k]
        /\ proc' = [j \in Children |->
            IF j = k THEN "loading"
            ELSE IF j = child[s] THEN "none" ELSE proc[j]]
        /\ asked' = [j \in Children |->
            IF j = child[s] THEN <<>> ELSE asked[j]]
        /\ pipe' = [j \in Children |->
            IF j = child[s] THEN <<>> ELSE pipe[j]]

\* What a thread that holds the lock finds in the pipe.
Has(p, kind) ==
    LET k == child[of[p]] IN pipe[k] # <<>> /\ Head(pipe[k]).kind = kind

\* The deadline has passed, the pipe is at its end, or the message is no good.
Fails(p, kind) ==
    LET k == child[of[p]] IN
    late[p] \/ (pipe[k] = <<>> /\ proc[k] = "dead")
            \/ (pipe[k] # <<>> /\ ~Has(p, kind))

Receive(p) == pipe' = [pipe EXCEPT ![child[of[p]]] = Tail(@)]

Locks(p) == lock' = [lock EXCEPT ![of[p]] = p]
Unlocks(p) == lock' = [lock EXCEPT ![of[p]] = None]

Goes(p, place) == pc' = [pc EXCEPT ![p] = place] /\ UNCHANGED <<of, late>>

\* A thread that ends; what it held is reset.
Ends(p, place) ==
    /\ pc' = [pc EXCEPT ![p] = place]
    /\ of' = [of EXCEPT ![p] = 0]
    /\ late' = [late EXCEPT ![p] = FALSE]

-----------------------------------------------------------------------------
(* The worker that warms a supervisor.                                     *)

\* schedule_selective_relisten_prewarm: whoever finds this sets "warming", and
\* starts the thread after it has let go of the lock.
WarmsCurrent == current # 0 /\ ~Ready(current) /\ ~warming

\* It starts with the supervisor that was current when the flag was set.
StartsWorker(s, pcs, ofs) ==
    \E w \in Workers :
        /\ pc[w] = "idle"
        /\ pc' = [pcs EXCEPT ![w] = "lock"]
        /\ of' = [ofs EXCEPT ![w] = s]
        /\ UNCHANGED <<late, abandoned>>

\* Wrong variant: whether it was closed meanwhile is not asked.
WarmAnyway(w) ==
    /\ pc[w] = "lock" /\ lock[of[w]] = None
    /\ ~HasChild(of[w]) /\ StartChild(of[w])
    /\ Goes(w, "loading") /\ Locks(w)
    /\ UNCHANGED <<supervisors, takes>>

\* prewarm.
Warm(w) ==
    /\ pc[w] = "lock" /\ lock[of[w]] = None
    /\ \/ /\ closed[of[w]] \/ late[w] \/ HasChild(of[w])
          /\ Goes(w, "finally")
          /\ UNCHANGED <<lock, children>>
       \/ /\ ~closed[of[w]] /\ ~late[w] /\ ~HasChild(of[w])
          /\ StartChild(of[w])
          /\ Goes(w, "loading") /\ Locks(w)
    /\ UNCHANGED <<supervisors, takes>>

WarmEnds(w) ==
    /\ pc[w] = "loading"
    /\ \/ /\ ~Fails(w, "ready") /\ Has(w, "ready")
          /\ Receive(w) /\ UNCHANGED <<child, proc, asked>>
       \/ Fails(w, "ready") /\ Discard(of[w])
    /\ Goes(w, "finally") /\ Unlocks(w)
    /\ UNCHANGED <<supervisors, takes>>

\* Wrong variant: whose supervisor is current is not asked.
ClearWarming(w) ==
    /\ pc[w] = "finally"
    /\ warming' = FALSE
    /\ Ends(w, "idle")
    /\ UNCHANGED <<made, current, abandoned, main, stale, closed, lock,
                   children, takes>>

\* _prewarm_selective_relisten_worker, finally.
WorkerEnds(w) ==
    /\ pc[w] = "finally"
    /\ warming' = (warming /\ current # of[w])
    /\ Ends(w, "idle")
    /\ UNCHANGED <<made, current, abandoned, main, stale, closed, lock,
                   children, takes>>

-----------------------------------------------------------------------------
(* The thread of the menu.                                                 *)

\* refresh_selective_relisten_verifier, wanted.
TurnOn ==
    /\ main = "free"
    /\ \/ current # 0 /\ UNCHANGED <<made, current>>
       \/ current = 0 /\ made < MaxMade /\ made' = made + 1 /\ current' = made'
    /\ main' = "schedule"
    /\ UNCHANGED <<warming, abandoned, stale, closed, lock, children, places,
                   takes>>

Schedule ==
    /\ main = "schedule"
    /\ \/ WarmsCurrent /\ warming' = TRUE /\ main' = "start"
       \/ ~WarmsCurrent /\ main' = "free" /\ UNCHANGED warming
    /\ UNCHANGED <<made, current, abandoned, stale, closed, lock, children,
                   places, takes>>

\* Thread(...).start(), which may raise: the flag stays as it is.
MenuStarts ==
    /\ main = "start" /\ main' = "free"
    /\ \/ StartsWorker(current, pc, of)
       \/ abandoned' = abandoned \cup {current} /\ UNCHANGED places
    /\ UNCHANGED <<made, current, warming, stale, closed, lock, children,
                   takes>>

\* refresh_selective_relisten_verifier, not wanted, and
\* close_selective_relisten_verifier at exit.
TurnOff ==
    /\ main = "free" /\ current # 0
    /\ main' \in {"close", "close and go"}
    /\ stale' = current /\ current' = 0 /\ warming' = FALSE
    /\ UNCHANGED <<made, abandoned, closed, lock, children, places, takes>>

\* PrewarmedVerifierSupervisor.close.
Close ==
    /\ main \in {"close", "close and go"}
    /\ lock[stale] = None
    /\ Discard(stale)
    /\ closed' = [closed EXCEPT ![stale] = TRUE]
    /\ main' = IF main = "close" THEN "free" ELSE "gone"
    /\ stale' = 0
    /\ UNCHANGED <<made, current, warming, abandoned, lock, places, takes>>

-----------------------------------------------------------------------------
(* A take and its spans.                                                   *)

\* active_consequence_verifier: the current supervisor if its child is warm.  A
\* take that has none, or no span to ask about, goes on without.
Ask(t) ==
    /\ pc[t] = "idle"
    /\ \/ /\ current # 0 /\ Ready(current)
          /\ pc' = [pc EXCEPT ![t] = "span"]
          /\ of' = [of EXCEPT ![t] = current]
          /\ UNCHANGED <<warming, late>>
       \/ /\ WarmsCurrent /\ warming' = TRUE
          /\ pc' = [pc EXCEPT ![t] = "starting"]
          /\ of' = [of EXCEPT ![t] = current]
          /\ UNCHANGED late
       \/ /\ ~WarmsCurrent
          /\ Ends(t, "done")
          /\ UNCHANGED warming
    /\ UNCHANGED <<made, current, abandoned, main, stale, closed, lock,
                   children, takes>>

\* The same start, in the turn of a take: the supervisor may be closed by now.
TakeStarts(t) ==
    /\ pc[t] = "starting"
    /\ \/ StartsWorker(of[t], [pc EXCEPT ![t] = "done"], [of EXCEPT ![t] = 0])
       \/ Ends(t, "done") /\ abandoned' = abandoned \cup {of[t]}
    /\ UNCHANGED <<made, current, warming, main, stale, closed, lock, children,
                   takes>>

EndsTake(t) == Ends(t, "done") /\ span' = [span EXCEPT ![t] = 1]

\* The next span of execute_consequence_plan, or the end.
NextSpan(t) ==
    IF span[t] < MaxSpans
    THEN Goes(t, "span") /\ span' = [span EXCEPT ![t] = @ + 1]
    ELSE EndsTake(t)

\* The deadline may have passed, and the plan may have no more spans.
BeginSpan(t) ==
    /\ pc[t] = "span"
    /\ \/ EndsTake(t)
       \/ ~late[t] /\ Goes(t, "lock") /\ UNCHANGED span
    /\ UNCHANGED <<supervisors, lock, children, answer>>

\* verify, up to the request: a child that died meanwhile is started again.
Verify(t) ==
    /\ pc[t] = "lock" /\ lock[of[t]] = None
    /\ \/ /\ closed[of[t]] \/ late[t]
          /\ NextSpan(t)
          /\ UNCHANGED <<lock, children>>
       \/ /\ ~closed[of[t]] /\ ~late[t] /\ Locks(t) /\ UNCHANGED span
          /\ \/ HasChild(of[t]) /\ Goes(t, "send") /\ UNCHANGED children
             \/ ~HasChild(of[t]) /\ Goes(t, "loading") /\ StartChild(of[t])
    /\ UNCHANGED <<supervisors, answer>>

ChildStarted(t) ==
    /\ pc[t] = "loading" /\ ~Fails(t, "ready") /\ Has(t, "ready")
    /\ Receive(t) /\ Goes(t, "send")
    /\ UNCHANGED <<supervisors, lock, child, proc, asked, takes>>

\* Wrong variant: a child that is merely slow is kept.
VerifyFailsKeepingChild(t) ==
    /\ \/ pc[t] = "loading" /\ Fails(t, "ready")
       \/ pc[t] = "send" /\ ~HasChild(of[t])
       \/ pc[t] = "waiting" /\ Fails(t, "result")
    /\ \/ Alive(child[of[t]]) /\ UNCHANGED children
       \/ ~Alive(child[of[t]]) /\ Discard(of[t])
    /\ Unlocks(t) /\ NextSpan(t)
    /\ UNCHANGED <<supervisors, answer>>

\* Wrong variant: the wait for the answer has no timeout.
VerifyWaits(t) ==
    /\ \/ pc[t] = "loading" /\ Fails(t, "ready")
       \/ pc[t] = "send" /\ ~HasChild(of[t])
       \/ /\ pc[t] = "waiting" /\ Fails(t, "result")
          /\ pipe[child[of[t]]] # <<>> \/ proc[child[of[t]]] = "dead"
    /\ Discard(of[t])
    /\ Unlocks(t) /\ NextSpan(t)
    /\ UNCHANGED <<supervisors, answer>>

\* Every refusal discards the child.
VerifyFails(t) ==
    /\ \/ pc[t] = "loading" /\ Fails(t, "ready")
       \/ pc[t] = "send" /\ ~HasChild(of[t])
       \/ pc[t] = "waiting" /\ Fails(t, "result")
    /\ Discard(of[t])
    /\ Unlocks(t) /\ NextSpan(t)
    /\ UNCHANGED <<supervisors, answer>>

\* verify returns the answer it received in time.
Answered(t) ==
    /\ pc[t] = "waiting" /\ ~Fails(t, "result") /\ Has(t, "result")
    /\ answer' = [answer EXCEPT ![t] = Head(pipe[child[of[t]]]).to]
    /\ Receive(t) /\ Unlocks(t) /\ Goes(t, "answered")
    /\ UNCHANGED <<supervisors, child, proc, asked, span>>

\* The answer is counted for the risks of this span, if it is still in time.
Count(t) ==
    /\ pc[t] = "answered"
    /\ answer' = [answer EXCEPT ![t] = None]
    /\ \/ late[t] /\ EndsTake(t)
       \/ ~late[t] /\ NextSpan(t)
    /\ UNCHANGED <<supervisors, lock, children>>

-----------------------------------------------------------------------------
(* The children (_child_main), and time.                                   *)

ChildSends(k, kind, to) ==
    /\ pipe' = [pipe EXCEPT ![k] = Append(@, [kind |-> kind, to |-> to])]
    /\ UNCHANGED <<supervisors, lock, child, places, takes>>

ChildLoads(k) ==
    /\ proc[k] = "loading" /\ proc' = [proc EXCEPT ![k] = "running"]
    /\ ChildSends(k, "ready", None) /\ UNCHANGED asked

ChildAnswers(k) ==
    /\ proc[k] = "running" /\ asked[k] # <<>>
    /\ asked' = [asked EXCEPT ![k] = Tail(@)]
    /\ \E kind \in {"result", "bad"} : ChildSends(k, kind, Head(asked[k]))
    /\ UNCHANGED proc

\* connection.send of the request ends when the child has read it: a request is
\* larger than the pipe's buffer, and nothing bounds the wait.
ChildReads(k) ==
    /\ proc[k] = "running"
    /\ \E t \in Takes :
        /\ pc[t] = "send" /\ child[of[t]] = k
        /\ asked' = [asked EXCEPT ![k] = Append(@, <<t, span[t]>>)]
        /\ Goes(t, "waiting")
    /\ UNCHANGED <<supervisors, lock, child, proc, pipe, takes>>

ChildDies(k) ==
    /\ Alive(k) /\ proc' = [proc EXCEPT ![k] = "dead"]
    /\ asked' = [asked EXCEPT ![k] = <<>>]
    /\ UNCHANGED <<supervisors, lock, child, pipe, places, takes>>

DeadlinePasses(p) ==
    /\ pc[p] \notin {"idle", "starting", "done", "finally"} /\ ~late[p]
    /\ late' = [late EXCEPT ![p] = TRUE]
    /\ UNCHANGED <<supervisors, lock, children, pc, of, takes>>

-----------------------------------------------------------------------------
TakeSteps(t) ==
    \/ BeginSpan(t) \/ Verify(t) \/ ChildStarted(t) \/ VerifyFails(t)
    \/ Answered(t) \/ Count(t)

WorkerSteps(w) == Warm(w) \/ WarmEnds(w) \/ WorkerEnds(w)

Next ==
    \/ TurnOn \/ Schedule \/ MenuStarts \/ TurnOff \/ Close
    \/ \E t \in Takes : Ask(t) \/ TakeStarts(t) \/ TakeSteps(t)
    \/ \E w \in Workers : WorkerSteps(w)
    \/ \E k \in Children :
          ChildLoads(k) \/ ChildReads(k) \/ ChildAnswers(k) \/ ChildDies(k)
    \/ \E p \in Threads : DeadlinePasses(p)

Spec == Init /\ [][Next]_vars

-----------------------------------------------------------------------------
(* Properties.                                                             *)

\* An answer is counted for the request it answers, never for a later one that
\* a slow child had not been asked yet (verify).
AnswerIsOwn ==
    \A t \in Takes : pc[t] = "answered" => answer[t] = <<t, span[t]>>

\* A child that runs is the one its supervisor knows, and the supervisor is not
\* closed: none is stranded by a timeout, a crash or a late warm-up (prewarm,
\* _discard_locked, close).
NoStrayChild ==
    \A k \in Children :
        Alive(k) => \E s \in Made : child[s] = k /\ ~closed[s]

\* Who warms a supervisor up: its worker, or before that whoever has set the
\* flag and is about to start it, None being the thread of the menu.
Warms(p, s) ==
    \/ p = None /\ main = "start" /\ s = current
    \/ p \in Takes /\ pc[p] = "starting" /\ of[p] = s
    \/ p \in Workers /\ pc[p] # "idle" /\ of[p] = s

\* A supervisor is warmed by one thread only, and the flag says of the current
\* one that somebody is at it, however often it was replaced while a worker was
\* on its way.  The exception is a worker that did not start: the flag stays
\* set for good and nobody warms that supervisor ever
\* (schedule_selective_relisten_prewarm and its worker's finally).
WarmingHasOneWorker ==
    /\ warming <=> \/ current \in abandoned
                   \/ \E p \in Threads \cup {None} : Warms(p, current)
    /\ \A s \in Made : \A p, q \in Threads \cup {None} :
        Warms(p, s) /\ Warms(q, s) => p = q
    /\ \A s \in abandoned : \A p \in Threads \cup {None} : ~Warms(p, s)

\* The one wait without a deadline: a child that lives and does not read.
WaitsForReader(t) ==
    t \in Takes /\ pc[t] = "send" /\ proc[child[of[t]]] = "running"

\* A thread that holds the lock past its deadline can go on, whatever the child
\* does, but for one that still sends to a child that does not read: it alone
\* can keep the next take and the menu's close waiting (verify, prewarm, close).
OnlySendOutlastsDeadline ==
    \A p \in Threads :
        (late[p] /\ \E s \in Made : lock[s] = p) =>
            \/ p \in Takes /\ ENABLED TakeSteps(p)
            \/ p \in Workers /\ ENABLED WorkerSteps(p)
            \/ WaitsForReader(p)
=============================================================================
