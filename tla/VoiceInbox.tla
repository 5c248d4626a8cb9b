----------------------------- MODULE VoiceInbox -----------------------------
(***************************************************************************)
(* voice_inbox.py and its callers in dictate.py: the durable queue of      *)
(* deferred drafts.  A VoiceInbox holds the items in memory and replaces   *)
(* its file before it changes them; dictate.py keeps one, lets go of it    *)
(* when Voice Objects are turned off, and opens another when it is needed. *)
(* A caller fetches the current inbox and calls it after letting go of the *)
(* lock that guards the reference.  The process may end at any step.       *)
(*                                                                         *)
(* An inbox is its set of items and the next sequence number; a file that  *)
(* does not exist is the empty inbox.  The provenance of an item is left   *)
(* out (it is derived from its id), and reads change nothing.              *)
(***************************************************************************)
EXTENDS Integers, FiniteSets

CONSTANTS
    Callers, Ids, Payloads,
    MaxItems,           \* MAX_ITEMS
    MaxSequence,        \* bound: sequence numbers handed out
    MaxOpened           \* bound: VoiceInbox objects made

ASSUME InboxAssumption ==
    /\ MaxItems \in Nat \ {0} /\ MaxSequence \in Nat /\ MaxOpened \in Nat \ {0}
    /\ IsFiniteSet(Ids)

VARIABLES
    file,               \* the inbox on disk
    memory,             \* of each VoiceInbox: _items, _next_sequence
    opened,             \* number of objects made; the last one is the newest
    current,            \* VOICE_OBJECT_INBOX_STATE["inbox"], 0 for None
    step, object,       \* of each caller: where it is, the object it holds
    proposed,           \* what it writes; what an idle caller holds is reset
    overlapped,         \* history: an object was made while another was in use
    receipts,           \* history: what callers were told
    purged              \* history: numbers of the items purged

callerVars == <<step, object, proposed>>
history == <<overlapped, receipts, purged>>
vars == <<file, memory, opened, current, callerVars, history>>

Terminal == {"acknowledged", "cancelled"}
Items == [id : Ids, payload : Payloads, state : {"queued"} \cup Terminal,
          sequence : Nat]
Inboxes == [items : SUBSET Items, next : Nat]
Empty == [items |-> {}, next |-> 1]

TypeOK ==
    /\ file \in Inboxes
    /\ memory \in [1..MaxOpened -> Inboxes]
    /\ opened \in 0..MaxOpened /\ current \in 0..opened
    /\ step \in [Callers -> {"idle", "bridge", "inbox", "writing",
                           "replaced"}]
    /\ object \in [Callers -> 0..opened]
    /\ \A c \in Callers : step[c] # "idle" => object[c] # 0
    /\ proposed \in [Callers -> Inboxes]
    /\ overlapped \in BOOLEAN
    /\ receipts \in SUBSET Items
    /\ purged \in SUBSET Nat

Init ==
    /\ file = Empty
    /\ memory = [o \in 1..MaxOpened |-> Empty]
    /\ opened = 0 /\ current = 0
    /\ step = [c \in Callers |-> "idle"]
    /\ object = [c \in Callers |-> 0]
    /\ proposed = [c \in Callers |-> Empty]
    /\ overlapped = FALSE /\ receipts = {} /\ purged = {}

-----------------------------------------------------------------------------
(* dictate.py: the current inbox.                                          *)

\* _decode_state accepts the file.
Loads(inbox) ==
    /\ inbox.next >= 1 /\ Cardinality(inbox.items) <= MaxItems
    /\ \A x, y \in inbox.items :
        x # y => x.id # y.id /\ x.sequence # y.sequence
    /\ \A x \in inbox.items : x.sequence \in 1..(inbox.next - 1)

\* The call is over.
Leave(c) ==
    /\ step' = [step EXCEPT ![c] = "idle"]
    /\ object' = [object EXCEPT ![c] = 0]
    /\ proposed' = [proposed EXCEPT ![c] = Empty]

\* _voice_object_inbox_bridge: the current object ...
Fetch(c) ==
    /\ step[c] = "idle" /\ current # 0
    /\ step' = [step EXCEPT ![c] = "bridge"]
    /\ object' = [object EXCEPT ![c] = current]
    /\ UNCHANGED <<file, memory, opened, current, proposed, history>>

\* ... or a new one, that loads the file.
Open(c) ==
    /\ step[c] = "idle" /\ current = 0
    /\ opened < MaxOpened /\ Loads(file)
    /\ opened' = opened + 1 /\ current' = opened + 1
    /\ memory' = [memory EXCEPT ![opened + 1] = file]
    /\ overlapped' = (overlapped \/ \E d \in Callers : step[d] # "idle")
    /\ step' = [step EXCEPT ![c] = "bridge"]
    /\ object' = [object EXCEPT ![c] = opened + 1]
    /\ UNCHANGED <<file, proposed, receipts, purged>>

\* Wrong variant: the caller goes on with whatever it finds.
LookAnyway(c) ==
    /\ step[c] = "bridge"
    /\ step' = [step EXCEPT ![c] = "inbox"]
    /\ object' = [object EXCEPT ![c] = current]
    /\ UNCHANGED <<file, memory, opened, current, proposed, history>>

\* acknowledge_, cancel_ and purge_terminal_voice_object_draft: the inbox is
\* read again, and may be another one by now, or None: that raises.
LookAgain(c) ==
    /\ step[c] = "bridge"
    /\ \/ /\ current = 0
          /\ Leave(c)
       \/ /\ current # 0
          /\ step' = [step EXCEPT ![c] = "inbox"]
          /\ object' = [object EXCEPT ![c] = current]
          /\ UNCHANGED proposed
    /\ UNCHANGED <<file, memory, opened, current, history>>

\* set_voice_object_commands_enabled(False).
TurnOff ==
    /\ current # 0
    /\ current' = 0
    /\ UNCHANGED <<file, memory, opened, callerVars, history>>

-----------------------------------------------------------------------------
(* The operations of a VoiceInbox, each under the lock of its object.      *)

Mine(c) == memory[object[c]]

Writing(c) == step[c] \in {"writing", "replaced"}

LockFree(c) == \A d \in Callers : object[d] = object[c] => ~Writing(d)

\* What is to be written: the items and the next number.
Proposes(c, items, next) ==
    /\ LockFree(c)
    /\ proposed' = [proposed EXCEPT ![c] = [items |-> items, next |-> next]]
    /\ step' = [step EXCEPT ![c] = "writing"]
    /\ UNCHANGED <<file, memory, opened, current, object, history>>

NewItem(c, id, payload) ==
    [id |-> id, payload |-> payload, state |-> "queued",
     sequence |-> Mine(c).next]

\* enqueue of an item that is new.
Enqueue(c, id, payload) ==
    /\ step[c] = "bridge"
    /\ \A x \in Mine(c).items : x.id # id
    /\ Cardinality(Mine(c).items) < MaxItems
    /\ Mine(c).next <= MaxSequence
    /\ Proposes(c, Mine(c).items \cup {NewItem(c, id, payload)},
                Mine(c).next + 1)

\* Wrong variant: a settled item is settled again, the other way.
TransitionSettled(c, x, target) ==
    /\ step[c] = "inbox" /\ x.state # target
    /\ Proposes(c, (Mine(c).items \ {x}) \cup {[x EXCEPT !.state = target]},
                Mine(c).next)

\* ack and cancel of a queued item.
Transition(c, x, target) ==
    /\ step[c] = "inbox" /\ x.state = "queued"
    /\ Proposes(c, (Mine(c).items \ {x}) \cup {[x EXCEPT !.state = target]},
                Mine(c).next)

Queued(c) == {x \in Mine(c).items : x.state = "queued"}

\* Wrong variant: the numbers start over when the inbox is empty.
PurgeAndRestart(c) ==
    /\ step[c] = "inbox" /\ Queued(c) # Mine(c).items
    /\ Proposes(c, Queued(c), IF Queued(c) = {} THEN 1 ELSE Mine(c).next)

\* purge_terminal, when there is something to remove.
PurgeTerminal(c) ==
    /\ step[c] = "inbox" /\ Queued(c) # Mine(c).items
    /\ Proposes(c, Queued(c), Mine(c).next)

\* An exact duplicate of what was done before has no further effect: enqueue of
\* the same item, ack or cancel of one already so.
Repeat(c, x) ==
    /\ step[c] = "bridge" \/ (step[c] = "inbox" /\ x.state \in Terminal)
    /\ LockFree(c)
    /\ receipts' = receipts \cup {x}
    /\ Leave(c)
    /\ UNCHANGED <<file, memory, opened, current, overlapped, purged>>

\* Conflicting content, an unknown item, a settled one, a full inbox, nothing
\* to purge: nothing changes.
Refuse(c) ==
    /\ step[c] \in {"bridge", "inbox"} /\ LockFree(c)
    /\ Leave(c)
    /\ UNCHANGED <<file, memory, opened, current, history>>

\* _atomic_write fails before the replace; the temporary file is removed.
WriteFails(c) ==
    /\ step[c] = "writing"
    /\ Leave(c)
    /\ UNCHANGED <<file, memory, opened, current, history>>

\* What the write of a caller removes from the file for good.
Erased(c) ==
    {x.sequence : x \in {y \in file.items : y.state \in Terminal}}
        \ {x.sequence : x \in proposed[c].items}

\* The object changes, the lock is free, and the caller has its receipt.
Answers(c) ==
    /\ memory' = [memory EXCEPT ![object[c]] = proposed[c]]
    /\ receipts' = receipts \cup (proposed[c].items \ Mine(c).items)
    /\ Leave(c)
    /\ UNCHANGED <<opened, current, overlapped, purged>>

\* Wrong variant: the object changes, and the caller is told, before the file.
AnswerFirst(c) ==
    /\ step[c] = "writing"
    /\ Answers(c) /\ UNCHANGED file

\* os.replace: the write is durable.
Replace(c) ==
    /\ step[c] = "writing"
    /\ file' = proposed[c]
    /\ purged' = purged \cup Erased(c)
    /\ step' = [step EXCEPT ![c] = "replaced"]
    /\ UNCHANGED <<memory, opened, current, object, proposed, overlapped,
                   receipts>>

Commit(c) ==
    /\ step[c] = "replaced"
    /\ Answers(c) /\ UNCHANGED file

\* The process ends, and is started again.
Restart ==
    /\ current' = 0
    /\ step' = [c \in Callers |-> "idle"]
    /\ object' = [c \in Callers |-> 0]
    /\ proposed' = [c \in Callers |-> Empty]
    /\ UNCHANGED <<file, memory, opened, history>>

-----------------------------------------------------------------------------
Uses(c) ==
    \/ \E id \in Ids, payload \in Payloads : Enqueue(c, id, payload)
    \/ \E x \in Mine(c).items :
        Repeat(c, x) \/ \E target \in Terminal : Transition(c, x, target)
    \/ PurgeTerminal(c)

CallerSteps(c) ==
    \/ Fetch(c) \/ Open(c) \/ LookAgain(c) \/ Refuse(c)
    \/ step[c] # "idle" /\ Uses(c)
    \/ WriteFails(c) \/ Replace(c) \/ Commit(c)

Next == TurnOff \/ Restart \/ \E c \in Callers : CallerSteps(c)

Spec == Init /\ [][Next]_vars

-----------------------------------------------------------------------------
(* Properties.  They ask what the module's docstring asks: one owner of    *)
(* the file, so no object in use while another one is made.                *)

Contract == INSTANCE InboxContract WITH items <- file.items, next <- file.next

\* The file changes by one whole operation of the contract at a time, whatever
\* fails and wherever the process ends (_atomic_write, enqueue, _transition,
\* purge_terminal).
FileFollowsContract ==
    [][~overlapped => [Contract!InboxNext]_Contract!contractVars]_vars

\* What a caller was told is in the file, settled states as they were told,
\* until a purge erases a settled item (InboxReceipt).
AnsweredIsDurable ==
    ~overlapped =>
        \A r \in receipts :
            \/ r.sequence \in purged
            \/ \E x \in file.items :
                /\ x.id = r.id /\ x.payload = r.payload
                /\ x.sequence = r.sequence
                /\ r.state \in Terminal => x.state = r.state

\* A number names one item for ever: not another one after a purge, a failed
\* write or a restart (next_sequence).
NumberNamesOneItem ==
    ~overlapped =>
        \A r, s \in receipts :
            r.sequence = s.sequence => r.id = s.id /\ r.payload = s.payload
=============================================================================
