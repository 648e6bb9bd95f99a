--------------------------- MODULE ForegroundDemand ---------------------------
(***************************************************************************)
(* Who writes to the SQLite ledger when (packages/lp-ledger/src/index.ts). *)
(* An economic commit runs in the foreground: it publishes a marker file,  *)
(* retries its short callback while the database is locked, and removes    *)
(* the marker.  Workers write in the background: each waits until it sees  *)
(* no live marker and only then opens its window.  There is no lock around *)
(* the two, the marker has a time to live because its owner may die, and   *)
(* both sides give up after a bounded time.                                *)
(*                                                                         *)
(* Time is discrete.  Every timer of a process is a field of its record;   *)
(* Tick moves all of them and waits for whoever must act first.            *)
(***************************************************************************)
EXTENDS Naturals, FiniteSets, FiniteSetsExt

CONSTANTS
    Foreground,     \* processes that commit economic facts: bot, reset and
                    \* reconcile workers
    Background,     \* state cache, urgent verifier, registry, direct lookup
    NONE,           \* nobody
    Ttl,            \* ECONOMIC_FOREGROUND_MARKER_TTL_MS
    AcquireTime,    \* longest time from reading the clock to the rename
    Busy,           \* SQLite busy timeout of one attempt
    MaxDelay,       \* longest pause between two attempts
    Attempts,       \* attempts of the foreground callback
    Budget,         \* ECONOMIC_FOREGROUND_RETRY_BUDGET_MS
    Tries,          \* attempts of a background window
    Window,         \* longest time one callback holds the write lock
    MaxWait,        \* how long a background writer waits for the demand
    HandoffWait     \* how long reconciliationBackgroundWrite waits for it

Procs == Foreground \cup Background

ASSUME ProcsAssumption == Foreground \cap Background = {} /\ NONE \notin Procs
ASSUME TimesAssumption ==
    /\ {Ttl, AcquireTime, Busy, MaxDelay, Attempts, Budget, Tries, Window,
        MaxWait, HandoffWait} \subseteq Nat
    /\ Busy > 0 /\ MaxDelay > 0 /\ Window > 0 /\ Attempts > 0 /\ Tries > 0

VARIABLES
    proc,       \* [Procs -> where it is, and its timers]
    life,       \* [Foreground -> time its published marker has left, 0: none]
    orphan,     \* the same for the marker of a dead process
    lock,       \* who holds the SQLite write lock
    windows,    \* history: for each foreground commit, the windows (0, 1, more)
                \* that each process opened since it published its marker
    newer       \* history: [Procs -> a marker came up while it was waiting]

vars == <<proc, life, orphan, lock, windows, newer>>
history == <<windows, newer>>

Idle == [pc |-> "idle", work |-> "write", spent |-> 0, tries |-> 0, left |-> 0]
Pcs == {"idle", "acquire", "wait", "try", "sleep", "held"}
NoWindows == [p \in Procs |-> 0]
Horizon == Ttl + AcquireTime + Budget + Busy + Window + MaxWait + HandoffWait
               + Tries * (Busy + MaxDelay)

TypeOK ==
    /\ proc \in [Procs -> [pc : Pcs, work : {"write", "handoff"}, spent : 0..Horizon,
                           tries : 0..(Attempts + Tries), left : 0..Horizon]]
    /\ life \in [Foreground -> 0..Ttl] /\ orphan \in 0..Ttl
    /\ lock \in Procs \cup {NONE}
    /\ \A p \in Procs : proc[p].pc = "held" <=> lock = p
    /\ windows \in [Foreground -> [Procs -> 0..2]] /\ newer \in [Procs -> BOOLEAN]

Init ==
    /\ proc = [p \in Procs |-> Idle]
    /\ life = [f \in Foreground |-> 0] /\ orphan = 0
    /\ lock = NONE
    /\ windows = [f \in Foreground |-> NoWindows]
    /\ newer = [p \in Procs |-> FALSE]

At(p, pc) == proc[p].pc = pc
Up(f) == proc[f].pc \notin {"idle", "acquire"}
Move(p, r) == proc' = [proc EXCEPT ![p] = r]
-----------------------------------------------------------------------------
(* Markers                                                                 *)

(* inspectEconomicForegroundDemand counts every live marker, the one of    *)
(* the process that asks included: the recovery handoff of a foreground    *)
(* commit writes to the work queue as a background writer would, and waits *)
(* for the marker of its own commit.                                       *)
DemandPresent == orphan > 0 \/ \E f \in Foreground : life[f] > 0

Acquire(f, work) ==
    /\ At(f, "idle")
    /\ Move(f, [Idle EXCEPT !.pc = "acquire", !.work = work])
    /\ UNCHANGED <<life, orphan, lock, history>>

(* Temporary file, rename, cleanup: expired markers go, live ones stay.    *)
Publish(f) ==
    /\ At(f, "acquire")
    /\ life' = [life EXCEPT ![f] = Ttl - Min({proc[f].spent, Ttl})]
    /\ Move(f, [proc[f] EXCEPT !.pc = IF proc[f].work = "handoff" THEN "wait" ELSE "try",
                               !.spent = 0, !.tries = 1, !.left = Busy])
    /\ newer' = [p \in Procs |-> newer[p] \/ At(p, "wait")]
    /\ UNCHANGED <<orphan, lock, windows>>

(* release, in the finally of withEconomicForegroundPersistenceSync.       *)
Over(p) ==
    /\ Move(p, Idle)
    /\ life' = IF p \in Foreground THEN [life EXCEPT ![p] = 0] ELSE life
    /\ windows' = IF p \in Foreground THEN [windows EXCEPT ![p] = NoWindows] ELSE windows
    /\ newer' = [newer EXCEPT ![p] = FALSE]

(* The process dies: SQLite drops its lock, nobody removes its marker.     *)
Die(p) ==
    /\ ~At(p, "idle")
    /\ Over(p)
    /\ lock' = IF lock = p THEN NONE ELSE lock
    /\ orphan' = IF p \in Foreground THEN Max({orphan, life[p]}) ELSE orphan
-----------------------------------------------------------------------------
(* Waiting for the demand to clear                                         *)

BeginWait(b) ==
    /\ At(b, "idle")
    /\ Move(b, [Idle EXCEPT !.pc = "wait", !.tries = 1])
    /\ newer' = [newer EXCEPT ![b] = FALSE]
    /\ UNCHANGED <<life, orphan, lock, windows>>

ShortPatience(p) == HandoffWait

Patience(p) == IF p \in Foreground THEN HandoffWait ELSE MaxWait

ClearWithoutLooking(p) ==
    /\ At(p, "wait")
    /\ Move(p, [proc[p] EXCEPT !.pc = "try", !.spent = 0, !.left = Busy])
    /\ UNCHANGED <<life, orphan, lock, history>>

Clear(p) ==
    /\ At(p, "wait") /\ ~DemandPresent
    /\ Move(p, [proc[p] EXCEPT !.pc = "try", !.spent = 0, !.left = Busy])
    /\ UNCHANGED <<life, orphan, lock, history>>

(* EconomicForegroundDemandActiveError: no SQLite error, so no retry.      *)
TurnAway(p) ==
    /\ At(p, "wait") /\ DemandPresent
    /\ proc[p].spent >= Patience(p)
    /\ Over(p)
    /\ UNCHANGED <<orphan, lock>>
-----------------------------------------------------------------------------
(* withSqliteTransientRetrySync                                            *)

Open(p) ==
    /\ At(p, "try") /\ lock = NONE
    /\ lock' = p
    /\ Move(p, [proc[p] EXCEPT !.pc = "held", !.left = Window])
    /\ windows' = [f \in Foreground |->
                      IF Up(f) THEN [windows[f] EXCEPT ![p] = Min({@ + 1, 2})] ELSE windows[f]]
    /\ UNCHANGED <<life, orphan, newer>>

CloseKeepsLock(p) ==
    /\ At(p, "held")
    /\ Over(p)
    /\ UNCHANGED <<lock, orphan>>

(* The callback commits or throws: the window and the demand are over.     *)
Close(p) ==
    /\ At(p, "held")
    /\ lock' = NONE
    /\ Over(p)
    /\ UNCHANGED orphan

Remaining(p) == IF proc[p].spent >= Budget THEN 0 ELSE Budget - proc[p].spent

OneAttemptLess(p) ==
    IF p \in Foreground THEN proc[p].tries = Attempts - 1 ELSE proc[p].tries = Tries

LastAttempt(p) ==
    IF p \in Foreground THEN proc[p].tries = Attempts \/ Remaining(p) = 0
    ELSE proc[p].tries = Tries

Locked(p) == At(p, "try") /\ lock # NONE /\ proc[p].left = 0

Pause(p) ==
    /\ Locked(p) /\ ~LastAttempt(p)
    /\ \E d \in 1..(IF p \in Foreground THEN Min({MaxDelay, Remaining(p)}) ELSE MaxDelay) :
          Move(p, [proc[p] EXCEPT !.pc = "sleep", !.left = d])
    /\ UNCHANGED <<life, orphan, lock, history>>

Again(p) ==
    /\ At(p, "sleep") /\ proc[p].left = 0
    /\ Move(p, [proc[p] EXCEPT !.pc = "try", !.left = Busy, !.tries = @ + 1])
    /\ UNCHANGED <<life, orphan, lock, history>>

(* SqliteTransientRetryExhaustedError                                      *)
Exhaust(p) ==
    /\ Locked(p) /\ LastAttempt(p)
    /\ Over(p)
    /\ UNCHANGED <<orphan, lock>>
-----------------------------------------------------------------------------
Later(n) == IF n = 0 THEN 0 ELSE n - 1

(* What must happen before more time passes: a timer has run out, or the   *)
(* busy handler, which polls faster than a tick, sees the lock free.       *)
Urgent(p) ==
    \/ At(p, "acquire") /\ proc[p].spent = AcquireTime
    \/ At(p, "wait") /\ DemandPresent /\ proc[p].spent >= Patience(p)
    \/ At(p, "try") /\ (lock = NONE \/ proc[p].left = 0)
    \/ (At(p, "sleep") \/ At(p, "held")) /\ proc[p].left = 0

Aged(r) ==
    CASE r.pc = "idle" -> r
      [] r.pc = "wait" -> [r EXCEPT !.spent = Min({@ + 1, MaxWait + HandoffWait})]
      [] OTHER         -> [r EXCEPT !.spent = @ + 1, !.left = Later(@)]

Tick ==
    /\ \A p \in Procs : ~Urgent(p)
    /\ proc' = [p \in Procs |-> Aged(proc[p])]
    /\ life' = [f \in Foreground |-> Later(life[f])] /\ orphan' = Later(orphan)
    /\ UNCHANGED <<lock, history>>

Next ==
    \/ \E f \in Foreground : Publish(f) \/ \E w \in {"write", "handoff"} : Acquire(f, w)
    \/ \E b \in Background : BeginWait(b)
    \/ \E p \in Procs : \/ Clear(p) \/ TurnAway(p) \/ Open(p) \/ Close(p)
                        \/ Pause(p) \/ Again(p) \/ Exhaust(p) \/ Die(p)
    \/ Tick

Spec == Init /\ [][Next]_vars
-----------------------------------------------------------------------------
(* Properties                                                              *)

(* The check and the write are not one step, so a worker that has just     *)
(* looked may still open a window.  It does so once: while a foreground    *)
(* commit is under way no worker gets in front of it a second time.  This  *)
(* needs the marker to outlive every retry of its owner.                   *)
BypassOnce ==
    \A f \in Foreground, b \in Background :
        windows[f][b] <= 1

(* Workers alone never defeat a foreground commit: when its attempts are   *)
(* exhausted, another foreground process held the lock in the meantime.    *)
GivesUpOnlyToPeers ==
    [][\A f \in Foreground :
          Exhaust(f) => \E g \in Foreground \ {f} : windows[f][g] > 0]_vars

(* A dead owner does not turn workers away: whoever waited in vain met a   *)
(* marker that was not yet there when the wait began.                      *)
TurnedAwayByNewDemand ==
    [][\A b \in Background : TurnAway(b) => newer[b]]_vars
=============================================================================
