------------------------ MODULE ForegroundDemandProofs ------------------------
(***************************************************************************)
(* Theorems about ForegroundDemand, for any number of processes and any    *)
(* times: how long a process can be under way, that a worker gets in front *)
(* of a commit once, that workers alone do not defeat it, and that nobody  *)
(* waits in vain for a dead owner.  What they need of the times is stated  *)
(* as a condition, and the constants of the code meet it.                  *)
(***************************************************************************)
EXTENDS ForegroundDemand, FiniteSetTheorems, TLAPS

LEMMA TwoNumbers ==
    ASSUME NEW m \in Int, NEW n \in Int
    PROVE  /\ Min({m, n}) \in {m, n} /\ Min({m, n}) <= m /\ Min({m, n}) <= n
           /\ Max({m, n}) \in {m, n} /\ Max({m, n}) >= m /\ Max({m, n}) >= n
  <1>1. \E x \in {m, n} : \A y \in {m, n} : x =< y
    <2>1. m =< n \/ n =< m
      OBVIOUS
    <2> QED  BY <2>1
  <1>2. \E x \in {m, n} : \A y \in {m, n} : x >= y
    <2>1. m >= n \/ n >= m
      OBVIOUS
    <2> QED  BY <2>1
  <1>3. Min({m, n}) \in {m, n} /\ \A y \in {m, n} : Min({m, n}) =< y
    BY <1>1 DEF Min
  <1>4. Max({m, n}) \in {m, n} /\ \A y \in {m, n} : Max({m, n}) >= y
    BY <1>2 DEF Max
  <1> QED  BY <1>3, <1>4

LEMMA Times ==
    /\ Ttl \in Nat /\ AcquireTime \in Nat /\ Busy \in Nat /\ MaxDelay \in Nat /\ Attempts \in Nat
    /\ Budget \in Nat /\ Tries \in Nat /\ Window \in Nat /\ MaxWait \in Nat /\ HandoffWait \in Nat
    /\ Busy > 0 /\ MaxDelay > 0 /\ Window > 0 /\ Attempts > 0 /\ Tries > 0
  BY TimesAssumption

(* The longest time until the end of the k-th attempt, and of the pause    *)
(* after it.                                                               *)
TryTime(k) == k * Busy + (k - 1) * MaxDelay
PauseTime(k) == k * (Busy + MaxDelay)

LEMMA AttemptTimes ==
    ASSUME NEW k \in Nat, k >= 1
    PROVE  /\ TryTime(k) \in Nat /\ PauseTime(k) \in Nat
           /\ PauseTime(k) = TryTime(k) + MaxDelay
           /\ TryTime(k + 1) = PauseTime(k) + Busy
           /\ TryTime(1) = Busy
  <1>1. k - 1 \in Nat /\ k * Busy \in Nat /\ k * MaxDelay \in Nat /\ (k - 1) * MaxDelay \in Nat
    BY Times
  <1>2. PauseTime(k) = k * Busy + k * MaxDelay /\ (k - 1) * MaxDelay = k * MaxDelay - MaxDelay
    BY Times DEF PauseTime
  <1>3. (k + 1) * Busy = k * Busy + Busy /\ (k + 1) - 1 = k
    BY Times
  <1>4. TryTime(1) = Busy
    BY Times DEF TryTime
  <1> QED  BY <1>1, <1>2, <1>3, <1>4, Times DEF TryTime

LEMMA LastTry ==
    ASSUME NEW k \in Nat, k >= 1, k <= Tries
    PROVE  PauseTime(k) <= Tries * (Busy + MaxDelay)
  <1>1. PICK d \in Nat : Tries = k + d
    <2>1. Tries - k \in Nat /\ Tries = k + (Tries - k)
      BY Times
    <2> QED  BY <2>1
  <1>2. Tries * (Busy + MaxDelay) = k * (Busy + MaxDelay) + d * (Busy + MaxDelay)
    BY <1>1, Times
  <1>3. d * (Busy + MaxDelay) \in Nat /\ k * (Busy + MaxDelay) \in Nat
    BY Times
  <1> QED  BY <1>2, <1>3 DEF PauseTime
-----------------------------------------------------------------------------
(* How far the timers of a process may have run.                           *)
MostTries(p) == IF p \in Foreground THEN Attempts ELSE Tries

Timers == [pc : Pcs, work : {"write", "handoff"}, spent : Nat, tries : Nat, left : Nat]

Fits(p, r) ==
    /\ r \in Timers
    /\ r.pc = "idle" => r = Idle
    /\ r.pc = "acquire" => /\ p \in Foreground /\ r.tries = 0 /\ r.left = 0
                           /\ r.spent <= AcquireTime
    /\ r.pc = "wait" => r.tries = 1 /\ r.left <= Busy /\ r.spent <= MaxWait + HandoffWait
    /\ r.pc = "try" => /\ 1 <= r.tries /\ r.tries <= MostTries(p) /\ r.left <= Busy
                       /\ r.spent + r.left <= TryTime(r.tries)
                       /\ p \in Foreground => r.spent + r.left <= Budget + Busy
    /\ r.pc = "sleep" => /\ 1 <= r.tries /\ r.tries < MostTries(p) /\ r.left <= MaxDelay
                         /\ r.spent + r.left <= PauseTime(r.tries)
                         /\ p \in Foreground => r.spent + r.left <= Budget
    /\ r.pc = "held" => /\ 1 <= r.tries /\ r.tries <= MostTries(p) /\ r.left <= Window
                        /\ r.spent + r.left <= TryTime(r.tries) + Window
                        /\ p \in Foreground => r.spent + r.left <= Budget + Busy + Window

ClockInv ==
    /\ proc \in [Procs -> Timers]
    /\ \A p \in Procs : Fits(p, proc[p])

StoreInv ==
    /\ life \in [Foreground -> 0..Ttl] /\ orphan \in 0..Ttl
    /\ lock \in Procs \cup {NONE}
    /\ \A p \in Procs : At(p, "held") <=> lock = p
    /\ windows \in [Foreground -> [Procs -> 0..2]] /\ newer \in [Procs -> BOOLEAN]

LEMMA IdleFits ==
    ASSUME NEW p
    PROVE  /\ Fits(p, Idle)
           /\ Idle \in Timers /\ Idle.pc = "idle" /\ Idle.work = "write"
           /\ Idle.spent = 0 /\ Idle.tries = 0 /\ Idle.left = 0
  BY DEF Fits, Idle, Timers, Pcs

LEMMA MovedFits ==
    ASSUME ClockInv, NEW p \in Procs, NEW r, Fits(p, r), Move(p, r)
    PROVE  ClockInv' /\ proc'[p] = r /\ \A q \in Procs : q # p => proc'[q] = proc[q]
  <1>1. r \in Timers
    BY DEF Fits
  <1>2. /\ proc' \in [Procs -> Timers]
        /\ proc'[p] = r /\ \A q \in Procs : q # p => proc'[q] = proc[q]
    BY <1>1 DEF Move, ClockInv
  <1>3. \A q \in Procs : Fits(q, proc'[q])
    BY <1>2 DEF ClockInv
  <1> QED  BY <1>2, <1>3 DEF ClockInv

(* A step of one process: what its record becomes.                         *)
OwnStep(p) ==
    \/ p \in Foreground /\ (Publish(p) \/ \E w \in {"write", "handoff"} : Acquire(p, w))
    \/ p \in Background /\ BeginWait(p)
    \/ Clear(p) \/ TurnAway(p) \/ Open(p) \/ Close(p) \/ Pause(p) \/ Again(p) \/ Exhaust(p) \/ Die(p)

LEMMA Steps ==
    ASSUME [Next]_vars
    PROVE  (\E p \in Procs : OwnStep(p)) \/ Tick \/ UNCHANGED vars
  BY DEF Next, OwnStep, Procs

LEMMA OwnFits ==
    ASSUME ClockInv, NEW p \in Procs, OwnStep(p)
    PROVE  \E r : Fits(p, r) /\ Move(p, r)
  <1> DEFINE x == proc[p]
  <1>1. Fits(p, x) /\ x \in Timers
    BY DEF ClockInv
  <1>2. CASE TurnAway(p) \/ Close(p) \/ Exhaust(p) \/ Die(p)
    BY <1>2, IdleFits DEF TurnAway, Close, Exhaust, Die, Over
  <1>3. ASSUME p \in Foreground, NEW w \in {"write", "handoff"}, Acquire(p, w)
        PROVE  \E r : Fits(p, r) /\ Move(p, r)
    <2> DEFINE r == [Idle EXCEPT !.pc = "acquire", !.work = w]
    <2>1. r \in Timers /\ r.pc = "acquire" /\ r.spent = 0 /\ r.tries = 0 /\ r.left = 0
      BY IdleFits DEF Timers, Pcs
    <2>2. Move(p, r)
      BY <1>3 DEF Acquire
    <2> HIDE DEF r
    <2>3. Fits(p, r)
      BY <1>3, <2>1, Times DEF Fits
    <2> QED  BY <2>2, <2>3
  <1>4. CASE p \in Foreground /\ Publish(p)
    <2> DEFINE r == [x EXCEPT !.pc = IF x.work = "handoff" THEN "wait" ELSE "try",
                              !.spent = 0, !.tries = 1, !.left = Busy]
    <2>1. r \in Timers /\ r.pc \in {"wait", "try"} /\ r.spent = 0 /\ r.tries = 1 /\ r.left = Busy
      BY <1>1, Times DEF Timers, Pcs
    <2>2. Move(p, r)
      BY <1>4 DEF Publish
    <2> HIDE DEF r
    <2>3. TryTime(1) = Busy
      BY AttemptTimes
    <2>4. Fits(p, r)
      BY <1>4, <2>1, <2>3, Times DEF Fits, MostTries
    <2> QED  BY <2>2, <2>4
  <1>5. CASE p \in Background /\ BeginWait(p)
    <2> DEFINE r == [Idle EXCEPT !.pc = "wait", !.tries = 1]
    <2>1. r \in Timers /\ r.pc = "wait" /\ r.spent = 0 /\ r.tries = 1 /\ r.left = 0
      BY IdleFits DEF Timers, Pcs
    <2>2. Move(p, r)
      BY <1>5 DEF BeginWait
    <2> HIDE DEF r
    <2>3. Fits(p, r)
      BY <2>1, Times DEF Fits
    <2> QED  BY <2>2, <2>3
  <1>6. CASE Clear(p)
    <2> DEFINE r == [x EXCEPT !.pc = "try", !.spent = 0, !.left = Busy]
    <2>1. x.pc = "wait"
      BY <1>6 DEF Clear, At
    <2>2. r \in Timers /\ r.pc = "try" /\ r.spent = 0 /\ r.tries = 1 /\ r.left = Busy
      BY <1>1, <2>1, Times DEF Fits, Timers, Pcs
    <2>3. Move(p, r)
      BY <1>6 DEF Clear
    <2> HIDE DEF r
    <2>4. TryTime(1) = Busy
      BY AttemptTimes
    <2>5. Fits(p, r)
      BY <2>2, <2>4, Times DEF Fits, MostTries
    <2> QED  BY <2>3, <2>5
  <1>7. CASE Open(p)
    <2> DEFINE r == [x EXCEPT !.pc = "held", !.left = Window]
    <2>1. x.pc = "try"
      BY <1>7 DEF Open, At
    <2>2. r \in Timers /\ r.pc = "held" /\ r.spent = x.spent /\ r.tries = x.tries /\ r.left = Window
      BY <1>1, Times DEF Timers, Pcs
    <2>3. Move(p, r)
      BY <1>7 DEF Open
    <2>4. /\ 1 <= x.tries /\ x.tries <= MostTries(p) /\ x.spent + x.left <= TryTime(x.tries)
          /\ p \in Foreground => x.spent + x.left <= Budget + Busy
          /\ x.spent \in Nat /\ x.left \in Nat /\ x.tries \in Nat
      BY <1>1, <2>1 DEF Fits, Timers
    <2>5. TryTime(x.tries) \in Nat
      BY <2>4, AttemptTimes
    <2> HIDE DEF r, x
    <2>6. Fits(p, r)
      BY <2>2, <2>4, <2>5, Times DEF Fits
    <2> QED  BY <2>3, <2>6
  <1>8. CASE Pause(p)
    <2>1. PICK d \in 1..(IF p \in Foreground THEN Min({MaxDelay, Remaining(p)}) ELSE MaxDelay) :
            Move(p, [x EXCEPT !.pc = "sleep", !.left = d])
      BY <1>8 DEF Pause
    <2>2. x.pc = "try" /\ x.left = 0 /\ ~LastAttempt(p)
      BY <1>8 DEF Pause, Locked, At
    <2>3. Remaining(p) \in Nat /\ (Remaining(p) # 0 => x.spent + Remaining(p) = Budget)
      BY <1>1, Times DEF Remaining, Timers
    <2>4. d \in Nat /\ d <= MaxDelay /\ (p \in Foreground => d <= Remaining(p))
      BY <2>1, <2>3, TwoNumbers, Times
    <2>5. x.tries < MostTries(p) /\ (p \in Foreground => Remaining(p) # 0)
      BY <1>1, <2>2, Times DEF LastAttempt, MostTries, Fits, Timers
    <2>6. TryTime(x.tries) \in Nat /\ PauseTime(x.tries) = TryTime(x.tries) + MaxDelay
      BY <1>1, <2>2, AttemptTimes DEF Fits, Timers
    <2> DEFINE r == [x EXCEPT !.pc = "sleep", !.left = d]
    <2>7. r \in Timers /\ r.pc = "sleep" /\ r.spent = x.spent /\ r.tries = x.tries /\ r.left = d
      BY <1>1, <2>4 DEF Timers, Pcs
    <2>8. 1 <= x.tries /\ x.spent <= TryTime(x.tries) /\ x.spent \in Nat /\ x.tries \in Nat
      BY <1>1, <2>2 DEF Fits, Timers
    <2> HIDE DEF r, x
    <2>9. Fits(p, r)
      BY <2>3, <2>4, <2>5, <2>6, <2>7, <2>8, Times DEF Fits
    <2> QED  BY <2>1, <2>9 DEF r
  <1>9. CASE Again(p)
    <2> DEFINE r == [x EXCEPT !.pc = "try", !.left = Busy, !.tries = @ + 1]
    <2>1. x.pc = "sleep" /\ x.left = 0
      BY <1>9 DEF Again, At
    <2>2. /\ 1 <= x.tries /\ x.tries < MostTries(p) /\ x.spent <= PauseTime(x.tries)
          /\ p \in Foreground => x.spent <= Budget
          /\ x.spent \in Nat /\ x.tries \in Nat
      BY <1>1, <2>1 DEF Fits, Timers
    <2>3. PauseTime(x.tries) \in Nat /\ TryTime(x.tries + 1) = PauseTime(x.tries) + Busy
      BY <2>2, AttemptTimes
    <2>4. MostTries(p) \in Nat
      BY Times DEF MostTries
    <2>5. r \in Timers /\ r.pc = "try" /\ r.spent = x.spent /\ r.tries = x.tries + 1 /\ r.left = Busy
      <3>1. PICK k \in Nat : k = x.tries + 1
        BY <2>2
      <3>2. r = [x EXCEPT !.pc = "try", !.left = Busy, !.tries = k]
        BY <3>1
      <3> HIDE DEF r
      <3> QED  BY <1>1, <3>1, <3>2, Times DEF Timers, Pcs
    <2>6. Move(p, r)
      BY <1>9 DEF Again
    <2> HIDE DEF r, x
    <2>7. Fits(p, r)
      BY <2>2, <2>3, <2>4, <2>5, Times DEF Fits
    <2> QED  BY <2>6, <2>7
  <1> QED  BY <1>2, <1>3, <1>4, <1>5, <1>6, <1>7, <1>8, <1>9 DEF OwnStep

LEMMA AgeFields ==
    ASSUME NEW x \in Timers
    PROVE  LET r == [x EXCEPT !.spent = x.spent + 1, !.left = Later(x.left)] IN
           /\ r \in Timers /\ r.pc = x.pc /\ r.spent = x.spent + 1
           /\ r.tries = x.tries /\ r.left = Later(x.left)
  <1>1. PICK s \in Nat, l \in Nat : s = x.spent + 1 /\ l = Later(x.left)
    BY DEF Timers, Later
  <1>2. [x EXCEPT !.spent = s, !.left = l] = [x EXCEPT !.spent = x.spent + 1, !.left = Later(x.left)]
    BY <1>1
  <1> DEFINE q == [x EXCEPT !.spent = s, !.left = l]
  <1>3. q \in Timers /\ q.pc = x.pc /\ q.spent = s /\ q.tries = x.tries /\ q.left = l
    BY DEF Timers
  <1> QED  BY <1>1, <1>2, <1>3

(* Time passes only where no timer has run out.                            *)
LEMMA AgedFits ==
    ASSUME ClockInv, Tick, NEW p \in Procs
    PROVE  /\ proc'[p] = Aged(proc[p]) /\ Fits(p, proc'[p])
           /\ proc'[p].pc = proc[p].pc /\ proc'[p].tries = proc[p].tries
  <1> DEFINE x == proc[p]
  <1>1. Fits(p, x) /\ x \in Timers /\ ~Urgent(p)
    BY DEF ClockInv, Tick
  <1>2. proc'[p] = Aged(x)
    BY DEF Tick
  <1>3. CASE x.pc = "idle"
    BY <1>1, <1>2, <1>3 DEF Aged
  <1>4. CASE x.pc = "wait"
    <2> DEFINE n == Min({x.spent + 1, MaxWait + HandoffWait})
    <2>1. n \in Nat /\ n <= MaxWait + HandoffWait
      <3>1. x.spent + 1 \in Nat /\ MaxWait + HandoffWait \in Nat
        BY <1>1, Times DEF Timers
      <3>2. n \in {x.spent + 1, MaxWait + HandoffWait} /\ n <= MaxWait + HandoffWait
        <4>1. PICK u \in Nat, v \in Nat : u = x.spent + 1 /\ v = MaxWait + HandoffWait
          BY <3>1
        <4>2. u \in Int /\ v \in Int
          OBVIOUS
        <4>3. Min({u, v}) \in {u, v} /\ Min({u, v}) <= v
          BY <4>2, TwoNumbers
        <4> QED  BY <4>1, <4>3
      <3> QED  BY <3>1, <3>2
    <2>2. proc'[p] = [x EXCEPT !.spent = n]
      BY <1>1, <1>2, <1>4 DEF Aged, Timers
    <2> HIDE DEF n
    <2>3. /\ proc'[p] \in Timers /\ proc'[p].pc = "wait" /\ proc'[p].spent = n
          /\ proc'[p].tries = x.tries /\ proc'[p].left = x.left
      BY <1>1, <1>4, <2>1, <2>2 DEF Timers
    <2> QED  BY <1>1, <1>2, <1>4, <2>1, <2>3 DEF Fits
  <1>5. CASE x.pc \in {"acquire", "try", "sleep", "held"}
    <2> DEFINE r == [x EXCEPT !.spent = x.spent + 1, !.left = Later(x.left)]
    <2>1. proc'[p] = r
      BY <1>1, <1>2, <1>5 DEF Aged, Timers
    <2>2. Later(x.left) \in Nat /\ x.spent \in Nat /\ x.left \in Nat /\ x.tries \in Nat
      BY <1>1 DEF Later, Timers
    <2>3. /\ r \in Timers /\ r.pc = x.pc /\ r.spent = x.spent + 1
          /\ r.tries = x.tries /\ r.left = Later(x.left)
      BY <1>1, <2>2, AgeFields
    <2>4. CASE x.pc = "acquire"
      <3>1. x.spent + 1 <= AcquireTime /\ Later(x.left) = 0 /\ x.tries = 0 /\ p \in Foreground
        BY <1>1, <2>2, <2>4, Times DEF Urgent, At, Fits, Later
      <3> HIDE DEF r
      <3>2. Fits(p, r)
        BY <2>3, <2>4, <3>1 DEF Fits
      <3> QED  BY <1>2, <2>1, <2>3, <3>2
    <2>5. CASE x.pc \in {"try", "sleep", "held"}
      <3>1. x.left # 0 /\ Later(x.left) = x.left - 1
        BY <1>1, <2>2, <2>5 DEF Urgent, At, Later
      <3>2. r.spent + r.left = x.spent + x.left /\ r.left <= x.left /\ r.spent + r.left \in Nat
        BY <2>2, <2>3, <3>1
      <3>3. TryTime(x.tries) \in Nat /\ PauseTime(x.tries) \in Nat
        BY <1>1, <2>2, <2>5, AttemptTimes DEF Fits
      <3> HIDE DEF r
      <3>4. Fits(p, r)
        <4>1. r.left <= Busy \/ ~(x.left <= Busy)
          BY <2>2, <2>3, <3>2, Times
        <4>2. r.left <= MaxDelay \/ ~(x.left <= MaxDelay)
          BY <2>2, <2>3, <3>2, Times
        <4>3. r.left <= Window \/ ~(x.left <= Window)
          BY <2>2, <2>3, <3>2, Times
        <4> QED  BY <1>1, <2>3, <2>5, <3>2, <4>1, <4>2, <4>3 DEF Fits
      <3> QED  BY <1>2, <2>1, <2>3, <3>4
    <2> QED  BY <1>5, <2>4, <2>5
  <1> QED  BY <1>1, <1>3, <1>4, <1>5 DEF Timers, Pcs

LEMMA ClockStep ==
    ASSUME ClockInv, [Next]_vars
    PROVE  ClockInv'
  <1>1. ASSUME NEW p \in Procs, OwnStep(p) PROVE ClockInv'
    BY <1>1, OwnFits, MovedFits
  <1>2. CASE Tick
    <2>1. \A p \in Procs : Fits(p, proc'[p])
      BY <1>2, AgedFits
    <2>2. proc' \in [Procs -> Timers]
      BY <1>2, <2>1 DEF Tick, Fits
    <2> QED  BY <2>1, <2>2 DEF ClockInv
  <1>3. CASE UNCHANGED vars
    BY <1>3 DEF vars, ClockInv
  <1> QED  BY <1>1, <1>2, <1>3, Steps

LEMMA ElsewhereSame ==
    ASSUME ClockInv, NEW p \in Procs, OwnStep(p), NEW q \in Procs, q # p
    PROVE  proc'[q] = proc[q]
  BY OwnFits, MovedFits

(* The record a process ends with, and what the end does to the rest.      *)
LEMMA OverEffect ==
    ASSUME ClockInv, StoreInv, NEW p \in Procs, Over(p)
    PROVE  /\ proc'[p] = Idle /\ \A q \in Procs : q # p => proc'[q] = proc[q]
           /\ life' \in [Foreground -> 0..Ttl]
           /\ \A f \in Foreground : life'[f] = IF f = p THEN 0 ELSE life[f]
           /\ windows' \in [Foreground -> [Procs -> 0..2]]
           /\ \A f \in Foreground : windows'[f] = IF f = p THEN NoWindows ELSE windows[f]
           /\ newer' \in [Procs -> BOOLEAN]
           /\ \A q \in Procs : q # p => newer'[q] = newer[q]
  <1>1. proc'[p] = Idle /\ \A q \in Procs : q # p => proc'[q] = proc[q]
    BY MovedFits, IdleFits DEF Over
  <1>2. /\ life' \in [Foreground -> 0..Ttl]
        /\ \A f \in Foreground : life'[f] = IF f = p THEN 0 ELSE life[f]
    BY Times DEF Over, StoreInv
  <1>3. NoWindows \in [Procs -> 0..2]
    BY DEF NoWindows
  <1>4. /\ windows' \in [Foreground -> [Procs -> 0..2]]
        /\ \A f \in Foreground : windows'[f] = IF f = p THEN NoWindows ELSE windows[f]
    BY <1>3 DEF Over, StoreInv
  <1>5. /\ newer' \in [Procs -> BOOLEAN]
        /\ \A q \in Procs : q # p => newer'[q] = newer[q]
    BY DEF Over, StoreInv
  <1> QED  BY <1>1, <1>2, <1>4, <1>5

LEMMA OpenEffect ==
    ASSUME ClockInv, StoreInv, NEW p \in Procs, Open(p)
    PROVE  /\ proc'[p].pc = "held" /\ proc[p].pc = "try" /\ lock = NONE /\ lock' = p
           /\ proc'[p].left = Window
           /\ \A q \in Procs : q # p => proc'[q] = proc[q]
           /\ windows' \in [Foreground -> [Procs -> 0..2]]
           /\ \A f \in Foreground : ~Up(f) => windows'[f] = windows[f]
           /\ \A f \in Foreground, q \in Procs : q # p => windows'[f][q] = windows[f][q]
           /\ \A f \in Foreground : Up(f) => /\ windows'[f][p] > 0
                                             /\ windows[f][p] = 0 => windows'[f][p] = 1
  <1>1. \A q \in Procs : q # p => proc'[q] = proc[q]
    BY ElsewhereSame DEF OwnStep
  <1>2. proc'[p].pc = "held" /\ proc'[p].left = Window /\ proc[p].pc = "try" /\ lock = NONE /\ lock' = p
    BY DEF Open, Move, At, ClockInv, Timers
  <1>3. ASSUME NEW f \in Foreground
        PROVE  LET n == Min({windows[f][p] + 1, 2}) IN
               n \in 0..2 /\ n > 0 /\ (windows[f][p] = 0 => n = 1)
    <2>1. PICK u \in Int : u = windows[f][p] + 1 /\ u >= 1 /\ (windows[f][p] = 0 => u = 1)
      BY DEF StoreInv
    <2>2. Min({u, 2}) \in {u, 2} /\ Min({u, 2}) <= u /\ Min({u, 2}) <= 2
      BY TwoNumbers
    <2> QED  BY <2>1, <2>2
  <1>4. \A f \in Foreground : windows'[f] = IF Up(f) THEN [windows[f] EXCEPT ![p] = Min({windows[f][p] + 1, 2})]
                                            ELSE windows[f]
    BY DEF Open
  <1>5. ASSUME NEW f \in Foreground
        PROVE  /\ windows'[f] \in [Procs -> 0..2]
               /\ \A q \in Procs : q # p => windows'[f][q] = windows[f][q]
               /\ Up(f) => windows'[f][p] = Min({windows[f][p] + 1, 2})
    <2>1. PICK n \in 0..2 : n = Min({windows[f][p] + 1, 2})
      BY <1>3
    <2>2. windows[f] \in [Procs -> 0..2]
      BY DEF StoreInv
    <2>3. windows'[f] = IF Up(f) THEN [windows[f] EXCEPT ![p] = n] ELSE windows[f]
      BY <1>4, <2>1
    <2> QED  BY <2>1, <2>2, <2>3
  <1>6. windows' \in [Foreground -> [Procs -> 0..2]]
    <2>1. windows' = [f \in Foreground |-> windows'[f]]
      BY DEF Open
    <2> QED  BY <1>5, <2>1
  <1>7. \A f \in Foreground : Up(f) => /\ windows'[f][p] > 0
                                       /\ windows[f][p] = 0 => windows'[f][p] = 1
    BY <1>3, <1>5
  <1> QED  BY <1>1, <1>2, <1>4, <1>5, <1>6, <1>7

LEMMA PublishEffect ==
    ASSUME ClockInv, StoreInv, NEW f \in Foreground, Publish(f)
    PROVE  /\ life' \in [Foreground -> 0..Ttl]
           /\ \A g \in Foreground : g # f => life'[g] = life[g]
           /\ life'[f] >= Ttl - AcquireTime
           /\ proc[f].pc = "acquire" /\ proc'[f].pc \in {"wait", "try"}
           /\ proc'[f].spent = 0 /\ proc'[f].tries = 1 /\ proc'[f].left = Busy
           /\ \A q \in Procs : q # f => proc'[q] = proc[q]
           /\ newer' \in [Procs -> BOOLEAN]
           /\ \A q \in Procs : At(q, "wait") \/ newer[q] => newer'[q]
  <1>1. f \in Procs /\ Fits(f, proc[f]) /\ proc[f] \in Timers
    BY DEF Procs, ClockInv
  <1>2. proc[f].pc = "acquire" /\ proc[f].spent <= AcquireTime /\ proc[f].spent \in Nat
    BY <1>1 DEF Publish, At, Fits, Timers
  <1>3. PICK u \in Nat : u = Min({proc[f].spent, Ttl}) /\ u <= AcquireTime /\ u <= Ttl
    <2>1. PICK v \in Int : v = proc[f].spent
      BY <1>2
    <2>2. Min({v, Ttl}) \in {v, Ttl} /\ Min({v, Ttl}) <= v /\ Min({v, Ttl}) <= Ttl
      BY Times, TwoNumbers
    <2> QED  BY <1>2, <2>1, <2>2, Times
  <1>4. life' = [life EXCEPT ![f] = Ttl - u] /\ Ttl - u \in 0..Ttl /\ Ttl - u >= Ttl - AcquireTime
    BY <1>3, Times DEF Publish
  <1>5. /\ life' \in [Foreground -> 0..Ttl] /\ life'[f] = Ttl - u
        /\ \A g \in Foreground : g # f => life'[g] = life[g]
    BY <1>4 DEF StoreInv
  <1>6. /\ proc'[f].pc \in {"wait", "try"}
        /\ proc'[f].spent = 0 /\ proc'[f].tries = 1 /\ proc'[f].left = Busy
    BY <1>1 DEF Publish, Move, ClockInv, Timers
  <1>7. /\ newer' \in [Procs -> BOOLEAN]
        /\ \A q \in Procs : At(q, "wait") \/ newer[q] => newer'[q]
    BY DEF Publish, StoreInv
  <1>8. \A q \in Procs : q # f => proc'[q] = proc[q]
    BY <1>1, ElsewhereSame DEF OwnStep
  <1> QED  BY <1>2, <1>4, <1>5, <1>6, <1>7, <1>8

(* The steps that move a process between two of its other places.          *)
QuietStep(p) ==
    \/ p \in Foreground /\ \E w \in {"write", "handoff"} : Acquire(p, w)
    \/ p \in Background /\ BeginWait(p)
    \/ Clear(p) \/ Pause(p) \/ Again(p)

LEMMA QuietEffect ==
    ASSUME ClockInv, StoreInv, NEW p \in Procs, QuietStep(p)
    PROVE  /\ UNCHANGED <<life, orphan, lock, windows>>
           /\ proc[p].pc # "held" /\ proc'[p].pc # "held"
           /\ newer' \in [Procs -> BOOLEAN]
           /\ BeginWait(p) \/ UNCHANGED newer
           /\ \A q \in Procs : q # p => proc'[q] = proc[q] /\ newer'[q] = newer[q]
  <1>1. /\ UNCHANGED <<life, orphan, lock, windows>>
        /\ BeginWait(p) \/ UNCHANGED newer
    BY DEF QuietStep, Acquire, BeginWait, Clear, Pause, Again, history
  <1>2. \A q \in Procs : q # p => proc'[q] = proc[q]
    BY ElsewhereSame DEF QuietStep, OwnStep
  <1>3. newer' \in [Procs -> BOOLEAN] /\ \A q \in Procs : q # p => newer'[q] = newer[q]
    BY <1>1 DEF BeginWait, StoreInv
  <1>4. proc[p].pc # "held"
    BY DEF QuietStep, Acquire, BeginWait, Clear, Pause, Again, Locked, At
  <1>5. proc'[p].pc # "held"
    <2>1. ASSUME NEW w, Acquire(p, w) PROVE proc'[p].pc = "acquire"
      BY <2>1 DEF Acquire, Move, ClockInv, Idle
    <2>2. ASSUME BeginWait(p) PROVE proc'[p].pc = "wait"
      BY <2>2 DEF BeginWait, Move, ClockInv, Idle
    <2>3. proc[p] \in Timers /\ proc \in [Procs -> Timers]
      BY DEF ClockInv
    <2>4. ASSUME Clear(p) PROVE proc'[p].pc = "try"
      BY <2>3, <2>4 DEF Clear, Move, Timers
    <2>5. ASSUME Pause(p) PROVE proc'[p].pc = "sleep"
      BY <2>3, <2>5 DEF Pause, Move, Timers
    <2>6. ASSUME Again(p) PROVE proc'[p].pc = "try"
      BY <2>3, <2>6 DEF Again, Move, Timers
    <2> QED  BY <2>1, <2>2, <2>4, <2>5, <2>6 DEF QuietStep
  <1> QED  BY <1>1, <1>2, <1>3, <1>4, <1>5

LEMMA OwnSteps ==
    ASSUME NEW p, OwnStep(p)
    PROVE  \/ QuietStep(p) \/ (p \in Foreground /\ Publish(p)) \/ Open(p)
           \/ TurnAway(p) \/ Exhaust(p) \/ Close(p) \/ Die(p)
  BY DEF OwnStep, QuietStep

LEMMA EndEffect ==
    ASSUME StoreInv, NEW p \in Procs, TurnAway(p) \/ Exhaust(p) \/ Close(p) \/ Die(p)
    PROVE  /\ Over(p) /\ lock' = IF lock = p THEN NONE ELSE lock
           /\ orphan' \in 0..Ttl /\ orphan' >= orphan
           /\ orphan' # orphan => p \in Foreground /\ orphan' = life[p]
  <1>1. CASE TurnAway(p) \/ Exhaust(p) \/ Close(p)
    BY <1>1 DEF TurnAway, Exhaust, Close, Locked, At, StoreInv
  <1>2. CASE Die(p)
    <2>1. CASE p \in Foreground
      <3>1. PICK u \in Int, v \in Int : u = orphan /\ v = life[p]
        BY <2>1, Times DEF StoreInv
      <3>2. Max({u, v}) \in {u, v} /\ Max({u, v}) >= u /\ orphan' = Max({u, v})
        BY <1>2, <2>1, <3>1, TwoNumbers DEF Die
      <3> QED  BY <1>2, <2>1, <3>1, <3>2 DEF Die, StoreInv
    <2>2. CASE p \notin Foreground
      BY <1>2, <2>2 DEF Die, StoreInv
    <2> QED  BY <2>1, <2>2
  <1> QED  BY <1>1, <1>2

LEMMA TickEffect ==
    ASSUME ClockInv, StoreInv, Tick
    PROVE  /\ life' \in [Foreground -> 0..Ttl] /\ orphan' \in 0..Ttl
           /\ \A f \in Foreground : life'[f] = Later(life[f])
           /\ orphan' = Later(orphan) /\ UNCHANGED <<lock, windows, newer>>
           /\ \A p \in Procs : /\ proc'[p].pc = proc[p].pc /\ proc'[p].tries = proc[p].tries
                               /\ proc'[p].work = proc[p].work
                               /\ proc'[p].spent <= proc[p].spent + 1
  <1>1. \A n \in 0..Ttl : Later(n) \in 0..Ttl
    BY Times DEF Later
  <1>2. /\ life' \in [Foreground -> 0..Ttl] /\ orphan' \in 0..Ttl
        /\ \A f \in Foreground : life'[f] = Later(life[f])
    BY <1>1 DEF Tick, StoreInv
  <1>3. orphan' = Later(orphan) /\ UNCHANGED <<lock, windows, newer>>
    BY DEF Tick, history
  <1>4. ASSUME NEW p \in Procs
        PROVE  /\ proc'[p].pc = proc[p].pc /\ proc'[p].tries = proc[p].tries
               /\ proc'[p].work = proc[p].work
               /\ proc'[p].spent <= proc[p].spent + 1
    <2>1. /\ proc'[p] = Aged(proc[p]) /\ proc[p] \in Timers
          /\ proc'[p].pc = proc[p].pc /\ proc'[p].tries = proc[p].tries
      BY AgedFits DEF ClockInv
    <2>2. CASE proc[p].pc = "idle"
      BY <2>1, <2>2 DEF Aged, Timers
    <2>3. CASE proc[p].pc = "wait"
      <3>1. PICK u \in Int, v \in Int : u = proc[p].spent + 1 /\ v = MaxWait + HandoffWait
        BY <2>1, Times DEF Timers
      <3>2. Min({u, v}) <= u
        BY TwoNumbers
      <3>3. proc'[p] = [proc[p] EXCEPT !.spent = Min({u, v})]
        BY <2>1, <2>3, <3>1 DEF Aged
      <3>4. proc'[p].spent = Min({u, v}) /\ proc'[p].work = proc[p].work
        BY <2>1, <3>3 DEF Timers
      <3> QED  BY <2>1, <3>1, <3>2, <3>4
    <2>4. CASE proc[p].pc \notin {"idle", "wait"}
      <3>1. proc'[p] = [proc[p] EXCEPT !.spent = @ + 1, !.left = Later(@)]
        BY <2>1, <2>4 DEF Aged
      <3>2. proc'[p].spent = proc[p].spent + 1 /\ proc'[p].work = proc[p].work
        BY <2>1, <3>1 DEF Timers
      <3> QED  BY <2>1, <3>2 DEF Timers
    <2> QED  BY <2>2, <2>3, <2>4
  <1> QED  BY <1>2, <1>3, <1>4

LEMMA StoreStep ==
    ASSUME ClockInv, StoreInv, [Next]_vars
    PROVE  StoreInv'
  <1>0. NONE \notin Procs /\ Foreground \subseteq Procs
    BY ProcsAssumption DEF Procs
  <1>1. ASSUME NEW p \in Procs, OwnStep(p) PROVE StoreInv'
    <2>1. CASE QuietStep(p)
      <3>1. \A q \in Procs : At(q, "held")' <=> At(q, "held")
        BY <2>1, QuietEffect DEF At
      <3> QED  BY <2>1, <3>1, QuietEffect DEF StoreInv
    <2>2. CASE p \in Foreground /\ Publish(p)
      <3>1. \A q \in Procs : At(q, "held")' <=> At(q, "held")
        BY <2>2, PublishEffect DEF At
      <3>2. UNCHANGED <<orphan, lock, windows>>
        BY <2>2 DEF Publish
      <3> QED  BY <2>2, <3>1, <3>2, PublishEffect DEF StoreInv
    <2>3. CASE Open(p)
      <3>1. UNCHANGED <<life, orphan, newer>>
        BY <2>3 DEF Open
      <3>2. \A q \in Procs : At(q, "held")' <=> lock' = q
        BY <1>0, <2>3, OpenEffect DEF At, StoreInv
      <3> QED  BY <2>3, <3>1, <3>2, OpenEffect DEF StoreInv
    <2>4. CASE TurnAway(p) \/ Exhaust(p) \/ Close(p) \/ Die(p)
      <3>1. Over(p) /\ lock' = (IF lock = p THEN NONE ELSE lock) /\ orphan' \in 0..Ttl
        BY <2>4, EndEffect
      <3>2. proc'[p].pc = "idle" /\ \A q \in Procs : q # p => proc'[q] = proc[q]
        BY <3>1, OverEffect, IdleFits
      <3>3. lock' # p /\ \A q \in Procs : q # p => (lock' = q <=> lock = q)
        BY <1>0, <3>1
      <3>4. \A q \in Procs : At(q, "held")' <=> lock' = q
        BY <3>2, <3>3 DEF At, StoreInv
      <3>5. lock' \in Procs \cup {NONE}
        BY <3>1 DEF StoreInv
      <3> QED  BY <3>1, <3>4, <3>5, OverEffect DEF StoreInv
    <2> QED  BY <1>1, <2>1, <2>2, <2>3, <2>4, OwnSteps
  <1>2. CASE Tick
    BY <1>2, TickEffect DEF StoreInv, At
  <1>3. CASE UNCHANGED vars
    BY <1>3 DEF vars, StoreInv, At
  <1> QED  BY <1>1, <1>2, <1>3, Steps

LEMMA InitClock == Init => ClockInv /\ StoreInv
  <1> SUFFICES ASSUME Init PROVE ClockInv /\ StoreInv
    OBVIOUS
  <1>1. ClockInv
    BY IdleFits DEF Init, ClockInv
  <1>2. \A p \in Procs : At(p, "held") <=> lock = p
    BY IdleFits, ProcsAssumption DEF Init, At
  <1>3. NoWindows \in [Procs -> 0..2]
    BY DEF NoWindows
  <1> QED  BY <1>1, <1>2, <1>3, Times DEF Init, StoreInv

LEMMA ClockInvariant == Spec => [](ClockInv /\ StoreInv)
  <1>1. ClockInv /\ StoreInv /\ [Next]_vars => ClockInv' /\ StoreInv'
    BY ClockStep, StoreStep
  <1> QED  BY <1>1, InitClock, PTL DEF Spec

(* No process is under way for longer than its attempts, its pauses and    *)
(* its window take: the timers of both sides are bounded, for any number   *)
(* of processes and any times (withSqliteTransientRetrySync,               *)
(* waitForEconomicForegroundDemandToClearSync).                            *)
THEOREM DemandTyped == Spec => []TypeOK
  <1>1. ClockInv /\ StoreInv => TypeOK
    <2> SUFFICES ASSUME ClockInv, StoreInv PROVE TypeOK
      OBVIOUS
    <2> DEFINE Bounded == [pc : Pcs, work : {"write", "handoff"}, spent : 0..Horizon,
                           tries : 0..(Attempts + Tries), left : 0..Horizon]
               Late == Tries * (Busy + MaxDelay)
    <2>1. Late \in Nat /\ Horizon = Ttl + AcquireTime + Budget + Busy + Window + MaxWait + HandoffWait + Late
      BY Times DEF Horizon
    <2> HIDE DEF Late
    <2>2. Busy <= Horizon /\ MaxDelay <= Horizon /\ Window <= Horizon /\ Horizon \in Nat
      <3>1. PauseTime(1) <= Late /\ TryTime(1) = Busy /\ PauseTime(1) = TryTime(1) + MaxDelay
        BY AttemptTimes, LastTry, Times DEF Late
      <3> QED  BY <2>1, <3>1, Times
    <2>3. ASSUME NEW p \in Procs PROVE proc[p] \in Bounded
      <3> DEFINE x == proc[p]
      <3>1. Fits(p, x) /\ x \in Timers
        BY DEF ClockInv
      <3>2. x.spent \in Nat /\ x.tries \in Nat /\ x.left \in Nat
        BY <3>1 DEF Timers
      <3>3. ASSUME 1 <= x.tries, x.tries <= MostTries(p), p \notin Foreground
            PROVE  PauseTime(x.tries) <= Late /\ TryTime(x.tries) <= Late
        BY <3>2, <3>3, AttemptTimes, LastTry, Times DEF MostTries, Late
      <3>4. x.tries <= Attempts + Tries
        BY <3>1, <3>2, IdleFits, Times DEF Fits, MostTries, Timers, Pcs
      <3>5. ASSUME 1 <= x.tries
            PROVE  TryTime(x.tries) \in Nat /\ PauseTime(x.tries) \in Nat
        BY <3>2, <3>5, AttemptTimes
      <3>6. x.spent <= Horizon /\ x.left <= Horizon
        <4>1. CASE x.pc = "idle"
          BY <3>1, <4>1, <2>2, IdleFits DEF Fits
        <4>2. CASE x.pc \in {"acquire", "wait"}
          BY <3>1, <3>2, <4>2, <2>1, <2>2, Times DEF Fits
        <4>3. CASE x.pc \in {"try", "sleep", "held"} /\ p \in Foreground
          <5>1. x.spent + x.left <= Budget + Busy + Window
            BY <3>1, <3>2, <4>3, Times DEF Fits
          <5> QED  BY <3>2, <5>1, <2>1, Times
        <4>4. CASE x.pc \in {"try", "sleep", "held"} /\ p \notin Foreground
          <5>1. 1 <= x.tries /\ x.tries <= MostTries(p)
            BY <3>1, <3>2, <4>4, Times DEF Fits, MostTries
          <5>2. x.spent + x.left <= Late + Window
            BY <3>1, <3>2, <3>3, <3>5, <4>4, <5>1, <2>1, Times DEF Fits
          <5> QED  BY <3>2, <5>2, <2>1, Times
        <4> QED  BY <3>1, <4>1, <4>2, <4>3, <4>4 DEF Timers, Pcs
      <3>7. x.spent \in 0..Horizon /\ x.left \in 0..Horizon /\ x.tries \in 0..(Attempts + Tries)
        BY <3>2, <3>4, <3>6, <2>2, Times
      <3> QED  BY <3>1, <3>7 DEF Timers
    <2>4. proc \in [Procs -> Bounded]
      BY <2>3 DEF ClockInv
    <2> QED  BY <2>4 DEF StoreInv, TypeOK, At
  <1> QED  BY <1>1, ClockInvariant, PTL
-----------------------------------------------------------------------------
(* The marker of a commit lives longer than all its attempts.  In the code *)
(* 5 s against a budget of 3 s and a busy timeout of 250 ms.               *)
Outlives ==
    /\ AcquireTime + Budget + Busy < Ttl
    /\ AcquireTime + HandoffWait < Ttl

UnderWay(f) == proc[f].pc \in {"wait", "try", "sleep"}

(* What is left of the marker makes up for the time already spent.         *)
CoverInv ==
    \A f \in Foreground :
        /\ UnderWay(f) => life[f] + proc[f].spent >= Ttl - AcquireTime
        /\ At(f, "wait") => proc[f].spent <= HandoffWait

(* A worker that has opened its window is no longer about to open one.     *)
WindowInv ==
    \A f \in Foreground :
        /\ ~Up(f) => windows[f] = NoWindows
        /\ \A b \in Background :
              /\ windows[f][b] <= 1
              /\ UnderWay(f) /\ windows[f][b] = 1 => proc[b].pc \notin {"try", "sleep"}

LEMMA UnderWayIsSeen ==
    ASSUME Outlives, ClockInv, StoreInv, CoverInv, NEW f \in Foreground, UnderWay(f)
    PROVE  life[f] > 0 /\ DemandPresent
  <1>1. f \in Procs /\ Fits(f, proc[f]) /\ proc[f] \in Timers
    BY DEF Procs, ClockInv
  <1>2. life[f] + proc[f].spent >= Ttl - AcquireTime /\ life[f] \in Nat /\ proc[f].spent \in Nat
    BY <1>1 DEF CoverInv, StoreInv, Timers
  <1>3. proc[f].spent < Ttl - AcquireTime
    <2>1. CASE proc[f].pc = "wait"
      BY <1>2, <2>1, Times DEF CoverInv, At, Outlives
    <2>2. CASE proc[f].pc \in {"try", "sleep"}
      <3>1. proc[f].spent + proc[f].left <= Budget + Busy /\ proc[f].left \in Nat
        BY <1>1, <2>2, Times DEF Fits, Timers
      <3> QED  BY <1>2, <3>1, Times DEF Outlives
    <2> QED  BY <2>1, <2>2 DEF UnderWay
  <1>4. life[f] > 0
    BY <1>2, <1>3, Times
  <1> QED  BY <1>4 DEF DemandPresent

LEMMA TickTimers ==
    ASSUME ClockInv, Tick, NEW p \in Procs
    PROVE  /\ proc[p].pc \in {"try", "sleep", "held"} =>
                 proc[p].left > 0 /\ proc'[p].left = proc[p].left - 1
                                  /\ proc'[p].spent = proc[p].spent + 1
           /\ proc[p].pc = "wait" =>
                 proc'[p].spent \in {proc[p].spent + 1, MaxWait + HandoffWait}
  <1> DEFINE x == proc[p]
  <1>1. x \in Timers /\ proc'[p] = Aged(x) /\ ~Urgent(p)
    BY AgedFits DEF ClockInv, Tick
  <1>2. CASE x.pc \in {"try", "sleep", "held"}
    <2>1. x.left > 0 /\ Later(x.left) = x.left - 1
      BY <1>1, <1>2 DEF Urgent, At, Later, Timers
    <2>2. proc'[p] = [x EXCEPT !.spent = x.spent + 1, !.left = Later(x.left)]
      BY <1>1, <1>2 DEF Aged
    <2>3. proc'[p].left = Later(x.left) /\ proc'[p].spent = x.spent + 1
      BY <1>1, <2>2, AgeFields
    <2> QED  BY <1>2, <2>1, <2>3
  <1>3. CASE x.pc = "wait"
    <2>1. PICK u \in Int, v \in Int : u = x.spent + 1 /\ v = MaxWait + HandoffWait
      BY <1>1, Times DEF Timers
    <2>2. proc'[p] = [x EXCEPT !.spent = Min({u, v})] /\ Min({u, v}) \in {u, v}
      BY <1>1, <1>3, <2>1, TwoNumbers DEF Aged
    <2>3. proc'[p].spent = Min({u, v})
      BY <1>1, <2>2 DEF Timers
    <2> QED  BY <1>3, <2>1, <2>2, <2>3
  <1> QED  BY <1>2, <1>3

(* Where the steps of one process lead to.                                 *)
LEMMA MovesOn ==
    ASSUME ClockInv, NEW p \in Procs
    PROVE  /\ \A w : Acquire(p, w) => proc'[p].pc = "acquire"
           /\ BeginWait(p) => proc'[p].pc = "wait" /\ proc'[p].spent = 0
           /\ Clear(p) => proc[p].pc = "wait" /\ proc'[p].pc = "try"
           /\ Pause(p) => /\ proc[p].pc = "try" /\ proc[p].left = 0 /\ proc'[p].pc = "sleep"
                          /\ proc'[p].spent = proc[p].spent /\ proc'[p].tries = proc[p].tries
           /\ Again(p) => /\ proc[p].pc = "sleep" /\ proc'[p].pc = "try"
                          /\ proc'[p].spent = proc[p].spent
                          /\ proc'[p].tries = proc[p].tries + 1 /\ proc'[p].left = Busy
  <1> DEFINE x == proc[p]
  <1>1. x \in Timers /\ proc \in [Procs -> Timers]
    BY DEF ClockInv
  <1>2. ASSUME NEW w, Acquire(p, w) PROVE proc'[p].pc = "acquire"
    BY <1>1, <1>2 DEF Acquire, Move, Idle
  <1>3. ASSUME BeginWait(p) PROVE proc'[p].pc = "wait" /\ proc'[p].spent = 0
    BY <1>1, <1>3 DEF BeginWait, Move, Idle
  <1>4. ASSUME Clear(p) PROVE x.pc = "wait" /\ proc'[p].pc = "try"
    BY <1>1, <1>4 DEF Clear, Move, Timers, At
  <1>5. ASSUME Pause(p)
        PROVE  /\ x.pc = "try" /\ x.left = 0 /\ proc'[p].pc = "sleep"
               /\ proc'[p].spent = x.spent /\ proc'[p].tries = x.tries
    <2>1. PICK d : Move(p, [x EXCEPT !.pc = "sleep", !.left = d])
      BY <1>5 DEF Pause
    <2>2. proc'[p] = [x EXCEPT !.pc = "sleep", !.left = d]
      BY <1>1, <2>1 DEF Move
    <2> QED  BY <1>1, <1>5, <2>2 DEF Pause, Locked, At, Timers
  <1>6. ASSUME Again(p)
        PROVE  /\ x.pc = "sleep" /\ proc'[p].pc = "try" /\ proc'[p].spent = x.spent
               /\ proc'[p].tries = x.tries + 1 /\ proc'[p].left = Busy
    <2>1. PICK k \in Nat : k = x.tries + 1
      BY <1>1 DEF Timers
    <2>2. proc' = [proc EXCEPT ![p] = [x EXCEPT !.pc = "try", !.left = Busy, !.tries = k]]
      BY <1>6, <2>1 DEF Again, Move
    <2>3. proc'[p] = [x EXCEPT !.pc = "try", !.left = Busy, !.tries = k]
      BY <1>1, <2>2
    <2> QED  BY <1>1, <1>6, <2>1, <2>3 DEF Again, At, Timers
  <1> QED  BY <1>2, <1>3, <1>4, <1>5, <1>6

LEMMA CoverStep ==
    ASSUME Outlives, ClockInv, StoreInv, CoverInv, [Next]_vars
    PROVE  CoverInv'
  <1> USE DEF UnderWay, At
  <1>1. ASSUME NEW p \in Procs, OwnStep(p), NEW f \in Foreground, f # p
        PROVE  proc'[f] = proc[f] /\ life'[f] = life[f]
    <2>1. proc'[f] = proc[f]
      BY <1>1, ElsewhereSame DEF Procs
    <2>2. life'[f] = life[f]
      BY <1>1, OwnSteps, QuietEffect, PublishEffect, EndEffect, OverEffect DEF Open
    <2> QED  BY <2>1, <2>2
  <1>2. ASSUME NEW f \in Foreground, OwnStep(f), UnderWay(f)'
        PROVE  /\ life'[f] + proc'[f].spent >= Ttl - AcquireTime
               /\ At(f, "wait")' => proc'[f].spent <= HandoffWait
    <2>0. f \in Procs /\ f \notin Background
      BY ProcsAssumption DEF Procs
    <2>1. CASE QuietStep(f)
      <3>1. (\A w : ~Acquire(f, w)) /\ ~Clear(f)
        <4>1. \A w : ~Acquire(f, w)
          BY <1>2, <2>0, MovesOn
        <4>2. ~Clear(f)
          <5>1. UnderWay(f) => DemandPresent
            BY UnderWayIsSeen
          <5> QED  BY <5>1 DEF Clear
        <4> QED  BY <4>1, <4>2
      <3>2. Pause(f) \/ Again(f)
        BY <2>0, <2>1, <3>1 DEF QuietStep
      <3>3. /\ proc[f].pc \in {"try", "sleep"} /\ proc'[f].pc \in {"try", "sleep"}
            /\ proc'[f].spent = proc[f].spent
        BY <2>0, <3>2, MovesOn
      <3>4. life'[f] = life[f]
        BY <2>0, <2>1, QuietEffect
      <3> QED  BY <3>3, <3>4 DEF CoverInv
    <2>2. CASE Publish(f)
      <3>1. life'[f] >= Ttl - AcquireTime /\ proc'[f].spent = 0 /\ life'[f] \in Nat
        BY <2>2, PublishEffect
      <3> QED  BY <3>1, Times
    <2>3. CASE Open(f)
      BY <1>2, <2>0, <2>3, OpenEffect
    <2>4. CASE TurnAway(f) \/ Exhaust(f) \/ Close(f) \/ Die(f)
      BY <1>2, <2>0, <2>4, EndEffect, OverEffect, IdleFits
    <2> QED  BY <1>2, <2>1, <2>2, <2>3, <2>4, OwnSteps
  <1>3. ASSUME Tick, NEW f \in Foreground, UnderWay(f)'
        PROVE  /\ life'[f] + proc'[f].spent >= Ttl - AcquireTime
               /\ At(f, "wait")' => proc'[f].spent <= HandoffWait
    <2>1. f \in Procs /\ UnderWay(f) /\ proc'[f].pc = proc[f].pc
      BY <1>3, TickEffect DEF Procs
    <2>2. life[f] > 0 /\ DemandPresent /\ life'[f] = Later(life[f]) /\ life[f] \in Nat
      BY <1>3, <2>1, UnderWayIsSeen, TickEffect DEF StoreInv
    <2>3. life'[f] = life[f] - 1
      BY <2>2 DEF Later
    <2>4. proc[f].spent \in Nat /\ life[f] + proc[f].spent >= Ttl - AcquireTime
      BY <2>1 DEF ClockInv, Timers, CoverInv
    <2>5. CASE proc[f].pc = "wait"
      <3>1. proc[f].spent < HandoffWait
        BY <1>3, <2>1, <2>2, <2>4, <2>5, Times DEF Tick, Urgent, Patience
      <3>2. proc'[f].spent \in {proc[f].spent + 1, MaxWait + HandoffWait}
            /\ proc'[f].spent <= proc[f].spent + 1
        BY <1>3, <2>1, <2>5, TickTimers, TickEffect
      <3>3. proc'[f].spent = proc[f].spent + 1
        BY <2>4, <3>1, <3>2, Times
      <3> QED  BY <2>2, <2>3, <2>4, <3>1, <3>3, Times
    <2>6. CASE proc[f].pc \in {"try", "sleep"}
      <3>1. proc'[f].spent = proc[f].spent + 1
        BY <1>3, <2>1, <2>6, TickTimers
      <3> QED  BY <2>1, <2>2, <2>3, <2>4, <2>6, <3>1, Times
    <2> QED  BY <2>1, <2>5, <2>6
  <1>4. CASE \E p \in Procs : OwnStep(p)
    <2>1. PICK p \in Procs : OwnStep(p)
      BY <1>4
    <2> QED  BY <1>1, <1>2, <2>1 DEF CoverInv
  <1>5. CASE Tick
    BY <1>3, <1>5 DEF CoverInv
  <1>6. CASE UNCHANGED vars
    BY <1>6 DEF vars, CoverInv
  <1> QED  BY <1>4, <1>5, <1>6, Steps

(* While a commit is under way nobody passes the check any more.           *)
LEMMA NobodyStarts ==
    ASSUME Outlives, ClockInv, StoreInv, CoverInv, [Next]_vars,
           NEW f \in Foreground, UnderWay(f), NEW b \in Background,
           proc'[b].pc \in {"try", "sleep"}
    PROVE  proc[b].pc \in {"try", "sleep"}
  <1>0. b \in Procs /\ b \notin Foreground
    BY ProcsAssumption DEF Procs
  <1>1. ASSUME OwnStep(b) PROVE proc[b].pc \in {"try", "sleep"}
    <2>1. ~TurnAway(b) /\ ~Exhaust(b) /\ ~Close(b) /\ ~Die(b)
      BY <1>0, EndEffect, OverEffect, IdleFits
    <2>2. ~Open(b) /\ ~Clear(b)
      BY <1>0, OpenEffect, UnderWayIsSeen DEF Clear
    <2>3. QuietStep(b) /\ ~BeginWait(b)
      BY <1>0, <1>1, <2>1, <2>2, OwnSteps, MovesOn
    <2>4. Pause(b) \/ Again(b)
      BY <1>0, <2>2, <2>3 DEF QuietStep
    <2> QED  BY <1>0, <2>4, MovesOn
  <1>2. ASSUME NEW p \in Procs, OwnStep(p), p # b PROVE proc[b].pc \in {"try", "sleep"}
    BY <1>0, <1>2, ElsewhereSame
  <1>3. CASE Tick
    BY <1>0, <1>3, TickEffect
  <1>4. CASE UNCHANGED vars
    BY <1>4 DEF vars
  <1> QED  BY <1>1, <1>2, <1>3, <1>4, Steps

(* The end of a window is the end of the commit.                           *)
LEMMA StaysUnderWay ==
    ASSUME ClockInv, StoreInv, NEW p \in Procs, OwnStep(p), NEW f \in Foreground,
           Up(f), UnderWay(f)'
    PROVE  UnderWay(f)
  <1>0. f \in Procs /\ proc[f].pc \in Pcs
    BY DEF Procs, ClockInv, Timers
  <1>1. CASE f # p
    BY <1>0, <1>1, ElsewhereSame DEF UnderWay
  <1>2. CASE f = p /\ proc[f].pc = "held"
    <2>1. TurnAway(f) \/ Exhaust(f) \/ Close(f) \/ Die(f)
      BY <1>0, <1>2, OwnSteps, QuietEffect, PublishEffect, OpenEffect
    <2> QED  BY <1>0, <2>1, EndEffect, OverEffect, IdleFits DEF UnderWay
  <1>3. CASE proc[f].pc # "held"
    BY <1>0, <1>3 DEF Up, UnderWay, Pcs
  <1> QED  BY <1>1, <1>2, <1>3

LEMMA LeavesUp ==
    ASSUME ClockInv, StoreInv, NEW p \in Procs, OwnStep(p), NEW f \in Foreground,
           Up(f), ~Up(f)'
    PROVE  f = p /\ Over(f)
  <1>0. f \in Procs /\ proc[f].pc \notin {"idle", "acquire"}
    BY DEF Procs, Up
  <1>1. f = p
    BY <1>0, ElsewhereSame DEF Up
  <1>2. ~Open(f) /\ ~Publish(f) /\ (\A w : ~Acquire(f, w))
    BY <1>0, OpenEffect, PublishEffect DEF Up, Acquire, At
  <1>3. ~Clear(f) /\ ~Pause(f) /\ ~Again(f) /\ ~BeginWait(f)
    BY <1>0, MovesOn DEF Up
  <1>4. TurnAway(f) \/ Exhaust(f) \/ Close(f) \/ Die(f)
    BY <1>1, <1>2, <1>3 DEF OwnStep
  <1> QED  BY <1>0, <1>1, <1>4, EndEffect

LEMMA WindowStep ==
    ASSUME Outlives, ClockInv, StoreInv, CoverInv, WindowInv, [Next]_vars
    PROVE  WindowInv'
  <1>0. NoWindows \in [Procs -> 0..2] /\ \A p \in Procs : NoWindows[p] = 0
    BY DEF NoWindows
  <1>1. ASSUME NEW p \in Procs, OwnStep(p), NEW f \in Foreground, ~Up(f)'
        PROVE  windows'[f] = NoWindows
    <2>1. CASE Up(f)
      BY <1>1, <2>1, LeavesUp, OverEffect
    <2>2. CASE ~Up(f)
      <3>1. windows[f] = NoWindows
        BY <2>2 DEF WindowInv
      <3>2. windows'[f] \in {windows[f], NoWindows}
        BY <1>1, <2>2, OwnSteps, QuietEffect, EndEffect, OverEffect, OpenEffect DEF Publish
      <3> QED  BY <3>1, <3>2
    <2> QED  BY <2>1, <2>2
  <1>2. ASSUME NEW p \in Procs, OwnStep(p), NEW f \in Foreground, NEW b \in Background
        PROVE  /\ windows'[f][b] <= 1
               /\ UnderWay(f)' /\ windows'[f][b] = 1 => proc'[b].pc \notin {"try", "sleep"}
    <2>0. b \in Procs /\ f \in Procs /\ b # f
      BY ProcsAssumption DEF Procs
    <2>1. CASE Open(p) /\ p = b /\ Up(f)
      <3>1. proc'[b].pc = "held" /\ proc[b].pc = "try" /\ lock = NONE
        BY <2>0, <2>1, OpenEffect
      <3>2. UnderWay(f)
        <4>1. proc[f].pc # "held" /\ proc[f].pc \in Pcs
          BY <2>0, <3>1, ProcsAssumption DEF StoreInv, At, ClockInv, Timers
        <4> QED  BY <2>1, <4>1 DEF Up, UnderWay, Pcs
      <3>3. windows[f][b] = 0
        <4>1. windows[f][b] \in 0..2 /\ windows[f][b] <= 1
          BY <2>0 DEF StoreInv, WindowInv
        <4> QED  BY <3>1, <3>2, <4>1 DEF WindowInv
      <3>4. windows'[f][b] = 1
        BY <2>0, <2>1, <3>3, OpenEffect
      <3> QED  BY <3>1, <3>4
    <2>2. CASE ~(Open(p) /\ p = b /\ Up(f))
      <3>1. windows'[f][b] = windows[f][b] \/ windows'[f] = NoWindows
        <4>1. CASE Open(p)
          BY <1>2, <2>0, <2>2, <4>1, OpenEffect
        <4>2. CASE ~Open(p)
          BY <1>2, <4>2, OwnSteps, QuietEffect, EndEffect, OverEffect DEF Publish
        <4> QED  BY <4>1, <4>2
      <3>2. windows[f][b] <= 1
        BY DEF WindowInv
      <3>3. windows'[f][b] <= 1
        BY <1>0, <2>0, <3>1, <3>2
      <3>4. ASSUME UnderWay(f)', windows'[f][b] = 1
            PROVE  proc'[b].pc \notin {"try", "sleep"}
        <4>1. windows[f][b] = 1
          BY <1>0, <2>0, <3>1, <3>4
        <4>2. Up(f)
          BY <1>0, <2>0, <4>1 DEF WindowInv
        <4>3. UnderWay(f)
          BY <1>2, <3>4, <4>2, StaysUnderWay
        <4> QED  BY <4>1, <4>3, NobodyStarts DEF WindowInv
      <3> QED  BY <3>3, <3>4
    <2> QED  BY <2>1, <2>2
  <1>3. CASE \E p \in Procs : OwnStep(p)
    <2>1. PICK p \in Procs : OwnStep(p)
      BY <1>3
    <2> QED  BY <1>1, <1>2, <2>1 DEF WindowInv
  <1>4. CASE Tick
    <2>1. windows' = windows /\ \A p \in Procs : proc'[p].pc = proc[p].pc
      BY <1>4, TickEffect
    <2>2. \A f \in Foreground : (Up(f)' <=> Up(f)) /\ (UnderWay(f)' <=> UnderWay(f))
      BY <2>1 DEF Up, UnderWay, Procs
    <2>3. \A b \in Background : proc'[b].pc = proc[b].pc
      BY <2>1 DEF Procs
    <2> QED  BY <2>1, <2>2, <2>3 DEF WindowInv
  <1>5. CASE UNCHANGED vars
    BY <1>5 DEF vars, WindowInv, Up, UnderWay
  <1> QED  BY <1>3, <1>4, <1>5, Steps

LEMMA InitCovered == Init => CoverInv /\ WindowInv
  <1> SUFFICES ASSUME Init PROVE CoverInv /\ WindowInv
    OBVIOUS
  <1>1. \A p \in Procs : proc[p].pc = "idle"
    BY IdleFits DEF Init
  <1>2. \A f \in Foreground : ~Up(f) /\ ~UnderWay(f) /\ ~At(f, "wait")
    BY <1>1 DEF Up, UnderWay, At, Procs
  <1>3. \A f \in Foreground : windows[f] = NoWindows /\ \A b \in Background : windows[f][b] = 0
    BY DEF Init, NoWindows, Procs
  <1>4. CoverInv
    BY <1>2 DEF CoverInv
  <1>5. WindowInv
    BY <1>2, <1>3 DEF WindowInv
  <1> QED  BY <1>4, <1>5

LEMMA CoverInvariant ==
    ASSUME Outlives
    PROVE  Spec => [](ClockInv /\ StoreInv /\ CoverInv /\ WindowInv)
  <1>1. /\ ClockInv /\ StoreInv /\ CoverInv /\ WindowInv
        /\ [Next]_vars
        => ClockInv' /\ StoreInv' /\ CoverInv' /\ WindowInv'
    BY ClockStep, StoreStep, CoverStep, WindowStep
  <1>2. Init => ClockInv /\ StoreInv /\ CoverInv /\ WindowInv
    BY InitClock, InitCovered
  <1> QED  BY <1>1, <1>2, PTL DEF Spec

(* A worker gets in front of a commit at most once, for any number of      *)
(* workers: the check of the demand and the write are two steps, but as    *)
(* long as the marker outlives the attempts of its owner nobody who starts *)
(* over misses it (assertNoEconomicForegroundDemand, indexed before every  *)
(* background window).                                                     *)
THEOREM WorkersBypassOnce ==
    ASSUME Outlives
    PROVE  Spec => []BypassOnce
  <1>1. WindowInv => BypassOnce
    BY DEF WindowInv, BypassOnce
  <1> QED  BY <1>1, CoverInvariant, PTL
-----------------------------------------------------------------------------
(* A marker that was there when the wait began grows older with it.        *)
AgeInv ==
    \A b \in Background :
        At(b, "wait") /\ ~newer[b] =>
            /\ orphan > 0 => orphan + proc[b].spent <= Ttl
            /\ \A f \in Foreground : life[f] > 0 => life[f] + proc[b].spent <= Ttl

LEMMA AgeStep ==
    ASSUME ClockInv, StoreInv, AgeInv, [Next]_vars
    PROVE  AgeInv'
  <1>1. ASSUME NEW p \in Procs, OwnStep(p),
               NEW b \in Background, At(b, "wait")', ~newer'[b]
        PROVE  /\ orphan' > 0 => orphan' + proc'[b].spent <= Ttl
               /\ \A f \in Foreground : life'[f] > 0 => life'[f] + proc'[b].spent <= Ttl
    <2>0. b \in Procs /\ b \notin Foreground
      BY ProcsAssumption DEF Procs
    <2>1. CASE p = b
      <3>1. ~TurnAway(b) /\ ~Exhaust(b) /\ ~Close(b) /\ ~Die(b)
        BY <1>1, <2>0, EndEffect, OverEffect, IdleFits DEF At
      <3>2. QuietStep(b) /\ ~Clear(b) /\ ~Pause(b) /\ ~Again(b)
        BY <1>1, <2>0, <2>1, <3>1, OwnSteps, OpenEffect, MovesOn DEF At
      <3>3. proc'[b].spent = 0 /\ UNCHANGED <<life, orphan>>
        BY <2>0, <3>2, MovesOn, QuietEffect DEF QuietStep
      <3> QED  BY <3>3, Times DEF StoreInv
    <2>2. CASE p # b
      <3>1. proc'[b] = proc[b] /\ At(b, "wait")
        BY <1>1, <2>0, <2>2, ElsewhereSame DEF At
      <3>2. ~(p \in Foreground /\ Publish(p)) /\ ~newer[b]
        BY <1>1, <2>0, <2>2, <3>1, OwnSteps, QuietEffect, PublishEffect, EndEffect, OverEffect
           DEF Open
      <3>3. /\ orphan > 0 => orphan + proc[b].spent <= Ttl
            /\ \A f \in Foreground : life[f] > 0 => life[f] + proc[b].spent <= Ttl
        BY <3>1, <3>2 DEF AgeInv
      <3>4. /\ orphan' = orphan \/ (p \in Foreground /\ orphan' = life[p])
            /\ \A f \in Foreground : life'[f] \in {0, life[f]}
        BY <1>1, <3>2, OwnSteps, QuietEffect, EndEffect, OverEffect DEF Open
      <3> QED  BY <3>1, <3>3, <3>4
    <2> QED  BY <2>1, <2>2
  <1>2. CASE \E p \in Procs : OwnStep(p)
    <2>1. PICK p \in Procs : OwnStep(p)
      BY <1>2
    <2> QED  BY <1>1, <2>1 DEF AgeInv
  <1>3. CASE Tick
    <2>1. ASSUME NEW b \in Background, At(b, "wait")', ~newer'[b]
          PROVE  /\ orphan' > 0 => orphan' + proc'[b].spent <= Ttl
                 /\ \A f \in Foreground : life'[f] > 0 => life'[f] + proc'[b].spent <= Ttl
      <3>1. /\ At(b, "wait") /\ ~newer[b] /\ proc'[b].spent <= proc[b].spent + 1
            /\ proc[b].spent \in Nat /\ proc'[b].spent \in Nat
        BY <1>3, <2>1, TickEffect, ClockStep DEF At, Procs, ClockInv, Timers
      <3>2. \A n \in Nat : Later(n) > 0 => n > 0 /\ Later(n) = n - 1
        BY DEF Later
      <3>3. orphan \in Nat /\ orphan' = Later(orphan)
        BY <1>3, TickEffect DEF StoreInv
      <3>4. \A f \in Foreground : life[f] \in Nat /\ life'[f] = Later(life[f])
        BY <1>3, TickEffect DEF StoreInv
      <3>5. ASSUME NEW n \in Nat, n > 0 => n + proc[b].spent <= Ttl
            PROVE  Later(n) > 0 => Later(n) + proc'[b].spent <= Ttl
        BY <3>1, <3>2, <3>5, Times
      <3> QED  BY <3>1, <3>3, <3>4, <3>5 DEF AgeInv
    <2> QED  BY <2>1 DEF AgeInv
  <1>4. CASE UNCHANGED vars
    BY <1>4 DEF vars, AgeInv, At
  <1> QED  BY <1>2, <1>3, <1>4, Steps

LEMMA AgeInvariant == Spec => [](ClockInv /\ StoreInv /\ AgeInv)
  <1>1. /\ ClockInv /\ StoreInv /\ AgeInv
        /\ [Next]_vars
        => ClockInv' /\ StoreInv' /\ AgeInv'
    BY ClockStep, StoreStep, AgeStep
  <1>2. Init => AgeInv
    <2> SUFFICES ASSUME Init PROVE AgeInv
      OBVIOUS
    <2>1. \A b \in Background : ~At(b, "wait")
      BY IdleFits DEF Init, At, Procs
    <2> QED  BY <2>1 DEF AgeInv
  <1> QED  BY <1>1, <1>2, InitClock, PTL DEF Spec

(* Nobody waits in vain for a dead owner: a worker whose patience is at    *)
(* least the life of a marker is turned away only if a new one was         *)
(* published while it waited (waitForEconomicForegroundDemandToClearSync,  *)
(* 5,250 ms against 5,000; the direct lookup, 500 ms, is outside).         *)
THEOREM DeadOwnersTurnNobodyAway ==
    ASSUME MaxWait >= Ttl
    PROVE  Spec => TurnedAwayByNewDemand
  <1>1. ASSUME ClockInv, StoreInv, AgeInv, NEW b \in Background, TurnAway(b)
        PROVE  newer[b]
    <2>0. b \in Procs /\ b \notin Foreground /\ proc[b].spent \in Nat
      BY <1>1, ProcsAssumption DEF Procs, ClockInv, Timers
    <2>1. At(b, "wait") /\ DemandPresent /\ proc[b].spent >= MaxWait
      BY <1>1, <2>0 DEF TurnAway, Patience
    <2>2. SUFFICES ASSUME ~newer[b] PROVE FALSE
      OBVIOUS
    <2>3. PICK n \in Nat : n > 0 /\ n + proc[b].spent <= Ttl
      <3>1. orphan \in Nat /\ \A f \in Foreground : life[f] \in Nat
        BY <1>1 DEF StoreInv
      <3>2. (orphan > 0 \/ \E f \in Foreground : life[f] > 0)
        BY <2>1 DEF DemandPresent
      <3> QED  BY <1>1, <2>1, <2>2, <3>1, <3>2 DEF AgeInv
    <2> QED  BY <2>0, <2>1, <2>3, Times
  <1>2. /\ ClockInv /\ StoreInv /\ AgeInv
        /\ [Next]_vars
        => [\A b \in Background : TurnAway(b) => newer[b]]_vars
    BY <1>1
  <1> QED  BY <1>2, AgeInvariant, PTL DEF Spec, TurnedAwayByNewDemand
-----------------------------------------------------------------------------
(* The windows of the workers, one each and the one that is open when a    *)
(* commit begins, do not fill its attempts, and its attempts but one do    *)
(* not fill its budget.  In the code the attempts are 7, of 250 ms, with   *)
(* pauses of at most 275 ms between them and a budget of 3 s.              *)
FewWindows ==
    /\ IsFiniteSet(Background)
    /\ (Cardinality(Background) + 1) * Window < Attempts * Busy
    /\ TryTime(Attempts - 1) < Budget

(* How long a commit has been kept from the lock: time passes in an        *)
(* attempt only while somebody else holds it.                              *)
WaitedOf(r) == r.tries * Busy - (IF r.pc = "try" THEN r.left ELSE 0)

OpenFor == IF lock = NONE THEN 0 ELSE proc[lock].left
Ahead == {b \in Background : proc[b].pc \in {"try", "sleep"}}
Alone(f) == \A g \in Foreground \ {f} : windows[f][g] = 0
Trying(f) == proc[f].pc \in {"try", "sleep"}

BlockedInv ==
    \A f \in Foreground :
        Trying(f) /\ Alone(f) =>
            WaitedOf(proc[f]) + OpenFor + Cardinality(Ahead) * Window
                <= (Cardinality(Background) + 1) * Window

LEMMA Products ==
    ASSUME NEW m \in Nat, NEW n \in Nat, NEW c \in Nat, m <= n
    PROVE  m * c \in Nat /\ n * c \in Nat /\ m * c <= n * c /\ (m + 1) * c = m * c + c
  <1>1. PICK d \in Nat : n = m + d
    <2>1. n - m \in Nat /\ n = m + (n - m)
      OBVIOUS
    <2> QED  BY <2>1
  <1>2. n * c = m * c + d * c
    BY <1>1
  <1>3. m * c \in Nat /\ d * c \in Nat
    OBVIOUS
  <1>4. (m + 1) * c = m * c + c
    OBVIOUS
  <1> QED  BY <1>2, <1>3, <1>4

LEMMA AttemptsLeft ==
    ASSUME FewWindows, NEW k \in Nat, k >= 1, k * Busy <= (Cardinality(Background) + 1) * Window
    PROVE  k < Attempts /\ TryTime(k) < Budget
  <1>1. Cardinality(Background) \in Nat
    BY FS_CardinalityType DEF FewWindows
  <1>2. (Cardinality(Background) + 1) * Window \in Nat /\ Attempts * Busy \in Nat /\ k * Busy \in Nat
    BY <1>1, Times
  <1>3. k < Attempts
    <2>1. SUFFICES ASSUME Attempts <= k PROVE FALSE
      BY Times
    <2>2. Attempts * Busy <= k * Busy
      BY <2>1, Products, Times
    <2> QED  BY <1>2, <2>2 DEF FewWindows
  <1>4. k <= Attempts - 1 /\ Attempts - 1 \in Nat /\ k - 1 \in Nat /\ (Attempts - 1) - 1 \in Nat
    BY <1>3, Times
  <1>5. k * Busy <= (Attempts - 1) * Busy /\ (k - 1) * MaxDelay <= ((Attempts - 1) - 1) * MaxDelay
    BY <1>4, Products, Times
  <1>6. /\ (Attempts - 1) * Busy \in Nat /\ ((Attempts - 1) - 1) * MaxDelay \in Nat
        /\ (k - 1) * MaxDelay \in Nat
    BY <1>4, Products, Times
  <1>7. TryTime(k) <= TryTime(Attempts - 1)
    BY <1>2, <1>5, <1>6 DEF TryTime
  <1>8. TryTime(k) \in Nat /\ TryTime(Attempts - 1) \in Nat
    BY <1>2, <1>6 DEF TryTime
  <1> QED  BY <1>3, <1>7, <1>8, Times DEF FewWindows

LEMMA AheadSize ==
    ASSUME IsFiniteSet(Background), NEW S, S \subseteq Background
    PROVE  IsFiniteSet(S) /\ Cardinality(S) \in Nat /\ Cardinality(S) <= Cardinality(Background)
  BY FS_Subset, FS_CardinalityType

LEMMA OpenForType ==
    ASSUME ClockInv, StoreInv
    PROVE  OpenFor \in Nat /\ OpenFor <= Window
  <1>1. CASE lock = NONE
    BY <1>1, Times DEF OpenFor
  <1>2. CASE lock # NONE
    <2>1. lock \in Procs /\ proc[lock].pc = "held"
      BY <1>2 DEF StoreInv, At
    <2>2. proc[lock] \in Timers /\ Fits(lock, proc[lock])
      BY <2>1 DEF ClockInv
    <2> QED  BY <1>2, <2>1, <2>2 DEF OpenFor, Fits, Timers
  <1> QED  BY <1>1, <1>2

LEMMA WaitedType ==
    ASSUME ClockInv, NEW p \in Procs
    PROVE  WaitedOf(proc[p]) \in Int /\ proc[p].tries * Busy \in Nat
  <1>1. proc[p].tries \in Nat /\ proc[p].left \in Nat
    BY DEF ClockInv, Timers
  <1>2. proc[p].tries * Busy \in Nat
    BY <1>1, Times
  <1> QED  BY <1>1, <1>2 DEF WaitedOf

LEMMA AheadShrinks ==
    ASSUME Outlives, ClockInv, StoreInv, CoverInv, [Next]_vars, IsFiniteSet(Background),
           NEW f \in Foreground, UnderWay(f)
    PROVE  /\ Ahead' \subseteq Ahead /\ Ahead \subseteq Background
           /\ Cardinality(Ahead') \in Nat /\ Cardinality(Ahead) \in Nat
           /\ Cardinality(Ahead') <= Cardinality(Ahead)
           /\ \A b \in Ahead : b \notin Ahead' => Cardinality(Ahead') + 1 <= Cardinality(Ahead)
  <1>1. Ahead' \subseteq Ahead /\ Ahead \subseteq Background
    BY NobodyStarts DEF Ahead
  <1>2. /\ IsFiniteSet(Ahead) /\ Cardinality(Ahead') \in Nat /\ Cardinality(Ahead) \in Nat
        /\ Cardinality(Ahead') <= Cardinality(Ahead)
    BY <1>1, AheadSize, FS_Subset
  <1>3. ASSUME NEW b \in Ahead, b \notin Ahead'
        PROVE  Cardinality(Ahead') + 1 <= Cardinality(Ahead)
    <2>1. IsFiniteSet(Ahead \ {b}) /\ Cardinality(Ahead \ {b}) = Cardinality(Ahead) - 1
      BY <1>2, FS_RemoveElement
    <2>2. Cardinality(Ahead') <= Cardinality(Ahead \ {b})
      BY <1>1, <1>3, <2>1, FS_Subset
    <2> QED  BY <1>2, <2>1, <2>2
  <1> QED  BY <1>1, <1>2, <1>3

Blocked(f) == WaitedOf(proc[f]) + OpenFor + Cardinality(Ahead) * Window
Room == (Cardinality(Background) + 1) * Window

(* No own step of a process makes the open window longer, unless it opens  *)
(* one.                                                                    *)
LEMMA WindowShrinks ==
    ASSUME ClockInv, StoreInv, NEW p \in Procs, OwnStep(p), ~Open(p)
    PROVE  OpenFor' \in Nat /\ OpenFor' <= OpenFor
  <1>0. OpenFor \in Nat
    BY OpenForType
  <1>1. ASSUME lock' = lock, lock = NONE \/ lock # p
        PROVE  OpenFor' = OpenFor
    <2>1. CASE lock = NONE
      BY <1>1, <2>1 DEF OpenFor
    <2>2. CASE lock # NONE
      <3>1. lock \in Procs /\ lock # p
        BY <1>1, <2>2 DEF StoreInv
      <3>2. PICK q \in Procs : q = lock /\ q # p
        BY <3>1
      <3>3. proc'[q] = proc[q]
        BY <3>2, ElsewhereSame
      <3> QED  BY <1>1, <3>2, <3>3 DEF OpenFor
    <2> QED  BY <2>1, <2>2
  <1>2. CASE TurnAway(p) \/ Exhaust(p) \/ Close(p) \/ Die(p)
    <2>1. lock' = IF lock = p THEN NONE ELSE lock
      BY <1>2, EndEffect
    <2>2. CASE lock = p
      BY <1>0, <2>1, <2>2 DEF OpenFor
    <2>3. CASE lock # p
      BY <1>0, <1>1, <2>1, <2>3
    <2> QED  BY <2>2, <2>3
  <1>3. CASE QuietStep(p) \/ (p \in Foreground /\ Publish(p))
    <2>1. lock' = lock /\ proc[p].pc # "held"
      BY <1>3, QuietEffect, PublishEffect DEF Publish
    <2>2. lock # p
      BY <2>1 DEF StoreInv, At
    <2> QED  BY <1>0, <1>1, <2>1, <2>2
  <1> QED  BY <1>2, <1>3, OwnSteps

LEMMA BlockedBegins ==
    ASSUME ClockInv, StoreInv, IsFiniteSet(Background), NEW f \in Foreground, Publish(f),
           Trying(f)'
    PROVE  Blocked(f)' <= Room
  <1>1. f \in Procs /\ OwnStep(f) /\ ~Open(f)
    <2>1. proc[f].pc = "acquire"
      BY PublishEffect
    <2> QED  BY <2>1 DEF Procs, OwnStep, Open, At
  <1>2. proc'[f].pc = "try" /\ proc'[f].tries = 1 /\ proc'[f].left = Busy
    BY PublishEffect DEF Trying
  <1>3. WaitedOf(proc'[f]) = 0
    BY <1>2, Times DEF WaitedOf
  <1>4. OpenFor' \in Nat /\ OpenFor' <= Window
    BY <1>1, WindowShrinks, OpenForType, Times
  <1>5. Cardinality(Background) \in Nat
    BY FS_CardinalityType
  <1>6. PICK n \in Nat : n = Cardinality(Ahead') /\ n <= Cardinality(Background)
    <2>1. Ahead' \subseteq Background
      BY DEF Ahead
    <2> QED  BY <2>1, AheadSize
  <1>7. n * Window <= Cardinality(Background) * Window /\ n * Window \in Nat
        /\ Room = Cardinality(Background) * Window + Window
        /\ Cardinality(Background) * Window \in Nat
    BY <1>5, <1>6, Products, Times DEF Room
  <1> QED  BY <1>3, <1>4, <1>6, <1>7, Times DEF Blocked

LEMMA BlockedGoesOn ==
    ASSUME Outlives, ClockInv, StoreInv, CoverInv, [Next]_vars, IsFiniteSet(Background),
           NEW f \in Foreground, Trying(f), NEW w \in Int, WaitedOf(proc'[f]) = w,
           OpenFor' \in Nat,
           \/ w + OpenFor' <= WaitedOf(proc[f]) + OpenFor
           \/ /\ w + OpenFor' <= WaitedOf(proc[f]) + OpenFor + Window
              /\ \E b \in Ahead : b \notin Ahead'
    PROVE  Blocked(f)' <= Blocked(f)
  <1>1. f \in Procs /\ UnderWay(f)
    BY DEF Procs, Trying, UnderWay
  <1>2. WaitedOf(proc[f]) \in Int /\ OpenFor \in Nat
    BY <1>1, WaitedType, OpenForType
  <1>3. PICK n \in Nat, m \in Nat :
            /\ n = Cardinality(Ahead) /\ m = Cardinality(Ahead') /\ m <= n
            /\ (\E b \in Ahead : b \notin Ahead') => m + 1 <= n
    BY <1>1, AheadShrinks
  <1>4. m * Window <= n * Window /\ m * Window \in Nat /\ n * Window \in Nat
    BY <1>3, Products, Times
  <1>5. CASE w + OpenFor' <= WaitedOf(proc[f]) + OpenFor
    BY <1>2, <1>3, <1>4, <1>5 DEF Blocked
  <1>6. CASE /\ w + OpenFor' <= WaitedOf(proc[f]) + OpenFor + Window
             /\ \E b \in Ahead : b \notin Ahead'
    <2>1. (m + 1) * Window <= n * Window /\ (m + 1) * Window = m * Window + Window
      BY <1>3, <1>6, Products, Times
    <2> QED  BY <1>2, <1>3, <1>4, <1>6, <2>1, Times DEF Blocked
  <1> QED  BY <1>5, <1>6

(* A step of the commit itself, of another process, and of the clock.      *)
LEMMA BlockedByOwnStep ==
    ASSUME Outlives, ClockInv, StoreInv, CoverInv, [Next]_vars, IsFiniteSet(Background),
           NEW f \in Foreground, OwnStep(f), Trying(f)'
    PROVE  \/ Blocked(f)' <= Room
           \/ Trying(f) /\ windows' = windows /\ Blocked(f)' <= Blocked(f)
  <1>0. f \in Procs /\ f \notin Background
    BY ProcsAssumption DEF Procs
  <1>1. CASE Publish(f)
    BY <1>1, BlockedBegins
  <1>2. CASE Pause(f) \/ Again(f)
    <2>1. /\ Trying(f) /\ proc[f] \in Timers
          /\ proc'[f].tries \in Nat /\ proc'[f].left \in Nat
      BY <1>0, <1>2, MovesOn, ClockStep DEF Trying, ClockInv, Timers
    <2>2. WaitedOf(proc'[f]) = WaitedOf(proc[f])
      <3>1. CASE Pause(f)
        <4>1. /\ proc[f].pc = "try" /\ proc[f].left = 0 /\ proc'[f].pc = "sleep"
              /\ proc'[f].tries = proc[f].tries
          BY <1>0, <3>1, MovesOn
        <4> QED  BY <4>1 DEF WaitedOf
      <3>2. CASE Again(f)
        <4>1. /\ proc[f].pc = "sleep" /\ proc'[f].pc = "try"
              /\ proc'[f].tries = proc[f].tries + 1 /\ proc'[f].left = Busy
          BY <1>0, <3>2, MovesOn
        <4>2. /\ proc[f].tries * Busy \in Nat
              /\ (proc[f].tries + 1) * Busy = proc[f].tries * Busy + Busy
          BY <2>1, Products, Times DEF Timers
        <4> QED  BY <4>1, <4>2, Times DEF WaitedOf
      <3> QED  BY <1>2, <3>1, <3>2
    <2>3. windows' = windows /\ ~Open(f)
      BY <1>2 DEF Pause, Again, history, Open, Locked, At
    <2>4. OpenFor' \in Nat /\ OpenFor' <= OpenFor /\ OpenFor \in Nat
      BY <1>0, <2>3, WindowShrinks, OpenForType
    <2>5. WaitedOf(proc[f]) \in Int
      BY <1>0, WaitedType
    <2>6. Blocked(f)' <= Blocked(f)
      BY <2>1, <2>2, <2>4, <2>5, BlockedGoesOn
    <2> QED  BY <2>1, <2>3, <2>6
  <1>3. Publish(f) \/ Pause(f) \/ Again(f)
    <2>1. ~TurnAway(f) /\ ~Exhaust(f) /\ ~Close(f) /\ ~Die(f)
      BY <1>0, EndEffect, OverEffect, IdleFits DEF Trying
    <2>2. ~Open(f) /\ (\A w : ~Acquire(f, w))
      BY <1>0, OpenEffect, MovesOn DEF Trying
    <2>3. ~Clear(f)
      <3>1. UnderWay(f) => DemandPresent
        BY UnderWayIsSeen
      <3> QED  BY <3>1 DEF Clear, UnderWay, At
    <2> QED  BY <1>0, <2>1, <2>2, <2>3 DEF OwnStep
  <1> QED  BY <1>1, <1>2, <1>3

LEMMA BlockedByOthers ==
    ASSUME Outlives, ClockInv, StoreInv, CoverInv, [Next]_vars, IsFiniteSet(Background),
           NEW f \in Foreground, NEW p \in Procs, OwnStep(p), p # f, Trying(f)', Alone(f)'
    PROVE  Trying(f) /\ Alone(f) /\ Blocked(f)' <= Blocked(f)
  <1>0. f \in Procs
    BY DEF Procs
  <1>1. proc'[f] = proc[f] /\ Trying(f)
    BY <1>0, ElsewhereSame DEF Trying
  <1>2. WaitedOf(proc[f]) \in Int /\ OpenFor \in Nat /\ WaitedOf(proc'[f]) = WaitedOf(proc[f])
    BY <1>0, <1>1, WaitedType, OpenForType
  <1>3. CASE ~Open(p)
    <2>1. windows'[f] = windows[f]
      BY <1>3, OwnSteps, QuietEffect, EndEffect, OverEffect DEF Publish
    <2>2. Alone(f)
      BY <2>1 DEF Alone
    <2>3. OpenFor' \in Nat /\ OpenFor' <= OpenFor
      BY <1>3, WindowShrinks
    <2>4. Blocked(f)' <= Blocked(f)
      BY <1>1, <1>2, <2>3, BlockedGoesOn
    <2> QED  BY <1>1, <2>2, <2>4
  <1>4. CASE Open(p)
    <2>1. /\ proc'[p].pc = "held" /\ proc[p].pc = "try" /\ lock = NONE /\ lock' = p
          /\ proc'[p].left = Window
          /\ \A q \in Procs : q # p => windows'[f][q] = windows[f][q]
          /\ Up(f) => windows'[f][p] > 0
      BY <1>4, OpenEffect
    <2>2. p \in Background
      <3>1. Up(f)
        BY <1>1 DEF Trying, Up
      <3>2. p \notin Foreground
        BY <2>1, <3>1 DEF Alone
      <3> QED  BY <3>2 DEF Procs
    <2>3. Alone(f)
      <3>1. \A g \in Foreground : g \in Procs /\ g # p
        BY <2>2, ProcsAssumption DEF Procs
      <3> QED  BY <2>1, <3>1 DEF Alone
    <2>4. p \in Ahead /\ p \notin Ahead'
      BY <2>1, <2>2 DEF Ahead
    <2>5. OpenFor = 0 /\ OpenFor' = Window
      BY <2>1, ProcsAssumption DEF OpenFor
    <2>6. Blocked(f)' <= Blocked(f)
      BY <1>1, <1>2, <2>4, <2>5, Times, BlockedGoesOn
    <2> QED  BY <1>1, <2>3, <2>6
  <1> QED  BY <1>3, <1>4

LEMMA BlockedByTime ==
    ASSUME Outlives, ClockInv, StoreInv, CoverInv, IsFiniteSet(Background), Tick,
           NEW f \in Foreground, Trying(f)'
    PROVE  Trying(f) /\ windows' = windows /\ Blocked(f)' <= Blocked(f)
  <1>0. f \in Procs /\ [Next]_vars
    BY DEF Procs, Next
  <1>1. /\ \A p \in Procs : proc'[p].pc = proc[p].pc /\ proc'[p].tries = proc[p].tries
        /\ lock' = lock /\ windows' = windows
    BY TickEffect
  <1>2. Trying(f) /\ windows' = windows
    BY <1>0, <1>1 DEF Trying
  <1>3. /\ proc[f].left \in Nat /\ proc[f].tries * Busy \in Nat /\ OpenFor \in Nat
        /\ proc'[f].left = proc[f].left - 1 /\ proc[f].left > 0
    BY <1>0, <1>2, WaitedType, OpenForType, TickTimers DEF Trying, ClockInv, Timers
  <1>4. OpenFor' = IF lock = NONE THEN 0 ELSE OpenFor - 1
    <2>1. CASE lock = NONE
      BY <1>1, <2>1 DEF OpenFor
    <2>2. CASE lock # NONE
      <3>1. PICK q \in Procs : q = lock /\ proc[q].pc = "held"
        BY <2>2 DEF StoreInv, At
      <3>2. proc'[q].left = proc[q].left - 1
        BY <3>1, TickTimers
      <3> QED  BY <1>1, <2>2, <3>1, <3>2 DEF OpenFor
    <2> QED  BY <2>1, <2>2
  <1>5. OpenFor' \in Nat
    <2>1. lock # NONE => OpenFor > 0
      <3>1. SUFFICES ASSUME lock # NONE PROVE OpenFor > 0
        OBVIOUS
      <3>2. PICK q \in Procs : q = lock /\ proc[q].pc = "held"
        BY <3>1 DEF StoreInv, At
      <3>3. proc[q].left > 0
        BY <3>2, TickTimers
      <3> QED  BY <3>1, <3>2, <3>3 DEF OpenFor
    <2> QED  BY <1>3, <1>4, <2>1
  <1>6. CASE proc[f].pc = "try"
    <2>1. lock # NONE
      BY <1>0, <1>6 DEF Tick, Urgent, At
    <2>2. WaitedOf(proc'[f]) = WaitedOf(proc[f]) + 1
      BY <1>0, <1>1, <1>3, <1>6 DEF WaitedOf
    <2>3. WaitedOf(proc[f]) \in Int /\ WaitedOf(proc[f]) + 1 \in Int
      BY <1>0, WaitedType
    <2>4. (WaitedOf(proc[f]) + 1) + OpenFor' <= WaitedOf(proc[f]) + OpenFor
      BY <1>3, <1>4, <2>1, <2>3
    <2> QED  BY <1>0, <1>2, <1>5, <2>2, <2>3, <2>4, BlockedGoesOn
  <1>7. CASE proc[f].pc = "sleep"
    <2>1. WaitedOf(proc'[f]) = WaitedOf(proc[f])
      BY <1>0, <1>1, <1>7 DEF WaitedOf
    <2>2. WaitedOf(proc[f]) \in Int
      BY <1>0, WaitedType
    <2>3. WaitedOf(proc[f]) + OpenFor' <= WaitedOf(proc[f]) + OpenFor
      <3>1. OpenFor' <= OpenFor
        BY <1>3, <1>4
      <3> QED  BY <1>3, <1>5, <2>2, <3>1
    <2> QED  BY <1>0, <1>2, <1>5, <2>1, <2>2, <2>3, BlockedGoesOn
  <1> QED  BY <1>2, <1>6, <1>7 DEF Trying

LEMMA BlockedStep ==
    ASSUME Outlives, ClockInv, StoreInv, CoverInv, BlockedInv, [Next]_vars,
           IsFiniteSet(Background)
    PROVE  BlockedInv'
  <1>1. Room \in Nat /\ \A f \in Foreground : Blocked(f) \in Int
    <2>1. Cardinality(Background) \in Nat /\ Cardinality(Ahead) \in Nat
      BY AheadSize, FS_CardinalityType DEF Ahead
    <2>2. Cardinality(Ahead) * Window \in Nat /\ Room \in Nat
      BY <2>1, Times DEF Room
    <2> QED  BY <2>2, WaitedType, OpenForType DEF Blocked, Procs
  <1>2. ASSUME NEW f \in Foreground, Trying(f)', Alone(f)'
        PROVE  Blocked(f)' <= Room
    <2>1. CASE UNCHANGED vars
      <3>1. Trying(f) /\ Alone(f)
        BY <1>2, <2>1 DEF vars, Trying, Alone
      <3>2. Blocked(f)' = Blocked(f)
        BY <2>1 DEF vars, Blocked, OpenFor, Ahead, WaitedOf
      <3> QED  BY <3>1, <3>2 DEF BlockedInv, Blocked, Room
    <2>2. ASSUME Trying(f), Alone(f), Blocked(f)' <= Blocked(f), Blocked(f)' \in Int
          PROVE  Blocked(f)' <= Room
      <3>1. Blocked(f) <= Room
        BY <2>2 DEF BlockedInv, Blocked, Room
      <3> QED  BY <1>1, <2>2, <3>1
    <2>3. Blocked(f)' \in Int
      <3>1. Cardinality(Ahead') \in Nat
        BY AheadSize DEF Ahead
      <3>2. proc'[f].tries \in Nat /\ proc'[f].left \in Nat
        BY ClockStep DEF ClockInv, Timers, Procs
      <3>3. WaitedOf(proc'[f]) \in Int /\ Cardinality(Ahead') * Window \in Nat
        <4>1. proc'[f].tries * Busy \in Nat
          BY <3>2, Times
        <4> QED  BY <3>1, <3>2, <4>1, Times DEF WaitedOf
      <3>4. ClockInv' /\ StoreInv'
        BY ClockStep, StoreStep
      <3>5. OpenFor' \in Nat
        <4>1. CASE lock' = NONE
          BY <4>1 DEF OpenFor
        <4>2. CASE lock' # NONE
          <5>1. PICK q \in Procs : q = lock'
            BY <3>4, <4>2 DEF StoreInv
          <5>2. proc'[q].left \in Nat
            BY <3>4 DEF ClockInv, Timers
          <5> QED  BY <4>2, <5>1, <5>2 DEF OpenFor
        <4> QED  BY <4>1, <4>2
      <3> QED  BY <3>3, <3>5 DEF Blocked
    <2>4. ASSUME NEW p \in Procs, OwnStep(p) PROVE Blocked(f)' <= Room
      <3>1. CASE p = f
        <4>1. \/ Blocked(f)' <= Room
              \/ Trying(f) /\ windows' = windows /\ Blocked(f)' <= Blocked(f)
          BY <1>2, <2>4, <3>1, BlockedByOwnStep
        <4>2. windows' = windows => Alone(f)
          BY <1>2 DEF Alone
        <4> QED  BY <2>2, <2>3, <4>1, <4>2
      <3>2. CASE p # f
        BY <1>2, <2>2, <2>3, <2>4, <3>2, BlockedByOthers
      <3> QED  BY <3>1, <3>2
    <2>5. CASE Tick
      <3>1. Trying(f) /\ windows' = windows /\ Blocked(f)' <= Blocked(f)
        BY <1>2, <2>5, BlockedByTime
      <3>2. Alone(f)
        BY <1>2, <3>1 DEF Alone
      <3> QED  BY <2>2, <2>3, <3>1, <3>2
    <2> QED  BY <2>1, <2>4, <2>5, Steps
  <1> QED  BY <1>2 DEF BlockedInv, Blocked, Room

(* A commit never gives up to workers alone, however many there are and    *)
(* however they interleave, as long as their windows do not fill its       *)
(* attempts: a potential argument, each worker has one window and time     *)
(* passes in an attempt only while one is open                             *)
(* (withSqliteTransientRetrySync under withEconomicForegroundPersistence-  *)
(* Sync).                                                                  *)
THEOREM WorkersDoNotExhaust ==
    ASSUME Outlives, FewWindows
    PROVE  Spec => GivesUpOnlyToPeers
  <1>0. IsFiniteSet(Background)
    BY DEF FewWindows
  <1>1. /\ ClockInv /\ StoreInv /\ CoverInv /\ BlockedInv
        /\ [Next]_vars
        => ClockInv' /\ StoreInv' /\ CoverInv' /\ BlockedInv'
    BY <1>0, ClockStep, StoreStep, CoverStep, BlockedStep
  <1>2. Init => ClockInv /\ StoreInv /\ CoverInv /\ BlockedInv
    <2> SUFFICES ASSUME Init PROVE BlockedInv
      BY InitClock, InitCovered
    <2>1. \A f \in Foreground : ~Trying(f)
      BY IdleFits DEF Init, Trying, Procs
    <2> QED  BY <2>1 DEF BlockedInv
  <1>3. ASSUME ClockInv, StoreInv, BlockedInv, NEW f \in Foreground, Exhaust(f), Alone(f)
        PROVE  FALSE
    <2> DEFINE x == proc[f]
    <2>1. x.pc = "try" /\ x.left = 0 /\ LastAttempt(f)
      BY <1>3 DEF Exhaust, Locked, At
    <2>2. f \in Procs /\ Fits(f, x) /\ x.tries \in Nat /\ x.spent \in Nat
      BY <1>3 DEF ClockInv, Procs, Timers
    <2>3. x.tries >= 1 /\ x.spent <= TryTime(x.tries)
      BY <2>1, <2>2 DEF Fits
    <2>4. x.tries * Busy <= Room
      <3>1. Cardinality(Background) \in Nat /\ Cardinality(Ahead) \in Nat
        BY <1>0, AheadSize, FS_CardinalityType DEF Ahead
      <3>2. Cardinality(Ahead) * Window \in Nat /\ Room \in Nat
        BY <3>1, Times DEF Room
      <3>3. OpenFor \in Nat /\ x.tries * Busy \in Nat
        BY <1>3, <2>2, OpenForType, WaitedType
      <3>4. WaitedOf(x) = x.tries * Busy
        BY <2>1, <3>3 DEF WaitedOf
      <3>5. WaitedOf(x) + OpenFor + Cardinality(Ahead) * Window <= Room
        BY <1>3, <2>1 DEF BlockedInv, Trying, Room
      <3> QED  BY <3>2, <3>3, <3>4, <3>5
    <2>5. x.tries < Attempts /\ TryTime(x.tries) < Budget
      BY <2>2, <2>3, <2>4, AttemptsLeft DEF Room
    <2>6. TryTime(x.tries) \in Nat
      BY <2>2, <2>3, AttemptTimes
    <2>7. x.spent < Budget
      BY <2>2, <2>3, <2>5, <2>6, Times
    <2> QED  BY <2>1, <2>2, <2>5, <2>7, Times DEF LastAttempt, Remaining
  <1>4. ASSUME ClockInv, StoreInv, BlockedInv, NEW f \in Foreground, Exhaust(f)
        PROVE  \E g \in Foreground \ {f} : windows[f][g] > 0
    <2>1. ~Alone(f)
      BY <1>3, <1>4
    <2>2. \A g \in Foreground : windows[f][g] \in 0..2
      BY <1>4 DEF StoreInv, Procs
    <2> QED  BY <2>1, <2>2 DEF Alone
  <1>5. /\ ClockInv /\ StoreInv /\ CoverInv /\ BlockedInv
        /\ [Next]_vars
        => [\A f \in Foreground :
              Exhaust(f) => \E g \in Foreground \ {f} : windows[f][g] > 0]_vars
    BY <1>4
  <1> QED  BY <1>1, <1>2, <1>5, PTL DEF Spec, GivesUpOnlyToPeers
=============================================================================
