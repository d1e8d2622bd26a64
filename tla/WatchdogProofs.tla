--------------------------- MODULE WatchdogProofs ---------------------------
(***************************************************************************)
(* Theorems about Watchdog for every length of the two timers.  The bound   *)
(* on the stalls does not limit them: a stall at the bound is at least as   *)
(* long as any the theorems speak of.                                       *)
(***************************************************************************)
EXTENDS Watchdog, TLAPS

(* How long a reactor that has missed its heartbeat has until it is killed. *)
Grace == KillAfter - BeatAfter

(* Before the heartbeat of r is due the killer is one grace period behind.  *)
(* Once it is due, the killer has advanced only as far as r has been        *)
(* stalled, in this stall or (if r is back, and has yet to beat) the worst. *)
KillerFollows(r) ==
  /\ heartbeat[r] > 0 => killer[r] = heartbeat[r] + Grace
  /\ heartbeat[r] = 0 =>
       \/ Stopped(r)
       \/ killer[r] + worst[r] >= Grace /\ (stalled[r] => killer[r] + stall[r] >= Grace)
  /\ posted[r] => Stopped(r) \/ worst[r] >= Grace

(* While the other reactor was never held up, r has been stalled for at     *)
(* most the time its killer has run.                                        *)
StallSeen(r) == worst[Other(r)] = 0 => stall[r] + killer[r] <= KillAfter

Stalls(r) == stall[r] <= worst[r] /\ (~stalled[r] => stall[r] = 0)

Alarmed == outcome = "exit11" => \E r \in Reactors : Stopped(r) \/ worst[r] >= Grace

DogInv ==
  /\ TypeOK
  /\ Alarmed
  /\ \A r \in Reactors : KillerFollows(r) /\ StallSeen(r) /\ Stalls(r)

-----------------------------------------------------------------------------
(* Max and Min of two numbers.                                              *)
LEMMA MaxMin ==
  ASSUME NEW a \in Nat, NEW b \in Nat
  PROVE  /\ Max({a, b}) = IF a >= b THEN a ELSE b
         /\ Min({a, b}) = IF a <= b THEN a ELSE b
<1>1. ASSUME NEW m \in {a, b}, \A y \in {a, b} : m >= y PROVE Max({a, b}) = m
  <2>1. \A x \in {a, b} : (\A y \in {a, b} : x >= y) => x = m
    BY <1>1
  <2>2. QED BY <1>1, <2>1 DEF Max
<1>2. ASSUME NEW m \in {a, b}, \A y \in {a, b} : m <= y PROVE Min({a, b}) = m
  <2>1. \A x \in {a, b} : (\A y \in {a, b} : x <= y) => x = m
    BY <1>2
  <2>2. QED BY <1>2, <2>1 DEF Min
<1>3. CASE a >= b
  <2>1. Max({a, b}) = a
    BY <1>1, <1>3
  <2>2. Min({a, b}) = b
    BY <1>2, <1>3
  <2>3. QED BY <1>3, <2>1, <2>2
<1>4. CASE ~(a >= b)
  <2>1. Max({a, b}) = b
    BY <1>1, <1>4
  <2>2. Min({a, b}) = a
    BY <1>2, <1>4
  <2>3. QED BY <1>4, <2>1, <2>2
<1>5. QED BY <1>3, <1>4

(* The numbers of the timers.                                               *)
LEMMA Timers ==
  /\ BeatAfter \in Nat \ {0} /\ KillAfter \in Nat /\ MaxStall \in Nat
  /\ Grace \in Nat \ {0} /\ Grace + BeatAfter = KillAfter /\ MaxStall > KillAfter
BY WatchdogAssumption DEF Grace

(* There are two reactors.                                                  *)
LEMMA Both ==
  ASSUME NEW r \in Reactors
  PROVE  Other(r) \in Reactors /\ Other(Other(r)) = r /\ Other(r) # r
BY DEF Other, Reactors

(* A stopped thread never comes back.                                       *)
LEMMA StoppedStays ==
  ASSUME [Next]_vars, NEW r \in Reactors, Stopped(r)
  PROVE  Stopped(r)'
BY DEF Next, vars, stallVars, timerVars, Stopped, Beat, Collect, Kill, Enter,
       Leave, Throw, Tick, Terminated

(* A tick leaves a stall of a stalled reactor at least one tick long, and   *)
(* longer than before unless it is at the bound.                            *)
LEMMA LongerFacts ==
  ASSUME TypeOK, NEW r \in Reactors
  PROVE  /\ Longer(r) \in 0 .. MaxStall
         /\ ~stalled[r] => Longer(r) = 0
         /\ stalled[r] => /\ Longer(r) >= 1 /\ Longer(r) >= stall[r]
                          /\ Longer(r) = stall[r] + 1 \/ Longer(r) = MaxStall
         /\ Longer(r) <= stall[r] + 1
         /\ Max({worst[r], Longer(r)}) \in 0 .. MaxStall
         /\ Max({worst[r], Longer(r)}) >= worst[r]
         /\ Max({worst[r], Longer(r)}) >= Longer(r)
<1>1. stall[r] \in 0 .. MaxStall /\ worst[r] \in 0 .. MaxStall /\ stalled[r] \in BOOLEAN
  BY DEF TypeOK
<1>2. stall[r] + 1 \in Nat /\ MaxStall \in Nat \ {0} /\ worst[r] \in Nat
  BY <1>1, Timers
<1>3. Min({stall[r] + 1, MaxStall}) =
        IF stall[r] + 1 <= MaxStall THEN stall[r] + 1 ELSE MaxStall
  BY <1>2, MaxMin
<1>4. /\ Longer(r) \in 0 .. MaxStall
      /\ ~stalled[r] => Longer(r) = 0
      /\ stalled[r] => /\ Longer(r) >= 1 /\ Longer(r) >= stall[r]
                       /\ Longer(r) = stall[r] + 1 \/ Longer(r) = MaxStall
      /\ Longer(r) <= stall[r] + 1
  BY <1>1, <1>2, <1>3 DEF Longer
<1>5. Max({worst[r], Longer(r)}) =
        IF worst[r] >= Longer(r) THEN worst[r] ELSE Longer(r)
  BY <1>2, <1>4, MaxMin
<1>6. QED BY <1>1, <1>2, <1>4, <1>5

(* Time passes: the step on which the invariant rests.  A free reactor has  *)
(* beaten before the tick if it had to, and a killer that was due on a free *)
(* reactor has been collected, and its handler run.                         *)
LEMMA TickStep ==
  ASSUME DogInv, Tick
  PROVE  DogInv'
<1> USE Timers
<1>1. TypeOK /\ TypeOK'
  <2>1. TypeOK
    BY DEF DogInv
  <2>2. /\ heartbeat' = [r \in Reactors |-> Less(heartbeat[r])]
        /\ killer' = [r \in Reactors |-> Less(killer[r])]
        /\ stall' = [r \in Reactors |-> Longer(r)]
        /\ worst' = [r \in Reactors |-> Max({worst[r], Longer(r)})]
        /\ UNCHANGED <<stalled, posted, short, outcome>>
    BY DEF Tick
  <2>3. ASSUME NEW r \in Reactors
        PROVE  /\ Less(heartbeat[r]) \in 0 .. BeatAfter
               /\ Less(killer[r]) \in 0 .. KillAfter
               /\ Less(heartbeat[r]) <= Less(killer[r])
    BY <2>1 DEF TypeOK, Less
  <2>4. QED BY <2>1, <2>2, <2>3, LongerFacts DEF TypeOK
<1>2. UNCHANGED <<stalled, posted, short, outcome>> /\ Running
  BY DEF Tick
<1>3. ASSUME NEW r \in Reactors
      PROVE  /\ heartbeat[r] \in Nat /\ killer[r] \in Nat /\ stall[r] \in Nat
             /\ worst[r] \in Nat /\ stall'[r] \in Nat /\ worst'[r] \in Nat
             /\ heartbeat'[r] = Less(heartbeat[r]) /\ killer'[r] = Less(killer[r])
  BY <1>1, Timers DEF TypeOK, Tick
<1>4. ASSUME NEW r \in Reactors
      PROVE  /\ ~stalled[r] => stall'[r] = 0
             /\ stalled[r] => stall'[r] >= 1 /\ stall'[r] >= stall[r]
             /\ stalled[r] => stall'[r] = stall[r] + 1 \/ stall'[r] = MaxStall
             /\ stall'[r] <= stall[r] + 1
             /\ worst'[r] >= worst[r] /\ worst'[r] >= stall'[r]
  <2>1. stall'[r] = Longer(r) /\ worst'[r] = Max({worst[r], Longer(r)})
    BY DEF Tick
  <2>2. QED BY <1>1, <2>1, LongerFacts
<1>5. ASSUME NEW r \in Reactors
      PROVE  /\ heartbeat[r] = 0 => stalled[r]
             /\ ~stalled[Other(r)] => killer[r] > 0
  <2>1. heartbeat[r] = 0 => stalled[r]
    BY DEF Tick, Due, BeatDue
  <2>2. ~stalled[Other(r)] => ~KillerDue(r) /\ ~KillDue(r)
    BY Both DEF Tick, Due, Watcher
  <2>3. ~stalled[Other(r)] => killer[r] # 0
    BY <1>1, <2>2 DEF KillerDue, KillDue, Watcher, TypeOK
  <2>4. QED BY <1>3, <2>1, <2>3
<1>6. ASSUME NEW r \in Reactors PROVE KillerFollows(r)' /\ Stalls(r)'
  <2>1. KillerFollows(r) /\ Stalls(r) /\ killer[r] <= KillAfter
    BY <1>1 DEF DogInv, TypeOK
  <2>2. Stalls(r)'
    BY <1>2, <1>4 DEF Stalls
  <2>3. Stopped(r)' <=> Stopped(r)
    BY <1>2 DEF Stopped
  <2>4. posted'[r] => Stopped(r)' \/ worst'[r] >= Grace
    <3>1. CASE worst[r] >= Grace
      <4>1. worst'[r] >= Grace
        BY <1>3, <1>4, <3>1
      <4>2. QED BY <4>1
    <3>2. QED BY <1>2, <2>1, <2>3, <3>1 DEF KillerFollows
  <2>5. CASE heartbeat[r] > 1
    <3>1. /\ heartbeat'[r] = heartbeat[r] - 1 /\ killer[r] = heartbeat[r] + Grace
      BY <1>3, <2>1, <2>5 DEF KillerFollows, Less
    <3>2. killer'[r] = heartbeat'[r] + Grace /\ heartbeat'[r] # 0
      BY <1>3, <2>5, <3>1 DEF Less
    <3>3. QED BY <2>2, <2>4, <3>2 DEF KillerFollows
  <2>6. CASE heartbeat[r] = 1
    <3>1. killer[r] = 1 + Grace
      BY <2>1, <2>6 DEF KillerFollows
    <3>2. heartbeat'[r] = 0 /\ killer'[r] = Grace
      BY <1>3, <2>6, <3>1 DEF Less
    <3>3. Grace + worst'[r] >= Grace /\ Grace + stall'[r] >= Grace
      BY <1>3
    <3>4. QED BY <2>2, <2>4, <3>2, <3>3 DEF KillerFollows
  <2>7. CASE heartbeat[r] = 0
    <3>1. stalled[r] /\ heartbeat'[r] = 0
      BY <1>3, <1>5, <2>7 DEF Less
    <3>2. CASE Stopped(r)
      BY <2>2, <2>3, <2>4, <3>1, <3>2 DEF KillerFollows
    <3>3. CASE killer[r] + stall[r] >= Grace
      <4> DEFINE k == killer[r]
                 s == stall[r]
                 t == stall'[r]
      <4>1. k \in Nat /\ s \in Nat /\ t \in Nat /\ k + s >= Grace
            /\ t >= 1 /\ t >= s /\ (t = s + 1 \/ t = MaxStall)
        BY <1>3, <1>4, <3>1, <3>3
      <4>2. killer'[r] = IF k = 0 THEN 0 ELSE k - 1
        BY <1>3 DEF Less
      <4> HIDE DEF k, s, t
      <4>3. killer'[r] + t >= Grace /\ killer'[r] \in Nat
        BY <4>1, <4>2
      <4>4. worst'[r] >= t
        BY <1>4 DEF t
      <4>5. killer'[r] + worst'[r] >= Grace
        BY <1>3, <4>1, <4>3, <4>4
      <4>6. QED BY <2>2, <2>4, <3>1, <4>3, <4>5 DEF KillerFollows, t
    <3>4. QED BY <2>1, <2>7, <3>1, <3>2, <3>3 DEF KillerFollows
  <2>8. QED BY <1>3, <2>5, <2>6, <2>7
<1>7. ASSUME NEW r \in Reactors PROVE StallSeen(r)'
  <2> DEFINE o == Other(r)
  <2>1. o \in Reactors /\ StallSeen(r)
    BY Both DEF DogInv
  <2> SUFFICES ASSUME worst'[o] = 0 PROVE stall'[r] + killer'[r] <= KillAfter
    BY DEF StallSeen, Other
  <2> HIDE DEF o
  <2>2. worst[o] = 0 /\ ~stalled[o]
    BY <1>3, <1>4, <2>1
  <2>3. stall[r] + killer[r] <= KillAfter /\ killer[r] > 0
    BY <1>5, <2>1, <2>2 DEF StallSeen, o
  <2>4. killer'[r] = killer[r] - 1
    BY <1>3, <2>3 DEF Less
  <2>5. QED BY <1>3, <1>4, <2>3, <2>4
<1>8. Alarmed'
  BY <1>2 DEF Alarmed, Running
<1>9. QED BY <1>1, <1>6, <1>7, <1>8 DEF DogInv

(* A timer of one reactor changes nothing for the other.                    *)
LEMMA BeatStep ==
  ASSUME DogInv, NEW r \in Reactors, Beat(r)
  PROVE  DogInv'
<1> USE Timers
<1>1. /\ killer' = [killer EXCEPT ![r] = KillAfter]
      /\ heartbeat' = [heartbeat EXCEPT ![r] = BeatAfter]
      /\ UNCHANGED <<stalled, stall, worst, posted, short, outcome>>
      /\ ~stalled[r] /\ TypeOK /\ Alarmed
  BY DEF Beat, BeatDue, KillerReset, DogInv, stallVars
<1>2. TypeOK'
  BY <1>1 DEF TypeOK
<1>3. ASSUME NEW q \in Reactors
      PROVE  KillerFollows(q)' /\ StallSeen(q)' /\ Stalls(q)'
  <2>1. KillerFollows(q) /\ StallSeen(q) /\ Stalls(q)
    BY DEF DogInv
  <2>2. Stopped(q)' <=> Stopped(q)
    BY <1>1 DEF Stopped
  <2>3. CASE q # r
    <3>1. killer'[q] = killer[q] /\ heartbeat'[q] = heartbeat[q]
      BY <1>1, <2>3 DEF TypeOK
    <3>2. QED BY <1>1, <2>1, <2>2, <3>1 DEF KillerFollows, StallSeen, Stalls, Other
  <2>4. CASE q = r
    <3>1. killer'[q] = KillAfter /\ heartbeat'[q] = BeatAfter /\ BeatAfter > 0
          /\ KillAfter = BeatAfter + Grace
      BY <1>1, <2>4 DEF TypeOK
    <3>2. stall'[q] = 0
      BY <1>1, <2>1, <2>4 DEF Stalls
    <3>3. KillerFollows(q)'
      BY <1>1, <2>1, <2>2, <3>1 DEF KillerFollows
    <3>4. QED BY <1>1, <2>1, <3>1, <3>2, <3>3 DEF StallSeen, Stalls
  <2>5. QED BY <2>3, <2>4
<1>4. Alarmed'
  BY <1>1 DEF Alarmed, Stopped
<1>5. QED BY <1>2, <1>3, <1>4 DEF DogInv

(* A killer is queued only when it is due: a whole grace period late.       *)
LEMMA CollectStep ==
  ASSUME DogInv, NEW r \in Reactors, Collect(r)
  PROVE  DogInv'
<1> USE Timers
<1>1. /\ posted' = [posted EXCEPT ![r] = TRUE]
      /\ UNCHANGED <<stalled, stall, worst, heartbeat, killer, short, outcome>>
      /\ killer[r] = 0 /\ TypeOK /\ Alarmed
  BY DEF Collect, KillerDue, DogInv, stallVars
<1>2. TypeOK'
  BY <1>1 DEF TypeOK
<1>3. Stopped(r) \/ worst[r] >= Grace
  <2>1. KillerFollows(r) /\ heartbeat[r] \in Nat /\ worst[r] \in Nat
    BY <1>1 DEF DogInv, TypeOK
  <2>2. heartbeat[r] = 0
    BY <1>1, <2>1 DEF KillerFollows
  <2>3. QED BY <1>1, <2>1, <2>2 DEF KillerFollows
<1>4. ASSUME NEW q \in Reactors
      PROVE  KillerFollows(q)' /\ StallSeen(q)' /\ Stalls(q)'
  <2>1. KillerFollows(q) /\ StallSeen(q) /\ Stalls(q)
    BY DEF DogInv
  <2>2. posted'[q] => posted[q] \/ q = r
    BY <1>1 DEF TypeOK
  <2>3. QED
    BY <1>1, <1>3, <2>1, <2>2 DEF KillerFollows, StallSeen, Stalls, Stopped, Other
<1>5. Alarmed'
  BY <1>1 DEF Alarmed, Stopped
<1>6. QED BY <1>2, <1>4, <1>5 DEF DogInv

(* std::exit(11) is what a queued killer does, and nothing else.            *)
LEMMA KillStep ==
  ASSUME DogInv, NEW r \in Reactors, Kill(r)
  PROVE  DogInv'
<1>1. /\ outcome' = "exit11" /\ posted[r]
      /\ UNCHANGED <<stalled, stall, worst, heartbeat, killer, posted, short>>
      /\ TypeOK /\ KillerFollows(r)
  BY DEF Kill, KillDue, DogInv, stallVars, timerVars
<1>2. TypeOK'
  BY <1>1 DEF TypeOK
<1>3. Alarmed'
  BY <1>1 DEF Alarmed, KillerFollows, Stopped
<1>4. \A q \in Reactors : KillerFollows(q)' /\ StallSeen(q)' /\ Stalls(q)'
  BY <1>1 DEF DogInv, KillerFollows, StallSeen, Stalls, Stopped, Other
<1>5. QED BY <1>2, <1>3, <1>4 DEF DogInv

(* A handler begins only when no heartbeat is due.                          *)
LEMMA EnterStep ==
  ASSUME DogInv, NEW r \in Reactors, Enter(r)
  PROVE  DogInv'
<1>1. /\ stalled' = [stalled EXCEPT ![r] = TRUE]
      /\ UNCHANGED <<stall, worst, heartbeat, killer, posted, short, outcome>>
      /\ ~stalled[r] /\ heartbeat[r] # 0 /\ TypeOK /\ Alarmed
  BY DEF Enter, BeatDue, DogInv, timerVars
<1>2. TypeOK'
  BY <1>1 DEF TypeOK
<1>3. ASSUME NEW q \in Reactors
      PROVE  KillerFollows(q)' /\ StallSeen(q)' /\ Stalls(q)'
  <2>1. KillerFollows(q) /\ StallSeen(q) /\ Stalls(q)
    BY DEF DogInv
  <2>2. q # r => stalled'[q] = stalled[q]
    BY <1>1 DEF TypeOK
  <2>3. stall[r] = 0
    BY <1>1 DEF DogInv, Stalls
  <2>4. QED
    BY <1>1, <2>1, <2>2, <2>3 DEF KillerFollows, StallSeen, Stalls, Stopped, Other
<1>4. Alarmed'
  BY <1>1 DEF Alarmed, Stopped
<1>5. QED BY <1>2, <1>3, <1>4 DEF DogInv

(* A handler ends: the worst stall is remembered until the reactor beats.   *)
LEMMA LeaveStep ==
  ASSUME DogInv, NEW r \in Reactors, Leave(r)
  PROVE  DogInv'
<1> USE Timers
<1>1. /\ stalled' = [stalled EXCEPT ![r] = FALSE]
      /\ stall' = [stall EXCEPT ![r] = 0]
      /\ UNCHANGED <<worst, heartbeat, killer, posted, short, outcome>>
      /\ TypeOK /\ Alarmed
  BY DEF Leave, DogInv, timerVars
<1>2. TypeOK'
  BY <1>1 DEF TypeOK
<1>3. ASSUME NEW q \in Reactors
      PROVE  KillerFollows(q)' /\ StallSeen(q)' /\ Stalls(q)'
  <2>1. KillerFollows(q) /\ StallSeen(q) /\ Stalls(q)
    BY DEF DogInv
  <2>2. /\ q # r => stalled'[q] = stalled[q] /\ stall'[q] = stall[q]
        /\ q = r => ~stalled'[q] /\ stall'[q] = 0
    BY <1>1 DEF TypeOK
  <2>3. worst[q] \in Nat /\ killer[q] \in 0 .. KillAfter
    BY <1>1 DEF TypeOK
  <2>4. KillerFollows(q)'
    BY <1>1, <2>1, <2>2 DEF KillerFollows, Stopped
  <2>5. StallSeen(q)'
    BY <1>1, <2>1, <2>2, <2>3 DEF StallSeen, Other
  <2>6. Stalls(q)'
    BY <1>1, <2>1, <2>2, <2>3 DEF Stalls
  <2>7. QED BY <2>4, <2>5, <2>6
<1>4. Alarmed'
  BY <1>1 DEF Alarmed, Stopped
<1>5. QED BY <1>2, <1>3, <1>4 DEF DogInv

(* An exception stops the control reactor, or changes nothing a dog sees.   *)
LEMMA ThrowStep ==
  ASSUME DogInv, NEW r \in Reactors, Throw(r)
  PROVE  DogInv'
<1>1. /\ UNCHANGED <<stall, worst, heartbeat, killer, posted>>
      /\ ~stalled[r] /\ TypeOK /\ Alarmed /\ outcome = "run"
      /\ short \subseteq short' /\ short' \subseteq Reactors
  BY DEF Throw, DogInv, timerVars, Running, TypeOK
<1>2. outcome' \in {"run", "exit9"} /\ stalled' \in [Reactors -> BOOLEAN]
  BY <1>1 DEF Throw, TypeOK, Stops
<1>3. TypeOK'
  BY <1>1, <1>2 DEF TypeOK
<1>4. ASSUME NEW q \in Reactors
      PROVE  KillerFollows(q)' /\ StallSeen(q)' /\ Stalls(q)'
  <2>1. KillerFollows(q) /\ StallSeen(q) /\ Stalls(q) /\ stalled[q] \in BOOLEAN
    BY <1>1 DEF DogInv, TypeOK
  <2>2. Stopped(q) => Stopped(q)'
    BY <1>1 DEF Stopped
  <2>3. stalled'[q] = stalled[q] \/ Stopped(q)'
    BY <1>1, <2>1 DEF Throw, Stopped, Stops, TypeOK
  <2>4. stalled[q] => stalled'[q]
    BY <1>1, <2>1 DEF Throw, TypeOK
  <2>5. KillerFollows(q)'
    BY <1>1, <2>1, <2>2, <2>3 DEF KillerFollows
  <2>6. StallSeen(q)' /\ Stalls(q)'
    BY <1>1, <2>1, <2>4 DEF StallSeen, Stalls, Other
  <2>7. QED BY <2>5, <2>6
<1>5. Alarmed'
  BY <1>2 DEF Alarmed
<1>6. QED BY <1>3, <1>4, <1>5 DEF DogInv

(* The invariant holds when add_watchdog has set both pairs of timers.      *)
LEMMA DogInit ==
  ASSUME Init
  PROVE  DogInv
<1> USE Timers
<1>1. TypeOK /\ Alarmed
  BY DEF Init, TypeOK, Alarmed
<1>2. ASSUME NEW r \in Reactors PROVE KillerFollows(r) /\ StallSeen(r) /\ Stalls(r)
  BY DEF Init, KillerFollows, StallSeen, Stalls
<1>3. QED BY <1>1, <1>2 DEF DogInv

(* The timers, the stalls and the queued killers of the two dogs.           *)
THEOREM DogInvariance == Spec => []DogInv
<1>1. ASSUME DogInv, UNCHANGED vars PROVE DogInv'
  BY <1>1 DEF vars, stallVars, timerVars, DogInv, TypeOK, Alarmed, KillerFollows,
              StallSeen, Stalls, Stopped, Other
<1>2. ASSUME DogInv, [Next]_vars PROVE DogInv'
  BY <1>1, <1>2, BeatStep, CollectStep, KillStep, EnterStep, LeaveStep, ThrowStep,
     TickStep DEF Next, Terminated
<1>3. QED BY DogInit, <1>2, PTL DEF Spec

(* The timers stay within what beat() sets, and no heartbeat is due after   *)
(* its killer (exec.watchdog.cpp:33-53).                                    *)
THEOREM DogTyping == Spec => []TypeOK
<1>1. DogInv => TypeOK
  BY DEF DogInv
<1>2. QED BY DogInvariance, <1>1, PTL

(* Neither dog raises a false alarm: for any two timers, the helper is      *)
(* killed only when a reactor was stalled for all the time between its      *)
(* heartbeat and its killer, or stopped, however late heartbeats and        *)
(* killers that are already queued follow each other                        *)
(* (exec.watchdog.cpp:37-49).                                               *)
THEOREM NoDogBarksInVain == Spec => []NoFalseAlarm
<1>1. DogInv => NoFalseAlarm
  BY DEF DogInv, Alarmed, NoFalseAlarm, Grace
<1>2. QED BY DogInvariance, <1>1, PTL

(* A reactor that does not come back is noticed in KillAfter, as long as    *)
(* the reactor its killer waits on has never been held up.                  *)
THEOREM StallsNoticed == Spec => []Noticed
<1>1. ASSUME DogInv PROVE Noticed
  <2> SUFFICES ASSUME NEW r \in Reactors, worst[Other(r)] = 0
               PROVE  stall[r] <= KillAfter
    BY DEF Noticed
  <2>1. stall[r] + killer[r] <= KillAfter /\ killer[r] \in Nat /\ stall[r] \in Nat
    BY <1>1, Timers DEF DogInv, StallSeen, TypeOK
  <2>2. QED BY <2>1, Timers
<1>2. QED BY DogInvariance, <1>1, PTL
=============================================================================
