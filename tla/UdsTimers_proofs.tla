-------------------------- MODULE UdsTimers_proofs --------------------------
(***************************************************************************)
(* Proofs about UdsTimers, for every range of the clock, every length of a *)
(* turn and every delay that ClockConstants admits.                        *)
(***************************************************************************)
EXTENDS UdsTimers, TLAPS

----------------------------------------------------------------------------
(* The circle of the clock *)

\* The clock stands at now, k milliseconds after the tick t (before it, if k is negative).
Past(now, t, k) ==
  /\ now \in Ticks /\ t \in Ticks /\ k \in Int
  /\ now - t - k \in {0, Modulus, - Modulus}

LEMMA Clock ==
  /\ Modulus \in Nat \ {0} /\ Half \in Nat \ {0} /\ Modulus = 2 * Half
  /\ Steps \subseteq 1 .. P2 /\ Steps # {}
  /\ \A delay \in {P2, S3, PowerDown, BootDelay, FailDelay, RestartDelay} :
       /\ delay \in 0 .. Half - 1
       /\ \A step \in Steps : delay + step < Half
  /\ P2 <= PowerDown
<1>1. Modulus = 2 * Half /\ Half \in Nat
  BY ClockConstants DEF Half
<1>2. PICK step \in Steps : step \in 1 .. P2
  BY ClockConstants
<1>3. \A delay \in {P2, S3, PowerDown, BootDelay, FailDelay, RestartDelay} :
        delay \in Nat /\ \A s \in Steps : delay + s < Half
  BY ClockConstants
<1>4. \A delay \in {P2, S3, PowerDown, BootDelay, FailDelay, RestartDelay} :
        delay \in 0 .. Half - 1
  <2>1. ASSUME NEW delay \in {P2, S3, PowerDown, BootDelay, FailDelay, RestartDelay}
        PROVE  delay \in 0 .. Half - 1
    <3>1. delay \in Nat /\ delay + step < Half
      BY <1>3
    <3>2. step \in Int /\ 1 <= step
      BY <1>2
    <3> QED
      BY <1>1, <3>1, <3>2
  <2> QED
    BY <2>1
<1>5. P2 \in 0 .. Half - 1 /\ Modulus \in Nat \ {0} /\ Half \in Nat \ {0}
  BY <1>1, <1>4
<1> QED
  BY <1>1, <1>3, <1>4, <1>5, ClockConstants

LEMMA Modulo ==
  ASSUME NEW x \in Int
  PROVE  /\ 0 <= x /\ x < Modulus => x % Modulus = x
         /\ Modulus <= x /\ x < 2 * Modulus => x % Modulus = x - Modulus
         /\ - Modulus <= x /\ x < 0 => x % Modulus = x + Modulus
<1>1. Modulus \in Nat \ {0}
  BY Clock
<1>2. ASSUME 0 <= x, x < Modulus PROVE x % Modulus = x
  BY <1>1, <1>2
<1>3. ASSUME Modulus <= x, x < 2 * Modulus PROVE x % Modulus = x - Modulus
  BY <1>1, <1>3
<1>4. ASSUME - Modulus <= x, x < 0 PROVE x % Modulus = x + Modulus
  BY <1>1, <1>4
<1> QED
  BY <1>2, <1>3, <1>4

\* UDSTimeAfter sees the order of two ticks less than half the range apart.
LEMMA Ordered ==
  ASSUME NEW now, NEW t, NEW k, Past(now, t, k), - Half < k, k < Half
  PROVE  /\ UDSTimeAfter(now, t) <=> k > 0
         /\ TimeReached(now, t) <=> k >= 0
<1>1. /\ Modulus = 2 * Half /\ Half \in Nat \ {0}
      /\ now \in 0 .. Modulus - 1 /\ t \in 0 .. Modulus - 1 /\ k \in Int
      /\ now - t - k \in {0, Modulus, - Modulus}
  BY Clock DEF Past, Ticks
<1>2. (now - t) % Modulus = IF now >= t THEN now - t ELSE now - t + Modulus
  BY <1>1, Modulo
<1> QED
  BY <1>1, <1>2 DEF UDSTimeAfter, TimeReached

\* A timer is as far ahead as its delay.
LEMMA SetAhead ==
  ASSUME NEW now \in Ticks, NEW delay \in 0 .. Half - 1
  PROVE  In(delay, now) \in Ticks /\ Past(now, In(delay, now), - delay)
<1>1. Modulus = 2 * Half /\ Half \in Nat \ {0} /\ now \in 0 .. Modulus - 1
  BY Clock DEF Ticks
<1>2. In(delay, now) = IF now + delay < Modulus THEN now + delay ELSE now + delay - Modulus
  BY <1>1, Modulo DEF In
<1> QED
  BY <1>1, <1>2 DEF Past, Ticks

\* The clock goes on, and is as much later than any tick.
LEMMA GoesOn ==
  ASSUME NEW now \in Ticks, NEW step \in Steps
  PROVE  /\ In(step, now) \in Ticks
         /\ \A t, k : Past(now, t, k) /\ - Half < k /\ k + step < Half
                        => Past(In(step, now), t, k + step)
<1>1. /\ Modulus = 2 * Half /\ Half \in Nat \ {0} /\ now \in 0 .. Modulus - 1
      /\ step \in Nat /\ step < Half
  BY Clock DEF Ticks
<1>2. In(step, now) = IF now + step < Modulus THEN now + step ELSE now + step - Modulus
  BY <1>1, Modulo DEF In
<1>3. ASSUME NEW t, NEW k, Past(now, t, k), - Half < k, k + step < Half
      PROVE  Past(In(step, now), t, k + step)
  BY <1>1, <1>2, <1>3 DEF Past, Ticks
<1> QED
  BY <1>1, <1>2, <1>3 DEF Ticks

LEMMA Ages ==
  ASSUME NEW age \in 0 .. Horizon, NEW step \in Steps
  PROVE  /\ Later(age, step) \in 0 .. Horizon
         /\ age + step < Half => Later(age, step) = age + step
         /\ age + step >= Half => Later(age, step) = Half
BY Clock DEF Later, Horizon

----------------------------------------------------------------------------
(* The invariant: what each timer says of the history it stands for *)

ServerRecords ==
  [sessionType : {"DS", "PRGS"}, requestInProgress : BOOLEAN,
   notReadyToReceive : BOOLEAN, p2 : Ticks, s3 : Timers, ecuReset : Timers,
   bootDelay : Ticks, authFail : Ticks]

\* S3 runs since the session was last kept alive.
SessionTimer ==
  server.sessionType = "PRGS" => quiet <= S3 /\ Past(tick, server.s3, quiet - S3)

\* The delay runs since a key was refused.
KeyTimer == sinceKey <= FailDelay => Past(tick, server.authFail, sinceKey - FailDelay)

\* P2 runs since the last answer, and a request came later than that.
AnswerTimer ==
  /\ idle < Half => Past(tick, server.p2, idle - P2)
  /\ server.requestInProgress => waited <= idle
  /\ server.requestInProgress /\ idle < Half => waited < idle

\* The power-down time runs since the reset was accepted, and nothing is heard any more.
ResetTimer ==
  /\ server.ecuReset # Off => server.notReadyToReceive
  /\ server.ecuReset # Off /\ server.requestInProgress =>
       waited <= PowerDown /\ Past(tick, server.ecuReset, waited - PowerDown)

TimerInv == TypeOK /\ SessionTimer /\ KeyTimer /\ AnswerTimer /\ ResetTimer

----------------------------------------------------------------------------
(* What UDSServerPoll does to the record of the server *)

LEMMA SessionTimeoutFields ==
  ASSUME NEW s \in ServerRecords, NEW now \in Ticks
  PROVE  LET e == AfterSessionTimeout(s, now)
         IN  /\ e \in ServerRecords
             /\ e.sessionType = IF SessionExpired(s, now) THEN "DS" ELSE s.sessionType
             /\ e.s3 = IF SessionExpired(s, now) THEN Off ELSE s.s3
             /\ e.requestInProgress = s.requestInProgress
             /\ e.notReadyToReceive = s.notReadyToReceive
             /\ e.p2 = s.p2 /\ e.ecuReset = s.ecuReset
             /\ e.bootDelay = s.bootDelay /\ e.authFail = s.authFail
<1> DEFINE t == [s EXCEPT !.sessionType = "DS"]
           u == [t EXCEPT !.s3 = Off]
<1>1. Off \in Timers
  BY DEF Timers
<1>2. /\ t \in ServerRecords /\ t.sessionType = "DS"
      /\ t.requestInProgress = s.requestInProgress
      /\ t.notReadyToReceive = s.notReadyToReceive
      /\ t.p2 = s.p2 /\ t.ecuReset = s.ecuReset
      /\ t.bootDelay = s.bootDelay /\ t.authFail = s.authFail
  BY DEF ServerRecords
<1>3. AfterSessionTimeout(s, now) = IF SessionExpired(s, now) THEN u ELSE s
  BY DEF AfterSessionTimeout
<1> HIDE DEF t
<1>4. /\ u \in ServerRecords /\ u.s3 = Off /\ u.sessionType = t.sessionType
      /\ u.requestInProgress = t.requestInProgress
      /\ u.notReadyToReceive = t.notReadyToReceive
      /\ u.p2 = t.p2 /\ u.ecuReset = t.ecuReset
      /\ u.bootDelay = t.bootDelay /\ u.authFail = t.authFail
  BY <1>1, <1>2 DEF ServerRecords
<1> HIDE DEF u
<1>5. CASE SessionExpired(s, now)
  BY <1>2, <1>3, <1>4, <1>5
<1>6. CASE ~ SessionExpired(s, now)
  BY <1>3, <1>6
<1> QED
  BY <1>5, <1>6

LEMMA ExpiredFields ==
  ASSUME server \in ServerRecords, NEW now \in Ticks
  PROVE  LET e == Expired(now)
         IN  /\ e \in ServerRecords
             /\ e.sessionType = IF SessionExpired(server, now) THEN "DS" ELSE server.sessionType
             /\ e.s3 = IF SessionExpired(server, now) THEN Off ELSE server.s3
             /\ e.ecuReset = IF ResetIsDue(server, now) THEN Off ELSE server.ecuReset
             /\ e.requestInProgress = server.requestInProgress
             /\ e.notReadyToReceive = server.notReadyToReceive
             /\ e.p2 = server.p2
             /\ e.bootDelay = server.bootDelay /\ e.authFail = server.authFail
<1> DEFINE s == AfterSessionTimeout(server, now)
           t == [s EXCEPT !.ecuReset = Off]
<1>1. Off \in Timers
  BY DEF Timers
<1>2. /\ s \in ServerRecords
      /\ s.sessionType = IF SessionExpired(server, now) THEN "DS" ELSE server.sessionType
      /\ s.s3 = IF SessionExpired(server, now) THEN Off ELSE server.s3
      /\ s.requestInProgress = server.requestInProgress
      /\ s.notReadyToReceive = server.notReadyToReceive
      /\ s.p2 = server.p2 /\ s.ecuReset = server.ecuReset
      /\ s.bootDelay = server.bootDelay /\ s.authFail = server.authFail
  BY SessionTimeoutFields
<1>3. Expired(now) = IF ResetIsDue(s, now) THEN t ELSE s
  BY DEF Expired, AfterScheduledReset
<1>4. ResetIsDue(s, now) <=> ResetIsDue(server, now)
  BY <1>2 DEF ResetIsDue
<1> HIDE DEF s
<1>5. /\ t \in ServerRecords /\ t.ecuReset = Off
      /\ t.sessionType = s.sessionType /\ t.s3 = s.s3
      /\ t.requestInProgress = s.requestInProgress
      /\ t.notReadyToReceive = s.notReadyToReceive
      /\ t.p2 = s.p2 /\ t.bootDelay = s.bootDelay /\ t.authFail = s.authFail
  BY <1>1, <1>2 DEF ServerRecords
<1> HIDE DEF t
<1>6. CASE ResetIsDue(server, now)
  BY <1>2, <1>3, <1>4, <1>5, <1>6
<1>7. CASE ~ ResetIsDue(server, now)
  BY <1>2, <1>3, <1>4, <1>7
<1> QED
  BY <1>6, <1>7

----------------------------------------------------------------------------
(* What a turn finds, timer by timer *)

LEMMA Types ==
  ASSUME TimerInv
  PROVE  /\ tick \in Ticks /\ server \in ServerRecords
         /\ quiet \in 0 .. Horizon /\ waited \in 0 .. Horizon
         /\ idle \in 0 .. Horizon /\ sinceKey \in 0 .. Horizon
BY DEF TimerInv, TypeOK, ServerRecords

\* S3 has passed exactly when the session was left alone for longer.
LEMMA SessionRuns ==
  ASSUME TimerInv, NEW step \in Steps, Turn(step)
  PROVE  /\ SessionExpired(server, tick') <=> server.sessionType = "PRGS" /\ quiet + step > S3
         /\ server.sessionType = "PRGS" /\ quiet + step <= S3 =>
              Past(tick', server.s3, quiet + step - S3) /\ Later(quiet, step) = quiet + step
<1>1. tick' = In(step, tick) /\ tick \in Ticks /\ quiet \in 0 .. Horizon
      /\ server.sessionType \in {"DS", "PRGS"}
  BY Types DEF Turn, ServerRecords
<1>2. S3 \in 0 .. Half - 1 /\ S3 + step < Half /\ step \in Nat /\ Half \in Nat /\ step > 0
  BY Clock
<1>3. CASE server.sessionType = "DS"
  BY <1>3 DEF SessionExpired
<1>4. CASE server.sessionType = "PRGS"
  <2>1. quiet <= S3 /\ Past(tick, server.s3, quiet - S3) /\ quiet \in Nat
    BY <1>1, <1>4 DEF TimerInv, SessionTimer, Horizon
  <2> DEFINE k == quiet - S3
  <2>2. - Half < k /\ k + step < Half /\ k + step = quiet + step - S3 /\ - Half < k + step
    BY <1>2, <2>1
  <2>3. Past(tick', server.s3, k + step)
    BY <1>1, <2>1, <2>2, GoesOn
  <2> HIDE DEF k
  <2>4. UDSTimeAfter(tick', server.s3) <=> k + step > 0
    BY <2>2, <2>3, Ordered
  <2>5. Past(tick', server.s3, quiet + step - S3)
    BY <2>2, <2>3
  <2>6. UDSTimeAfter(tick', server.s3) <=> quiet + step > S3
    BY <1>2, <2>1, <2>2, <2>4
  <2>7. quiet + step < Half => Later(quiet, step) = quiet + step
    BY <1>1, Ages
  <2> QED
    BY <1>2, <1>4, <2>1, <2>5, <2>6, <2>7 DEF SessionExpired
<1> QED
  BY <1>1, <1>3, <1>4

\* While a refused key is younger than its delay, no key is heard.
LEMMA KeyRuns ==
  ASSUME TimerInv, NEW step \in Steps, Turn(step)
  PROVE  sinceKey + step <= FailDelay =>
           /\ Past(tick', server.authFail, sinceKey + step - FailDelay)
           /\ Later(sinceKey, step) = sinceKey + step
           /\ ~ UDSTimeAfter(tick', server.authFail)
<1> SUFFICES ASSUME sinceKey + step <= FailDelay
             PROVE  /\ Past(tick', server.authFail, sinceKey + step - FailDelay)
                    /\ Later(sinceKey, step) = sinceKey + step
                    /\ ~ UDSTimeAfter(tick', server.authFail)
  OBVIOUS
<1>1. tick' = In(step, tick) /\ tick \in Ticks /\ sinceKey \in 0 .. Horizon
  BY Types DEF Turn
<1>2. /\ FailDelay \in 0 .. Half - 1 /\ FailDelay + step < Half
      /\ step \in Nat /\ Half \in Nat /\ step > 0
  BY Clock
<1>3. sinceKey <= FailDelay /\ sinceKey \in Nat
  BY <1>1, <1>2 DEF Horizon
<1>4. Past(tick, server.authFail, sinceKey - FailDelay)
  BY <1>3 DEF TimerInv, KeyTimer
<1> DEFINE k == sinceKey - FailDelay
<1>5. - Half < k /\ k + step < Half /\ k + step = sinceKey + step - FailDelay
      /\ - Half < k + step /\ k + step <= 0 /\ k + step \in Int
  BY <1>2, <1>3
<1>6. Past(tick', server.authFail, k + step)
  BY <1>1, <1>4, <1>5, GoesOn
<1> HIDE DEF k
<1>7. ~ UDSTimeAfter(tick', server.authFail)
  BY <1>5, <1>6, Ordered
<1>8. Later(sinceKey, step) = sinceKey + step
  BY <1>1, <1>2, <1>3, Ages
<1> QED
  BY <1>5, <1>6, <1>7, <1>8

\* Once authFail has passed the delay is over.
LEMMA KeyDelayOver ==
  ASSUME TimerInv, NEW step \in Steps, Turn(step), UDSTimeAfter(tick', server.authFail)
  PROVE  sinceKey + step > FailDelay
<1>1. ~ sinceKey + step <= FailDelay
  BY KeyRuns
<1>2. sinceKey \in Nat /\ step \in Nat /\ FailDelay \in Nat
  BY Types, Clock DEF Horizon
<1> QED
  BY <1>1, <1>2

\* P2 has passed exactly when the last answer is that long ago, up to half the range of the clock.
LEMMA AnswerRuns ==
  ASSUME TimerInv, NEW step \in Steps, Turn(step), idle < Half
  PROVE  /\ UDSTimeAfter(tick', server.p2) <=> idle + step > P2
         /\ idle + step < Half =>
              Past(tick', server.p2, idle + step - P2) /\ Later(idle, step) = idle + step
<1>1. tick' = In(step, tick) /\ tick \in Ticks /\ idle \in 0 .. Horizon
  BY Types DEF Turn
<1>2. P2 \in 0 .. Half - 1 /\ step \in 1 .. P2 /\ Half \in Nat
  BY Clock
<1>3. Past(tick, server.p2, idle - P2) /\ idle \in Nat
  BY <1>1, <1>2 DEF TimerInv, AnswerTimer, Horizon
<1> DEFINE k == idle - P2
<1>4. /\ - Half < k /\ k + step < Half /\ k + step = idle + step - P2
      /\ - Half < k + step
  BY <1>2, <1>3
<1>5. Past(tick', server.p2, k + step)
  BY <1>1, <1>3, <1>4, GoesOn
<1> HIDE DEF k
<1>6. UDSTimeAfter(tick', server.p2) <=> k + step > 0
  BY <1>4, <1>5, Ordered
<1>7. UDSTimeAfter(tick', server.p2) <=> idle + step > P2
  BY <1>2, <1>3, <1>4, <1>6
<1>8. idle + step < Half => Later(idle, step) = idle + step
  BY <1>1, Ages
<1> QED
  BY <1>4, <1>5, <1>7, <1>8

\* The power-down time has passed exactly when the request waited longer than that.
LEMMA ResetRuns ==
  ASSUME TimerInv, NEW step \in Steps, Turn(step),
         server.ecuReset # Off, server.requestInProgress
  PROVE  /\ ResetIsDue(server, tick') <=> waited + step > PowerDown
         /\ Past(tick', server.ecuReset, waited + step - PowerDown)
         /\ Later(waited, step) = waited + step
<1>1. tick' = In(step, tick) /\ tick \in Ticks /\ waited \in 0 .. Horizon
  BY Types DEF Turn
<1>2. /\ PowerDown \in 0 .. Half - 1 /\ PowerDown + step < Half
      /\ step \in Nat /\ Half \in Nat /\ step > 0
  BY Clock
<1>3. /\ waited <= PowerDown /\ Past(tick, server.ecuReset, waited - PowerDown)
      /\ waited \in Nat
  BY <1>1 DEF TimerInv, ResetTimer, Horizon
<1> DEFINE k == waited - PowerDown
<1>4. /\ - Half < k /\ k + step < Half /\ k + step = waited + step - PowerDown
      /\ - Half < k + step
  BY <1>2, <1>3
<1>5. Past(tick', server.ecuReset, k + step)
  BY <1>1, <1>3, <1>4, GoesOn
<1> HIDE DEF k
<1>6. UDSTimeAfter(tick', server.ecuReset) <=> k + step > 0
  BY <1>4, <1>5, Ordered
<1>7. UDSTimeAfter(tick', server.ecuReset) <=> waited + step > PowerDown
  BY <1>2, <1>3, <1>4, <1>6
<1>8. Later(waited, step) = waited + step
  BY <1>1, <1>2, <1>3, Ages
<1> QED
  BY <1>4, <1>5, <1>7, <1>8 DEF ResetIsDue

----------------------------------------------------------------------------
(* A timer that a turn leaves running *)

LEMMA SessionKept ==
  ASSUME TimerInv, NEW step \in Steps, Turn(step), quiet' = Later(quiet, step),
         \/ server'.sessionType = "DS"
         \/ /\ server'.sessionType = Expired(tick').sessionType
            /\ server'.s3 = Expired(tick').s3
  PROVE  SessionTimer'
<1>1. SUFFICES ASSUME server'.sessionType = "PRGS"
               PROVE  quiet' <= S3 /\ Past(tick', server'.s3, quiet' - S3)
  BY DEF SessionTimer
<1>2. server \in ServerRecords /\ tick' \in Ticks /\ quiet \in 0 .. Horizon
  BY Types, GoesOn DEF Turn
<1>3. server'.sessionType = Expired(tick').sessionType /\ server'.s3 = Expired(tick').s3
  BY <1>1
<1>4. ~ SessionExpired(server, tick') /\ server.sessionType = "PRGS" /\ server'.s3 = server.s3
  BY <1>1, <1>2, <1>3, ExpiredFields
<1>5. ~ quiet + step > S3
  BY <1>4, SessionRuns
<1>6. quiet + step <= S3
  BY <1>2, <1>5, Clock DEF Horizon
<1>7. Past(tick', server.s3, quiet + step - S3) /\ quiet' = quiet + step
  BY <1>4, <1>6, SessionRuns
<1>8. quiet' - S3 = quiet + step - S3
  BY <1>2, <1>7, Clock DEF Horizon
<1> QED
  BY <1>4, <1>6, <1>7, <1>8

LEMMA KeyKept ==
  ASSUME TimerInv, NEW step \in Steps, Turn(step), sinceKey' = Later(sinceKey, step),
         server'.authFail = server.authFail
  PROVE  KeyTimer'
<1>1. SUFFICES ASSUME sinceKey' <= FailDelay
               PROVE  Past(tick', server'.authFail, sinceKey' - FailDelay)
  BY DEF KeyTimer
<1>2. sinceKey \in 0 .. Horizon /\ step \in Nat /\ FailDelay \in 0 .. Half - 1 /\ Half \in Nat
  BY Types, Clock
<1>3. sinceKey + step <= FailDelay
  BY <1>1, <1>2, Ages DEF Horizon
<1>4. Past(tick', server.authFail, sinceKey + step - FailDelay)
        /\ sinceKey' = sinceKey + step
  BY <1>3, KeyRuns
<1>5. sinceKey' - FailDelay = sinceKey + step - FailDelay
  BY <1>2, <1>4 DEF Horizon
<1> QED
  BY <1>2, <1>4, <1>5

\* The P2 timer alone.
LEMMA AnswerKept ==
  ASSUME TimerInv, NEW step \in Steps, Turn(step), idle' = Later(idle, step),
         server'.p2 = server.p2
  PROVE  idle' < Half => Past(tick', server'.p2, idle' - P2)
<1>1. SUFFICES ASSUME idle' < Half PROVE Past(tick', server'.p2, idle' - P2)
  OBVIOUS
<1>2. idle \in 0 .. Horizon /\ step \in Nat /\ Half \in Nat
  BY Types, Clock
<1>3. idle + step < Half /\ idle < Half
  BY <1>1, <1>2, Ages DEF Horizon
<1>4. Past(tick', server.p2, idle + step - P2) /\ idle' = idle + step
  BY <1>3, AnswerRuns
<1>5. idle' - P2 = idle + step - P2
  BY <1>2, <1>4, Clock DEF Horizon
<1> QED
  BY <1>2, <1>4, <1>5

LEMMA TurnTypes ==
  ASSUME TimerInv, NEW step \in Steps, Turn(step)
  PROVE  /\ tick' \in Ticks /\ resetDue' \in Timers
         /\ Expired(tick') \in ServerRecords
         /\ \A age \in {quiet, waited, idle, sinceKey} : Later(age, step) \in 0 .. Horizon
<1>1. tick' \in Ticks /\ server \in ServerRecords
  BY Types, GoesOn DEF Turn
<1>2. RestartDelay \in 0 .. Half - 1 /\ resetDue \in Timers
  BY Clock DEF TimerInv, TypeOK
<1>3. In(RestartDelay, tick') \in Timers
  BY <1>1, <1>2, SetAhead DEF Timers
<1>4. resetDue' \in Timers
  BY <1>2, <1>3 DEF Turn, TakeReset
<1>5. \A age \in {quiet, waited, idle, sinceKey} : Later(age, step) \in 0 .. Horizon
  BY Types, Ages
<1> QED
  BY <1>1, <1>4, <1>5, ExpiredFields

\* A reset that is still to come keeps the server deaf.
LEMMA StaysDeaf ==
  ASSUME TimerInv, NEW step \in Steps, Turn(step), Expired(tick').ecuReset # Off
  PROVE  /\ Expired(tick').notReadyToReceive /\ server.notReadyToReceive
         /\ server.ecuReset # Off /\ ~ ResetIsDue(server, tick')
         /\ Expired(tick').ecuReset = server.ecuReset
<1>1. server \in ServerRecords /\ tick' \in Ticks
  BY Types, TurnTypes
<1>2. /\ server.ecuReset # Off /\ ~ ResetIsDue(server, tick')
      /\ Expired(tick').ecuReset = server.ecuReset
  BY <1>1, ExpiredFields
<1>3. server.notReadyToReceive
  BY <1>2 DEF TimerInv, ResetTimer
<1>4. Expired(tick').notReadyToReceive = server.notReadyToReceive
  BY <1>1, ExpiredFields
<1> QED
  BY <1>2, <1>3, <1>4, Zenon

----------------------------------------------------------------------------
(* The steps *)

LEMMA AnswerInv ==
  ASSUME TimerInv, NEW step \in Steps, Answer(step)
  PROVE  TimerInv'
<1> DEFINE e == Expired(tick')
           s == [e EXCEPT !.requestInProgress = FALSE]
<1>1. /\ Turn(step) /\ server' = [s EXCEPT !.p2 = In(P2, tick')]
      /\ idle' = 0 /\ waited' = 0
      /\ quiet' = Later(quiet, step) /\ sinceKey' = Later(sinceKey, step)
  BY DEF Answer
<1>2. tick' \in Ticks /\ e \in ServerRecords /\ server \in ServerRecords
  BY <1>1, TurnTypes, Types
<1>3. In(P2, tick') \in Ticks /\ Past(tick', In(P2, tick'), - P2)
  BY <1>2, SetAhead, Clock
<1>4. /\ e.authFail = server.authFail
      /\ e.ecuReset # Off => e.notReadyToReceive
  BY <1>1, <1>2, ExpiredFields, StaysDeaf
<1> HIDE DEF e
<1>5. /\ s \in ServerRecords /\ s.requestInProgress = FALSE
      /\ s.sessionType = e.sessionType /\ s.s3 = e.s3 /\ s.authFail = e.authFail
      /\ s.ecuReset = e.ecuReset /\ s.notReadyToReceive = e.notReadyToReceive
  BY <1>2 DEF ServerRecords
<1> HIDE DEF s
<1>6. /\ server' \in ServerRecords /\ server'.p2 = In(P2, tick')
      /\ server'.requestInProgress = s.requestInProgress
      /\ server'.sessionType = s.sessionType /\ server'.s3 = s.s3
      /\ server'.authFail = s.authFail /\ server'.ecuReset = s.ecuReset
      /\ server'.notReadyToReceive = s.notReadyToReceive
  BY <1>1, <1>3, <1>5 DEF ServerRecords
<1>7. TypeOK'
  BY <1>1, <1>6, TurnTypes, Types, Clock DEF TypeOK, ServerRecords, Horizon
<1>8. SessionTimer'
  BY <1>1, <1>5, <1>6, SessionKept DEF e
<1>9. KeyTimer'
  BY <1>1, <1>4, <1>5, <1>6, KeyKept
<1>10. AnswerTimer'
  <2>1. idle' - P2 = - P2
    BY <1>1, Clock
  <2>2. Past(tick', server'.p2, idle' - P2)
    BY <1>3, <1>6, <2>1
  <2> QED
    BY <1>5, <1>6, <2>2 DEF AnswerTimer
<1>11. ResetTimer'
  BY <1>4, <1>5, <1>6 DEF ResetTimer
<1> QED
  BY <1>7, <1>8, <1>9, <1>10, <1>11 DEF TimerInv

LEMMA WaitInv ==
  ASSUME TimerInv, NEW step \in Steps, Wait(step)
  PROVE  TimerInv'
<1>1. /\ Turn(step) /\ server' = Expired(tick')
      /\ server.requestInProgress /\ ~ UDSTimeAfter(tick', server.p2)
      /\ waited' = Later(waited, step) /\ idle' = Later(idle, step)
      /\ quiet' = Later(quiet, step) /\ sinceKey' = Later(sinceKey, step)
  BY DEF Wait
<1>2. /\ tick' \in Ticks /\ server' \in ServerRecords /\ server \in ServerRecords
      /\ waited \in Nat /\ idle \in Nat /\ waited \in 0 .. Horizon /\ idle \in 0 .. Horizon
  BY <1>1, TurnTypes, Types, Clock DEF Horizon
<1>3. /\ server'.authFail = server.authFail /\ server'.p2 = server.p2
      /\ server'.requestInProgress = server.requestInProgress
  BY <1>1, <1>2, ExpiredFields
<1>4. step \in Nat /\ Half \in Nat /\ P2 \in Nat
  BY Clock
<1>5. waited <= idle /\ (idle < Half => waited < idle)
  BY <1>1 DEF TimerInv, AnswerTimer
<1>6. TypeOK'
  BY <1>1, <1>2, TurnTypes DEF TypeOK, ServerRecords
<1>7. SessionTimer'
  BY <1>1, SessionKept
<1>8. KeyTimer'
  BY <1>1, <1>3, KeyKept
<1>9. waited' <= idle' /\ (idle' < Half => waited' < idle')
  BY <1>1, <1>2, <1>4, <1>5 DEF Later, Horizon
<1>10. AnswerTimer'
  <2>1. idle' < Half => Past(tick', server'.p2, idle' - P2)
    BY <1>1, <1>3, AnswerKept
  <2> QED
    BY <1>9, <2>1 DEF AnswerTimer
<1>11. ResetTimer'
  <2>1. SUFFICES ASSUME server'.ecuReset # Off
                 PROVE  /\ server'.notReadyToReceive
                        /\ waited' <= PowerDown
                        /\ Past(tick', server'.ecuReset, waited' - PowerDown)
    BY DEF ResetTimer
  <2>2. /\ server'.notReadyToReceive /\ server.ecuReset # Off
        /\ ~ ResetIsDue(server, tick') /\ server'.ecuReset = server.ecuReset
    BY <1>1, <2>1, StaysDeaf
  <2>3. /\ ~ waited + step > PowerDown /\ waited' = waited + step
        /\ Past(tick', server.ecuReset, waited + step - PowerDown)
    BY <1>1, <2>2, ResetRuns
  <2>4. waited' <= PowerDown /\ waited' - PowerDown = waited + step - PowerDown
    BY <1>2, <1>4, <2>3, Clock
  <2> QED
    BY <2>2, <2>3, <2>4
<1> QED
  BY <1>6, <1>7, <1>8, <1>10, <1>11 DEF TimerInv

LEMMA RestInv ==
  ASSUME TimerInv, NEW step \in Steps, Rest(step)
  PROVE  TimerInv'
<1>1. /\ Turn(step) /\ server' = Expired(tick') /\ ~ server.requestInProgress
      /\ waited' = 0 /\ idle' = Later(idle, step)
      /\ quiet' = Later(quiet, step) /\ sinceKey' = Later(sinceKey, step)
  BY DEF Rest
<1>2. tick' \in Ticks /\ server' \in ServerRecords /\ server \in ServerRecords
  BY <1>1, TurnTypes, Types
<1>3. /\ server'.authFail = server.authFail /\ server'.p2 = server.p2
      /\ server'.requestInProgress = server.requestInProgress
  BY <1>1, <1>2, ExpiredFields
<1>4. ~ server'.requestInProgress
  BY <1>1, <1>3, Zenon
<1>5. TypeOK'
  BY <1>1, <1>2, TurnTypes, Clock DEF TypeOK, ServerRecords, Horizon
<1>6. SessionTimer'
  BY <1>1, SessionKept
<1>7. KeyTimer'
  BY <1>1, <1>3, KeyKept
<1>8. AnswerTimer'
  <2>1. idle' < Half => Past(tick', server'.p2, idle' - P2)
    BY <1>1, <1>3, AnswerKept
  <2> QED
    BY <1>4, <2>1 DEF AnswerTimer
<1>9. ResetTimer'
  <2>1. server'.ecuReset # Off => server'.notReadyToReceive
    BY <1>1, StaysDeaf, Zenon
  <2> QED
    BY <1>4, <2>1 DEF ResetTimer
<1> QED
  BY <1>5, <1>6, <1>7, <1>8, <1>9 DEF TimerInv

\* What a request does to the record of the server.
LEMMA Noted ==
  ASSUME NEW t \in ServerRecords
  PROVE  LET e == [t EXCEPT !.requestInProgress = TRUE]
         IN  /\ e \in ServerRecords /\ e.requestInProgress
             /\ e.sessionType = t.sessionType /\ e.s3 = t.s3 /\ e.authFail = t.authFail
             /\ e.ecuReset = t.ecuReset /\ e.notReadyToReceive = t.notReadyToReceive
             /\ e.p2 = t.p2
BY DEF ServerRecords

LEMMA ServedFields ==
  ASSUME TimerInv, NEW step \in Steps, NEW request \in Requests, Receive(step, request)
  PROVE  /\ server' \in ServerRecords
         /\ \/ server'.sessionType = "DS"
            \/ request \in {"PRGS", "present"} /\ server'.s3 = In(S3, tick')
            \/ /\ request \notin {"PRGS", "present"}
               /\ server'.sessionType = Expired(tick').sessionType
               /\ server'.s3 = Expired(tick').s3
         /\ request = "badKey" => server'.authFail = In(FailDelay, tick')
         /\ request # "badKey" => server'.authFail = Expired(tick').authFail
         /\ \/ server'.ecuReset = Expired(tick').ecuReset
            \/ server'.ecuReset = In(PowerDown, tick') /\ server'.notReadyToReceive
         /\ server'.p2 = Expired(tick').p2
<1> DEFINE s == Expired(tick')
<1>0. server' = Served(s, request, tick') /\ s \in ServerRecords /\ tick' \in Ticks
  BY TurnTypes DEF Receive
<1>1. In(S3, tick') \in Ticks /\ In(PowerDown, tick') \in Ticks /\ In(FailDelay, tick') \in Ticks
  BY <1>0, SetAhead, Clock
<1>2. Ticks \subseteq Timers /\ Off \in Timers
  BY DEF Timers
<1> HIDE DEF s
<1> DEFINE ds == [s EXCEPT !.sessionType = "DS"]
           prgs == [s EXCEPT !.sessionType = "PRGS"]
           alive == [s EXCEPT !.s3 = In(S3, tick')]
           deaf == [s EXCEPT !.notReadyToReceive = TRUE]
           failed == [s EXCEPT !.authFail = In(FailDelay, tick')]
<1>3. CASE request = "DS"
  <2> DEFINE t == [ds EXCEPT !.s3 = Off]
  <2>1. ds \in ServerRecords /\ ds.sessionType = "DS" /\ ds.authFail = s.authFail
          /\ ds.ecuReset = s.ecuReset /\ ds.notReadyToReceive = s.notReadyToReceive
          /\ ds.p2 = s.p2
    BY <1>0 DEF ServerRecords
  <2>2. server' = [t EXCEPT !.requestInProgress = TRUE]
    BY <1>0, <1>3 DEF Served
  <2> HIDE DEF ds
  <2>3. t \in ServerRecords /\ t.sessionType = ds.sessionType /\ t.authFail = ds.authFail
          /\ t.ecuReset = ds.ecuReset /\ t.notReadyToReceive = ds.notReadyToReceive
          /\ t.p2 = ds.p2
    BY <1>2, <2>1 DEF ServerRecords
  <2> HIDE DEF t
  <2>4. server' \in ServerRecords
    BY <2>2, <2>3, Noted, Zenon
  <2>5. server'.sessionType = "DS" /\ server'.authFail = s.authFail /\ server'.ecuReset = s.ecuReset
          /\ server'.p2 = s.p2
    BY <2>1, <2>2, <2>3, Noted, Zenon
  <2> QED
    BY <1>3, <2>4, <2>5 DEF s
<1>4. CASE request = "PRGS"
  <2> DEFINE t == [prgs EXCEPT !.s3 = In(S3, tick')]
  <2>1. prgs \in ServerRecords /\ prgs.authFail = s.authFail
          /\ prgs.ecuReset = s.ecuReset /\ prgs.notReadyToReceive = s.notReadyToReceive
          /\ prgs.p2 = s.p2
    BY <1>0 DEF ServerRecords
  <2>2. server' = [t EXCEPT !.requestInProgress = TRUE]
    BY <1>0, <1>4 DEF Served
  <2> HIDE DEF prgs
  <2>3. t \in ServerRecords /\ t.s3 = In(S3, tick') /\ t.authFail = prgs.authFail
          /\ t.ecuReset = prgs.ecuReset /\ t.notReadyToReceive = prgs.notReadyToReceive
          /\ t.p2 = prgs.p2
    BY <1>1, <1>2, <2>1 DEF ServerRecords
  <2> HIDE DEF t
  <2>4. server' \in ServerRecords
    BY <2>2, <2>3, Noted, Zenon
  <2>5. server'.s3 = In(S3, tick') /\ server'.authFail = s.authFail /\ server'.ecuReset = s.ecuReset
          /\ server'.p2 = s.p2
    BY <2>1, <2>2, <2>3, Noted, Zenon
  <2> QED
    BY <1>4, <2>4, <2>5 DEF s
<1>5. CASE request = "present" /\ s.sessionType # "DS"
  <2>1. server' = [alive EXCEPT !.requestInProgress = TRUE]
    BY <1>0, <1>5 DEF Served, TesterPresent
  <2>2. alive \in ServerRecords /\ alive.s3 = In(S3, tick') /\ alive.authFail = s.authFail
          /\ alive.ecuReset = s.ecuReset /\ alive.notReadyToReceive = s.notReadyToReceive
          /\ alive.p2 = s.p2
    BY <1>0, <1>1, <1>2 DEF ServerRecords
  <2> HIDE DEF alive
  <2>3. server' \in ServerRecords
    BY <2>1, <2>2, Noted, Zenon
  <2>4. server'.s3 = In(S3, tick') /\ server'.authFail = s.authFail /\ server'.ecuReset = s.ecuReset
          /\ server'.p2 = s.p2
    BY <2>1, <2>2, Noted, Zenon
  <2> QED
    BY <1>5, <2>3, <2>4 DEF s
<1>6. CASE request = "other" \/ (request = "present" /\ s.sessionType = "DS")
  <2>1. server' = [s EXCEPT !.requestInProgress = TRUE]
    BY <1>0, <1>6 DEF Served, TesterPresent
  <2>2. server' \in ServerRecords
    BY <1>0, <2>1, Noted, Zenon
  <2>3. server'.sessionType = s.sessionType /\ server'.s3 = s.s3 /\ server'.authFail = s.authFail
          /\ server'.ecuReset = s.ecuReset 
          /\ server'.p2 = s.p2
    BY <1>0, <2>1, Noted, Zenon
  <2> QED
    BY <1>6, <2>2, <2>3 DEF s
<1>7. CASE request = "reset"
  <2> DEFINE t == [deaf EXCEPT !.ecuReset = In(PowerDown, tick')]
  <2>1. deaf \in ServerRecords /\ deaf.notReadyToReceive
          /\ deaf.sessionType = s.sessionType /\ deaf.s3 = s.s3 /\ deaf.authFail = s.authFail
          /\ deaf.p2 = s.p2
    BY <1>0 DEF ServerRecords
  <2>2. server' = [t EXCEPT !.requestInProgress = TRUE]
    BY <1>0, <1>7 DEF Served, AcceptReset
  <2> HIDE DEF deaf
  <2>3. t \in ServerRecords /\ t.ecuReset = In(PowerDown, tick')
          /\ t.notReadyToReceive = deaf.notReadyToReceive
          /\ t.sessionType = deaf.sessionType /\ t.s3 = deaf.s3 /\ t.authFail = deaf.authFail
          /\ t.p2 = deaf.p2
    BY <1>1, <1>2, <2>1 DEF ServerRecords
  <2> HIDE DEF t
  <2>4. server' \in ServerRecords
    BY <2>2, <2>3, Noted, Zenon
  <2>5. server'.sessionType = s.sessionType /\ server'.s3 = s.s3 /\ server'.authFail = s.authFail
          /\ server'.ecuReset = In(PowerDown, tick') /\ server'.notReadyToReceive /\ server'.p2 = s.p2
    BY <2>1, <2>2, <2>3, Noted, Zenon
  <2> QED
    BY <1>7, <2>4, <2>5 DEF s
<1>8. CASE request = "badKey"
  <2>1. server' = [failed EXCEPT !.requestInProgress = TRUE]
    BY <1>0, <1>8 DEF Served
  <2>2. failed \in ServerRecords /\ failed.authFail = In(FailDelay, tick')
          /\ failed.sessionType = s.sessionType /\ failed.s3 = s.s3
          /\ failed.ecuReset = s.ecuReset /\ failed.notReadyToReceive = s.notReadyToReceive
          /\ failed.p2 = s.p2
    BY <1>0, <1>1 DEF ServerRecords
  <2> HIDE DEF failed
  <2>3. server' \in ServerRecords
    BY <2>1, <2>2, Noted, Zenon
  <2>4. server'.sessionType = s.sessionType /\ server'.s3 = s.s3 /\ server'.authFail = In(FailDelay, tick')
          /\ server'.ecuReset = s.ecuReset 
          /\ server'.p2 = s.p2
    BY <2>1, <2>2, Noted, Zenon
  <2> QED
    BY <1>8, <2>3, <2>4 DEF s
<1> QED
  BY <1>3, <1>4, <1>5, <1>6, <1>7, <1>8 DEF Requests

LEMMA ReceiveInv ==
  ASSUME TimerInv, NEW step \in Steps, NEW request \in Requests, Receive(step, request)
  PROVE  TimerInv'
<1> DEFINE e == Expired(tick')
<1>1. /\ Turn(step) /\ server' = Served(e, request, tick')
      /\ waited' = 0 /\ idle' = Later(idle, step)
  BY DEF Receive
<1>2. /\ request \in {"PRGS", "present"} => quiet' = 0
      /\ request \notin {"PRGS", "present"} => quiet' = Later(quiet, step)
      /\ request = "badKey" => sinceKey' = 0
      /\ request # "badKey" => sinceKey' = Later(sinceKey, step)
  BY Zenon DEF Receive
<1>3. tick' \in Ticks /\ e \in ServerRecords /\ server \in ServerRecords
  BY <1>1, TurnTypes, Types
<1>4. e.authFail = server.authFail /\ e.p2 = server.p2
  BY <1>3, ExpiredFields
<1>5. e.ecuReset = Off
  <2>1. ~ server.notReadyToReceive
    BY DEF Receive
  <2> QED
    BY <1>1, <2>1, StaysDeaf, Zenon
<1>6. /\ S3 \in 0 .. Half - 1 /\ FailDelay \in 0 .. Half - 1 /\ PowerDown \in 0 .. Half - 1
      /\ P2 \in 0 .. Half - 1 /\ Half \in Nat
  BY Clock
<1> HIDE DEF e
<1>7. /\ server' \in ServerRecords /\ server'.p2 = e.p2
      /\ \/ server'.sessionType = "DS"
         \/ request \in {"PRGS", "present"} /\ server'.s3 = In(S3, tick')
         \/ /\ request \notin {"PRGS", "present"}
            /\ server'.sessionType = e.sessionType /\ server'.s3 = e.s3
      /\ request = "badKey" => server'.authFail = In(FailDelay, tick')
      /\ request # "badKey" => server'.authFail = e.authFail
      /\ \/ server'.ecuReset = e.ecuReset
         \/ server'.ecuReset = In(PowerDown, tick') /\ server'.notReadyToReceive
  BY ServedFields DEF e
<1>8. TypeOK'
  <2>1. resetDue' \in Timers /\ idle' \in 0 .. Horizon
    BY <1>1, TurnTypes
  <2>2. 0 \in 0 .. Horizon
    BY Clock DEF Horizon
  <2>3. quiet' \in 0 .. Horizon /\ sinceKey' \in 0 .. Horizon
    BY <1>1, <1>2, <2>2, TurnTypes, Zenon
  <2> QED
    BY <1>1, <1>3, <1>7, <2>1, <2>2, <2>3 DEF TypeOK, ServerRecords
<1>9. SessionTimer'
  <2>1. \/ server'.sessionType = "DS"
        \/ request \in {"PRGS", "present"} /\ server'.s3 = In(S3, tick')
        \/ /\ request \notin {"PRGS", "present"}
           /\ server'.sessionType = e.sessionType /\ server'.s3 = e.s3
    BY <1>7, Zenon
  <2>2. CASE server'.sessionType = "DS"
    BY <2>2 DEF SessionTimer
  <2>3. CASE request \in {"PRGS", "present"} /\ server'.s3 = In(S3, tick')
    <3>1. Past(tick', In(S3, tick'), - S3) /\ S3 \in Nat
      BY <1>3, <1>6, SetAhead
    <3>2. quiet' = 0
      BY <1>2, <2>3
    <3>3. quiet' - S3 = - S3 /\ quiet' <= S3
      BY <3>1, <3>2
    <3> QED
      BY <2>3, <3>1, <3>2, <3>3 DEF SessionTimer
  <2>4. CASE /\ request \notin {"PRGS", "present"}
             /\ server'.sessionType = e.sessionType /\ server'.s3 = e.s3
    BY <1>1, <1>2, <2>4, SessionKept DEF e
  <2> QED
    BY <2>1, <2>2, <2>3, <2>4
<1>10. KeyTimer'
  <2>1. /\ request = "badKey" => server'.authFail = In(FailDelay, tick')
        /\ request # "badKey" => server'.authFail = server.authFail
    BY <1>4, <1>7, Zenon
  <2>2. CASE request = "badKey"
    <3>1. Past(tick', In(FailDelay, tick'), - FailDelay) /\ FailDelay \in Nat
      BY <1>3, <1>6, SetAhead
    <3>2. sinceKey' = 0
      BY <1>2, <2>2
    <3>3. sinceKey' - FailDelay = - FailDelay
      BY <3>1, <3>2
    <3> QED
      BY <2>1, <2>2, <3>1, <3>2, <3>3 DEF KeyTimer
  <2>3. CASE request # "badKey"
    BY <1>1, <1>2, <2>1, <2>3, KeyKept
  <2> QED
    BY <2>2, <2>3
<1>11. AnswerTimer'
  <2>1. idle' < Half => Past(tick', server'.p2, idle' - P2)
    BY <1>1, <1>4, <1>7, AnswerKept
  <2>2. waited' <= idle' /\ (idle' < Half => waited' < idle')
    BY <1>1, Types, Clock DEF Later, Horizon
  <2> QED
    BY <2>1, <2>2 DEF AnswerTimer
<1>12. ResetTimer'
  <2>1. \/ server'.ecuReset = In(PowerDown, tick') /\ server'.notReadyToReceive
        \/ server'.ecuReset = Off
    BY <1>5, <1>7, Zenon
  <2>2. CASE server'.ecuReset = In(PowerDown, tick') /\ server'.notReadyToReceive
    <3>1. Past(tick', server'.ecuReset, - PowerDown) /\ PowerDown \in Nat
      BY <1>3, <1>6, <2>2, SetAhead
    <3>2. waited' - PowerDown = - PowerDown /\ waited' <= PowerDown
      BY <1>1, <3>1
    <3> QED
      BY <2>2, <3>1, <3>2 DEF ResetTimer
  <2>3. CASE server'.ecuReset = Off
    BY <2>3 DEF ResetTimer
  <2> QED
    BY <2>1, <2>2, <2>3
<1> QED
  BY <1>8, <1>9, <1>10, <1>11, <1>12 DEF TimerInv

LEMMA InitialFields ==
  /\ InitialServer \in ServerRecords
  /\ InitialServer.sessionType = "DS" /\ InitialServer.requestInProgress = FALSE
  /\ InitialServer.p2 = P2 /\ InitialServer.ecuReset = Off
<1>1. P2 \in Ticks /\ BootDelay \in Ticks /\ 0 \in Ticks /\ Off \in Timers
  BY Clock DEF Ticks, Timers
<1> QED
  BY <1>1 DEF InitialServer, ServerRecords, Timers

\* A server that is new: its timers count from the tick 0, whatever the clock says.
NewServer ==
  /\ tick \in Ticks /\ resetDue \in Timers
  /\ server = InitialServer
  /\ idle = (IF tick < Horizon THEN tick ELSE Horizon)
  /\ quiet = 0 /\ waited = 0 /\ sinceKey = Horizon

LEMMA NewServerInv == NewServer => TimerInv
<1> SUFFICES ASSUME NewServer PROVE TimerInv
  OBVIOUS
<1> USE DEF NewServer
<1>1. /\ Half \in Nat \ {0} /\ Modulus = 2 * Half /\ P2 \in 0 .. Half - 1
      /\ FailDelay \in 0 .. Half - 1 /\ tick \in 0 .. Modulus - 1
  BY Clock DEF Ticks
<1>2. TypeOK
  BY <1>1, InitialFields DEF TypeOK, ServerRecords, Horizon
<1>3. SessionTimer /\ ResetTimer
  BY InitialFields DEF SessionTimer, ResetTimer
<1>4. KeyTimer
  BY <1>1 DEF KeyTimer, Horizon
<1>5. AnswerTimer
  <2>1. SUFFICES ASSUME idle < Half PROVE Past(tick, P2, idle - P2)
    BY InitialFields DEF AnswerTimer
  <2>2. idle = tick
    BY <1>1, <2>1 DEF Horizon
  <2> QED
    BY <1>1, <2>2 DEF Past, Ticks
<1> QED
  BY <1>2, <1>3, <1>4, <1>5 DEF TimerInv

LEMMA InitInv == Init => TimerInv
<1> SUFFICES ASSUME Init PROVE TimerInv
  OBVIOUS
<1>1. /\ tick = 0 /\ server = InitialServer /\ resetDue = Off
      /\ quiet = 0 /\ waited = 0 /\ idle = 0 /\ sinceKey = Horizon
  BY DEF Init
<1>2. tick \in Ticks /\ resetDue \in Timers /\ tick < Horizon
  BY <1>1, Clock DEF Ticks, Timers, Horizon
<1> QED
  BY <1>1, <1>2, NewServerInv DEF NewServer

LEMMA RestartInv ==
  ASSUME TimerInv, Restart
  PROVE  TimerInv'
<1>1. /\ tick' = 0 /\ server' = InitialServer /\ resetDue' = Off
      /\ quiet' = 0 /\ waited' = 0 /\ idle' = 0 /\ sinceKey' = Horizon
  BY DEF Restart
<1>2. Init'
  BY <1>1 DEF Init
<1> QED
  BY <1>2, InitInv, PTL

LEMMA ResetCommunicationInv ==
  ASSUME TimerInv, ResetCommunication
  PROVE  TimerInv'
<1>1. /\ server' = InitialServer /\ quiet' = 0 /\ waited' = 0 /\ sinceKey' = Horizon
      /\ tick' = tick /\ resetDue' = resetDue
  BY DEF ResetCommunication
<1>2. idle' = IF tick' < Horizon THEN tick' ELSE Horizon
  BY <1>1 DEF ResetCommunication
<1>3. tick' \in Ticks /\ resetDue' \in Timers
  BY <1>1 DEF TimerInv, TypeOK
<1>4. NewServer'
  BY <1>1, <1>2, <1>3 DEF NewServer
<1> QED
  BY <1>4, NewServerInv, PTL

LEMMA StepInv == TimerInv /\ [Next]_vars => TimerInv'
<1> SUFFICES ASSUME TimerInv, [Next]_vars PROVE TimerInv'
  OBVIOUS
<1>1. ASSUME NEW step \in Steps, Answer(step) PROVE TimerInv'
  BY <1>1, AnswerInv
<1>2. ASSUME NEW step \in Steps, Wait(step) PROVE TimerInv'
  BY <1>2, WaitInv
<1>3. ASSUME NEW step \in Steps, Rest(step) PROVE TimerInv'
  BY <1>3, RestInv
<1>4. ASSUME NEW step \in Steps, NEW request \in Requests, Receive(step, request)
      PROVE  TimerInv'
  BY <1>4, ReceiveInv
<1>5. CASE Restart
  BY <1>5, RestartInv
<1>6. CASE ResetCommunication
  BY <1>6, ResetCommunicationInv
<1>7. CASE UNCHANGED vars
  BY <1>7 DEF vars, TimerInv, TypeOK, SessionTimer, KeyTimer, AnswerTimer, ResetTimer
<1> QED
  BY <1>1, <1>2, <1>3, <1>4, <1>5, <1>6, <1>7, Zenon DEF Next

\* The inductive invariant holds in every reachable state.
LEMMA Invariance == Spec => []TimerInv
  BY InitInv, StepInv, PTL DEF Spec

----------------------------------------------------------------------------
(* The theorems *)

\* Every count of the server stays a uint32_t, through every wrap of the clock.
THEOREM TypeCorrect == Spec => []TypeOK
  BY Invariance, PTL DEF TimerInv

\* UDSTimeAfter is enough for S3: a programming session nobody keeps alive is over at the first
\* turn after S3, wherever in the range of the clock that falls.
THEOREM SessionEnds == Spec => []SessionLapses
<1>1. TimerInv => SessionLapses
  BY DEF TimerInv, SessionTimer, SessionLapses
<1> QED
  BY <1>1, Invariance, PTL

\* A wrap of the clock ends no session early.
THEOREM SessionLastsItsTime == Spec => SessionNotCutShort
<1>1. TimerInv /\ [Next]_vars =>
        [\A step \in Steps :
           Turn(step) /\ SessionExpired(server, tick') => quiet + step > S3]_vars
  BY SessionRuns
<1> QED
  BY <1>1, Invariance, PTL DEF Spec, SessionNotCutShort

\* No client shortens the delay after a refused key, not even one that waits for the clock to wrap.
THEOREM KeysAreDelayed == Spec => KeyDelayed
<1>1. TimerInv /\ [Next]_vars =>
        [\A step \in Steps : Receive(step, "badKey") => sinceKey + step > FailDelay]_vars
  <2> SUFFICES ASSUME TimerInv, NEW step \in Steps, Receive(step, "badKey")
               PROVE  sinceKey + step > FailDelay
    OBVIOUS
  <2>1. Turn(step) /\ Possible(Expired(tick'), "badKey", tick')
    BY Zenon DEF Receive
  <2>2. tick' \in Ticks /\ server \in ServerRecords
    BY <2>1, TurnTypes, Types
  <2>3. Expired(tick').authFail = server.authFail
    BY <2>2, ExpiredFields
  <2>4. UDSTimeAfter(tick', server.authFail)
    <3>1. KeysHeard(Expired(tick'), tick')
      BY <2>1, Zenon DEF Possible
    <3>2. UDSTimeAfter(tick', Expired(tick').authFail)
      BY <3>1, Zenon DEF KeysHeard
    <3> QED
      BY <2>3, <3>2, Zenon
  <2> QED
    BY <2>1, <2>4, KeyDelayOver
<1> QED
  BY <1>1, Invariance, PTL DEF Spec, KeyDelayed

\* A request that is in progress as a turn begins is answered in it if P2 has passed since the
\* request came, as long as the P2 timer is not older than half the range of the clock; the turn
\* that sends the answer counts.
THEOREM AnswersInTime == Spec => AnsweredInTime
<1>1. TimerInv /\ [Next]_vars =>
        [\A step \in Steps :
           Turn(step) /\ server.requestInProgress /\ idle < Half /\ waited + step >= P2
             => ~ server'.requestInProgress]_vars
  <2> SUFFICES ASSUME TimerInv, Next, NEW length \in Steps, server.requestInProgress,
                      Turn(length), idle < Half, waited + length >= P2
               PROVE  ~ server'.requestInProgress
    BY Zenon
  <2>1. ASSUME NEW step \in Steps, Answer(step) PROVE ~ server'.requestInProgress
    <3>1. Turn(step) /\ server' = [Expired(tick') EXCEPT !.requestInProgress = FALSE,
                                                          !.p2 = In(P2, tick')]
      BY <2>1 DEF Answer
    <3>2. Expired(tick') \in ServerRecords
      BY <3>1, TurnTypes
    <3> QED
      BY <3>1, <3>2 DEF ServerRecords
  <2>2. ASSUME NEW step \in Steps, Wait(step) PROVE FALSE
    <3>1. ~ UDSTimeAfter(tick', server.p2)
      BY <2>2 DEF Wait
    <3>2. ~ idle + length > P2
      BY <3>1, AnswerRuns
    <3>3. waited < idle
      BY DEF TimerInv, AnswerTimer
    <3>4. waited \in Nat /\ idle \in Nat /\ length \in Nat /\ P2 \in Nat
      BY Types, Clock DEF Horizon
    <3> QED
      BY <3>2, <3>3, <3>4
  <2>3. ASSUME NEW step \in Steps, NEW request,
               Rest(step) \/ Receive(step, request)
        PROVE  FALSE
    BY <2>3, Zenon DEF Rest, Receive
  <2>4. CASE Restart \/ ResetCommunication
    BY <2>4, InitialFields DEF Restart, ResetCommunication
  <2> QED
    BY <2>1, <2>2, <2>3, <2>4, Zenon DEF Next
<1> QED
  BY <1>1, Invariance, PTL DEF Spec, AnsweredInTime

\* Under the same condition the answer to a reset request goes out before the reset.
THEOREM AnswerPrecedesReset == Spec => AnsweredBeforeReset
<1>1. TimerInv /\ [Next]_vars =>
        [\A step \in Steps :
           Turn(step) /\ ResetIsDue(server, tick') /\ idle < Half
             => ~ server'.requestInProgress]_vars
  <2> SUFFICES ASSUME TimerInv, Next, ResetIsDue(server, tick'), idle < Half
               PROVE  ~ server'.requestInProgress
    BY Zenon
  <2>1. server.ecuReset # Off
    BY DEF ResetIsDue
  <2>2. server.notReadyToReceive
    BY <2>1 DEF TimerInv, ResetTimer
  <2>3. ASSUME NEW step \in Steps, Answer(step) PROVE ~ server'.requestInProgress
    <3>1. Turn(step) /\ server' = [Expired(tick') EXCEPT !.requestInProgress = FALSE,
                                                          !.p2 = In(P2, tick')]
      BY <2>3 DEF Answer
    <3>2. Expired(tick') \in ServerRecords
      BY <3>1, TurnTypes
    <3> QED
      BY <3>1, <3>2 DEF ServerRecords
  <2>4. ASSUME NEW step \in Steps, Wait(step) PROVE FALSE
    <3>1. Turn(step) /\ server.requestInProgress /\ ~ UDSTimeAfter(tick', server.p2)
      BY <2>4 DEF Wait
    <3>2. ~ idle + step > P2
      BY <3>1, AnswerRuns
    <3>3. waited + step > PowerDown
      BY <2>1, <3>1, ResetRuns
    <3>4. waited <= idle
      BY <3>1 DEF TimerInv, AnswerTimer
    <3>5. /\ waited \in Nat /\ idle \in Nat /\ step \in Nat
          /\ P2 \in Nat /\ PowerDown \in Nat /\ P2 <= PowerDown
      BY Types, Clock DEF Horizon
    <3> QED
      BY <3>2, <3>3, <3>4, <3>5
  <2>5. ASSUME NEW step \in Steps, Rest(step) PROVE ~ server'.requestInProgress
    <3>1. Turn(step) /\ server' = Expired(tick') /\ ~ server.requestInProgress
      BY <2>5 DEF Rest
    <3>2. server'.requestInProgress = server.requestInProgress
      BY <3>1, TurnTypes, Types, ExpiredFields
    <3> QED
      BY <3>1, <3>2, Zenon
  <2>6. ASSUME NEW step \in Steps, NEW request, Receive(step, request) PROVE FALSE
    BY <2>2, <2>6, Zenon DEF Receive
  <2>7. CASE Restart \/ ResetCommunication
    BY <2>7, InitialFields DEF Restart, ResetCommunication
  <2> QED
    BY <2>3, <2>4, <2>5, <2>6, <2>7, Zenon DEF Next
<1> QED
  BY <1>1, Invariance, PTL DEF Spec, AnsweredBeforeReset
=============================================================================
