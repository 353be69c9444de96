------------------------------ MODULE UdsTimers ------------------------------
(***************************************************************************)
(* The clock of the diagnostic server.  HAL_GetTick counts milliseconds in *)
(* a uint32_t; uds_server.c hands it to the library once per turn of the   *)
(* OTA loop, and UDSServerPoll compares it with its timers by              *)
(* UDSTimeAfter.  main.c then resets the node when a request is due.       *)
(*                                                                         *)
(* Of a request only what touches a timer is kept.  A timer the code does  *)
(* not look at is Off.                                                     *)
(***************************************************************************)
EXTENDS Integers

CONSTANTS
  Modulus,     \* 2^32 in the product
  Steps,       \* how many milliseconds a turn of the OTA loop may take
  P2, S3, PowerDown, BootDelay, FailDelay,  \* 50, 5100, 60, 1000, 1000
  RestartDelay \* RESET_RESPONSE_DELAY_MS: 50

Half == Modulus \div 2

ASSUME ClockConstants ==
  /\ Modulus \in Nat /\ Modulus % 2 = 0
  /\ Steps # {} /\ \A step \in Steps : step \in 1 .. P2   \* a page erase or a write fits in P2
  /\ \A delay \in {P2, S3, PowerDown, BootDelay, FailDelay, RestartDelay} : delay \in Nat
  /\ \A delay \in {P2, S3, PowerDown, BootDelay, FailDelay, RestartDelay}, step \in Steps :
       delay + step < Half
  /\ P2 <= PowerDown   \* an #error of iso14229.h otherwise

Off == -1

Ticks == 0 .. Modulus - 1
Timers == Ticks \cup {Off}

VARIABLES
  tick,      \* HAL_GetTick()
  server,    \* the timers and flags of s_server
  resetDue,  \* s_reset_due_tick of main.c, Off when no reset is requested
  quiet,     \* how long ago S3 was started (history)
  waited,    \* how long the request in progress has waited (history)
  idle,      \* how old the P2 timer is (history)
  sinceKey   \* how long ago a key was refused (history)

vars == <<tick, server, resetDue, quiet, waited, idle, sinceKey>>

\* Histories stop counting here.
Horizon == Half
Later(age, step) == IF age + step < Horizon THEN age + step ELSE Horizon

----------------------------------------------------------------------------
\* Fault: the two counts are compared as they are.
Faulty_TimeAfter(a, b) == a > b

\* The difference of two uint32_t, read as an int32_t, is positive.
UDSTimeAfter(a, b) == (a - b) % Modulus \in 1 .. Half - 1

TimeReached(a, b) == (a - b) % Modulus \in 0 .. Half - 1

\* Fault: the sum is wider than a uint32_t.
Faulty_In(delay, now) == now + delay

In(delay, now) == (now + delay) % Modulus

\* UDS_Init: the library's clock stands at 0 until the next turn, whatever HAL_GetTick says.
InitialServer ==
  [sessionType |-> "DS", requestInProgress |-> FALSE, notReadyToReceive |-> FALSE,
   p2 |-> P2, s3 |-> Off, ecuReset |-> Off, bootDelay |-> BootDelay, authFail |-> 0]

Init ==
  /\ tick = 0
  /\ server = InitialServer
  /\ resetDue = Off
  /\ quiet = 0 /\ waited = 0 /\ idle = 0 /\ sinceKey = Horizon

\* S3 has passed: the server goes back to the default session.
SessionExpired(s, now) == s.sessionType # "DS" /\ UDSTimeAfter(now, s.s3)

AfterSessionTimeout(s, now) ==
  IF SessionExpired(s, now) THEN [s EXCEPT !.sessionType = "DS", !.s3 = Off] ELSE s

ResetIsDue(s, now) == s.ecuReset # Off /\ UDSTimeAfter(now, s.ecuReset)

AfterScheduledReset(s, now) ==
  IF ResetIsDue(s, now) THEN [s EXCEPT !.ecuReset = Off] ELSE s

\* Fault: TesterPresent does not start S3 again.
Faulty_TesterPresent(s, now) == s

TesterPresent(s, now) == IF s.sessionType # "DS" THEN [s EXCEPT !.s3 = In(S3, now)] ELSE s

\* Fault: the power-down time counts from now, not from the acceptance.
Faulty_AcceptReset(s, now) == [s EXCEPT !.notReadyToReceive = TRUE, !.ecuReset = now]

AcceptReset(s, now) == [s EXCEPT !.notReadyToReceive = TRUE, !.ecuReset = In(PowerDown, now)]

\* Fault: only the start-up delay is looked at.
Faulty_KeysHeard(s, now) == UDSTimeAfter(now, s.bootDelay)

\* 0x27 gets past the two delays.
KeysHeard(s, now) == UDSTimeAfter(now, s.bootDelay) /\ UDSTimeAfter(now, s.authFail)

\* What a request does to the timers.
Served(s, request, now) ==
  [CASE request = "DS" -> [s EXCEPT !.sessionType = "DS", !.s3 = Off]
     [] request = "PRGS" -> [s EXCEPT !.sessionType = "PRGS", !.s3 = In(S3, now)]
     [] request = "present" -> TesterPresent(s, now)
     [] request = "reset" -> AcceptReset(s, now)
     [] request = "badKey" -> [s EXCEPT !.authFail = In(FailDelay, now)]
     [] request = "other" -> s
   EXCEPT !.requestInProgress = TRUE]

Possible(s, request, now) ==
  /\ request = "reset" => s.sessionType = "PRGS"   \* and unlocked
  /\ request = "badKey" => KeysHeard(s, now)

----------------------------------------------------------------------------
(* One turn of the OTA loop at a later tick: UDSServerPoll, then the two resets of main.c *)

\* What UDSServerPoll does first, whatever else there is to do.
Expired(now) == AfterScheduledReset(AfterSessionTimeout(server, now), now)

\* UDS_ConsumeAcceptedReset and RequestReset.
TakeReset(now) ==
  resetDue' = IF ResetIsDue(server, now) THEN In(RestartDelay, now) ELSE resetDue

Turn(step) ==
  /\ ~ (resetDue # Off /\ TimeReached(In(step, tick), resetDue))
  /\ tick' = In(step, tick)
  /\ TakeReset(tick')

\* A request is waiting for its answer, and P2 has passed.
Answer(step) ==
  /\ Turn(step)
  /\ server.requestInProgress
  /\ UDSTimeAfter(tick', server.p2)
  /\ server' = [Expired(tick') EXCEPT !.requestInProgress = FALSE, !.p2 = In(P2, tick')]
  /\ idle' = 0 /\ waited' = 0
  /\ quiet' = Later(quiet, step) /\ sinceKey' = Later(sinceKey, step)

\* It waits on.
Wait(step) ==
  /\ Turn(step)
  /\ server.requestInProgress
  /\ ~ UDSTimeAfter(tick', server.p2)
  /\ server' = Expired(tick')
  /\ waited' = Later(waited, step) /\ idle' = Later(idle, step)
  /\ quiet' = Later(quiet, step) /\ sinceKey' = Later(sinceKey, step)

\* Nothing has come, or nothing is heard.
Rest(step) ==
  /\ Turn(step)
  /\ ~ server.requestInProgress
  /\ server' = Expired(tick')
  /\ waited' = 0 /\ idle' = Later(idle, step)
  /\ quiet' = Later(quiet, step) /\ sinceKey' = Later(sinceKey, step)

Receive(step, request) ==
  /\ Turn(step)
  /\ ~ server.requestInProgress
  /\ ~ server.notReadyToReceive
  /\ Possible(Expired(tick'), request, tick')
  /\ server' = Served(Expired(tick'), request, tick')
  /\ waited' = 0 /\ idle' = Later(idle, step)
  /\ quiet' = IF request \in {"PRGS", "present"} THEN 0 ELSE Later(quiet, step)
  /\ sinceKey' = IF request = "badKey" THEN 0 ELSE Later(sinceKey, step)

\* The turn at which PollReset resets the node.
Restart ==
  /\ \E step \in Steps : resetDue # Off /\ TimeReached(In(step, tick), resetDue)
  /\ tick' = 0
  /\ server' = InitialServer
  /\ resetDue' = Off
  /\ quiet' = 0 /\ waited' = 0 /\ idle' = 0 /\ sinceKey' = Horizon

\* ResetCommunication on the main thread, after LSS: the server is new, HAL_GetTick is not.
ResetCommunication ==
  /\ server' = InitialServer
  /\ quiet' = 0 /\ waited' = 0 /\ sinceKey' = Horizon
  /\ idle' = IF tick < Horizon THEN tick ELSE Horizon
  /\ UNCHANGED <<tick, resetDue>>

Requests == {"DS", "PRGS", "present", "reset", "badKey", "other"}

Next ==
  \/ \E step \in Steps :
       Answer(step) \/ Wait(step) \/ Rest(step) \/ \E request \in Requests : Receive(step, request)
  \/ Restart
  \/ ResetCommunication

Spec == Init /\ [][Next]_vars

----------------------------------------------------------------------------
(* Properties *)

\* Every count is a uint32_t.
TypeOK ==
  /\ tick \in Ticks
  /\ server \in [sessionType : {"DS", "PRGS"}, requestInProgress : BOOLEAN,
                 notReadyToReceive : BOOLEAN, p2 : Ticks, s3 : Timers, ecuReset : Timers,
                 bootDelay : Ticks, authFail : Ticks]
  /\ resetDue \in Timers
  /\ quiet \in 0 .. Horizon /\ waited \in 0 .. Horizon
  /\ idle \in 0 .. Horizon /\ sinceKey \in 0 .. Horizon

\* A programming session nobody keeps alive ends, also when the clock wraps under it: at no
\* turn is it older than S3.
SessionLapses == server.sessionType = "PRGS" => quiet <= S3

\* And it ends for that reason only when nothing kept it alive for S3.
SessionNotCutShort ==
  [][\A step \in Steps :
       Turn(step) /\ SessionExpired(server, tick') => quiet + step > S3]_vars

\* After a refused key no other is looked at before the delay is over, however often the clock
\* wraps meanwhile.
KeyDelayed == [][\A step \in Steps : Receive(step, "badKey") => sinceKey + step > FailDelay]_vars

\* A request is answered at the first turn at which P2 has passed since it came, as long as the P2
\* timer is not older than half the range of the clock: the answer is less than one turn later
\* than P2.
AnsweredInTime ==
  [][\A step \in Steps :
       Turn(step) /\ server.requestInProgress /\ idle < Half /\ waited + step >= P2
         => ~ server'.requestInProgress]_vars

\* When an accepted reset is handed to main.c its answer is on its way, under the same condition:
\* iso14229.h insists that the power-down time leaves time for it.
AnsweredBeforeReset ==
  [][\A step \in Steps :
       Turn(step) /\ ResetIsDue(server, tick') /\ idle < Half => ~ server'.requestInProgress]_vars

\* Claimed by a comment of iso14229.h, that the wrap of the clock "is handled by UDSTimeAfter",
\* and by can/docs/uds-can-profile.md, P2ServerMax=50 ms: no request is left waiting beyond P2.
AnsweredWithinP2 == server.requestInProgress => waited <= P2
=============================================================================
