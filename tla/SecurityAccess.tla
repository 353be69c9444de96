--------------------------- MODULE SecurityAccess ---------------------------
(***************************************************************************)
(* can/security: the seed and key exchange that authorises an update.      *)
(*                                                                         *)
(* A seed is 4 bytes of the hardware generator.  Assumed, for it is only   *)
(* likely: no seed comes twice.  So seeds are numbered in the order they   *)
(* are drawn; 0 is the all-zero seed, which is never drawn.  A token is    *)
(* signed for one seed, and is named by it; 0 is a token with a bad        *)
(* signature.                                                              *)
(***************************************************************************)
EXTENDS Naturals

CONSTANT MaxSeeds   \* how many seeds the generator is asked for (a bound)

ASSUME SeedBound == MaxSeeds \in Nat

ZeroSeed == 0

VARIABLES
  sec,        \* s_security: its seed (ZeroSeed when seed_valid is false) and its unlocked flag
  drawn,      \* how many seeds were drawn (history)
  lastTried   \* the last seed a token was tried against (history)

secVars == <<sec, drawn, lastTried>>

LockedSecurity == [seed |-> ZeroSeed, unlocked |-> FALSE]

SecurityAccess_InitialState == sec = LockedSecurity /\ drawn = 0 /\ lastTried = 0

\* SecurityAccess_Init, and SecurityAccess_ClearUnlock: they leave the same state.
SecurityAccess_ClearUnlock ==
  /\ sec' = LockedSecurity
  /\ UNCHANGED <<drawn, lastTried>>

\* SecurityAccess_RequestSeed answering OK with a seed of the generator.
SecurityAccess_DrawSeed ==
  /\ ~ sec.unlocked
  /\ drawn < MaxSeeds
  /\ drawn' = drawn + 1
  /\ sec' = [sec EXCEPT !.seed = drawn']
  /\ lastTried' = lastTried

\* SecurityAccess_RequestSeed answering ENTROPY_UNAVAILABLE: the old seed is gone too.
SecurityAccess_NoEntropy ==
  /\ ~ sec.unlocked
  /\ sec' = [sec EXCEPT !.seed = ZeroSeed]
  /\ UNCHANGED <<drawn, lastTried>>

\* Fault: a wrong token leaves the seed valid.
Faulty_KeepsSeed(token) == [sec EXCEPT !.unlocked = @ \/ token = sec.seed]

\* The state after a token was verified against the seed: one try, right or wrong.
TriedState(token) ==
  [seed |-> ZeroSeed, unlocked |-> sec.unlocked \/ token = sec.seed]

\* SecurityAccess_SubmitKey of a well-formed token: its result.
SubmitKeyResult(token) ==
  IF sec.seed = ZeroSeed THEN "SEQUENCE_ERROR"
  ELSE IF token = sec.seed THEN "OK" ELSE "INVALID_KEY"

SecurityAccess_SubmitKey(token) ==
  IF sec.seed = ZeroSeed
  THEN UNCHANGED secVars
  ELSE /\ sec' = TriedState(token)
       /\ lastTried' = sec.seed
       /\ drawn' = drawn

\* Every token a client can have: one for a seed that was drawn, or a bad one.
Tokens == 0 .. drawn
=============================================================================
