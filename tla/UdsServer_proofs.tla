-------------------------- MODULE UdsServer_proofs --------------------------
(***************************************************************************)
(* Proofs about UdsServer, for every geometry of the flash, every set of   *)
(* images, every width of the block counter and every client.  What the    *)
(* download session does by itself is taken from Download_proofs.          *)
(***************************************************************************)
EXTENDS UdsServer, TLAPS

P == INSTANCE Download_proofs

----------------------------------------------------------------------------
(* The download session of the server is the one of Download_proofs *)

LEMMA Constants ==
  /\ P!FlashGeometry /\ P!FlashContents /\ P!DownloadConstants
  /\ BscModulus \in Nat /\ 1 < BscModulus /\ MaxPayload \in Nat
  /\ Lengths \subseteq Nat /\ Sizes \subseteq Nat /\ SlotSize \in Nat \ {0}
BY ServerConstants
   DEF P!FlashGeometry, P!FlashContents, P!DownloadConstants, P!ConfirmOffset, P!UnitOffsets,
       P!Areas, P!Cells, D!FlashGeometry, D!FlashContents, D!DownloadConstants, D!ConfirmOffset,
       D!UnitOffsets, D!Areas, D!Cells

LEMMA SameStates ==
  /\ D!IdleSession = P!IdleSession /\ D!FailedSession = P!FailedSession
  /\ D!IdleJob = P!IdleJob
  /\ D!UnitOffsets = P!UnitOffsets /\ D!Areas = P!Areas /\ D!BlankArea = P!BlankArea
  /\ D!Slots = P!Slots /\ D!ConfirmOffset = P!ConfirmOffset /\ D!SLOT_INVALID = P!SLOT_INVALID
  /\ D!BootObservation_GetInactiveSlot = P!BootObservation_GetInactiveSlot
BY DEF D!IdleSession, P!IdleSession, D!FailedSession, P!FailedSession, D!IdleJob, P!IdleJob,
       D!NoArea, P!NoArea, D!SLOT_INVALID, P!SLOT_INVALID, D!UnitOffsets, P!UnitOffsets,
       D!Areas, P!Areas, D!Cells, P!Cells, D!BlankArea, P!BlankArea, D!Slots, P!Slots,
       D!SLOT_A, P!SLOT_A, D!SLOT_B, P!SLOT_B, D!ConfirmOffset, P!ConfirmOffset,
       D!BootObservation_GetInactiveSlot, P!BootObservation_GetInactiveSlot

LEMMA SameAbort == D!Download_Abort => P!Download_Abort
BY SameStates DEF D!Download_Abort, P!Download_Abort

LEMMA SamePoll == D!Download_Poll => P!Download_Poll
<1>1. ASSUME NEW off PROVE D!flash_sector_off(off) = P!flash_sector_off(off)
  BY DEF D!flash_sector_off, P!flash_sector_off
<1>2. ASSUME NEW area, NEW page
      PROVE  /\ D!ErasedPage(area, page) = P!ErasedPage(area, page)
             /\ D!HalfErasedPages(area, page) = P!HalfErasedPages(area, page)
  BY SameStates DEF D!ErasedPage, P!ErasedPage, D!InPage, P!InPage, D!HalfErasedPages,
     P!HalfErasedPages
<1>3. ASSUME NEW j PROVE D!NextEraseOffset(j) = P!NextEraseOffset(j)
  BY <1>1 DEF D!NextEraseOffset, P!NextEraseOffset
<1>4. D!NoArea = P!NoArea
  BY SameStates DEF D!NoArea, P!NoArea
<1>5. D!PollErases => P!PollErases
  BY <1>1, <1>2, <1>3, <1>4, SameStates DEF D!PollErases, P!PollErases
<1>6. D!PollFails => P!PollFails
  BY <1>1, <1>2, <1>3, <1>4, SameStates DEF D!PollFails, P!PollFails
<1> QED
  BY <1>5, <1>6, Zenon DEF D!Download_Poll, P!Download_Poll

LEMMA SameBegin ==
  ASSUME NEW size
  PROVE  /\ D!BeginResult(session, size) = P!BeginResult(session, size)
         /\ D!Download_Begin(size) => P!Download_Begin(size)
<1>1. D!BeginResult(session, size) = P!BeginResult(session, size)
  BY DEF D!BeginResult, P!BeginResult
<1>2. D!BegunSession(session, size) = P!BegunSession(session, size)
  BY DEF D!BegunSession, P!BegunSession
<1> QED
  BY <1>1, <1>2 DEF D!Download_Begin, P!Download_Begin

LEMMA SameExit == D!Download_Exit => P!Download_Exit
BY DEF D!Download_Exit, P!Download_Exit, D!ExitAccepted, P!ExitAccepted

LEMMA SameWrites ==
  /\ D!Buffers(Lengths) = P!Buffers(Lengths)
  /\ \A area, base, buffer :
       /\ D!WriteFits(base, buffer) <=> P!WriteFits(base, buffer)
       /\ D!WriteSucceeds(area, base, buffer) <=> P!WriteSucceeds(area, base, buffer)
       /\ D!Written(area, base, buffer) = P!Written(area, base, buffer)
       /\ D!WriteFailures(area, base, buffer) = P!WriteFailures(area, base, buffer)
<1>1. \A len : D!UnitsOf(len) = P!UnitsOf(len)
  BY DEF D!UnitsOf, P!UnitsOf
<1>2. D!Buffers(Lengths) = P!Buffers(Lengths)
  BY <1>1 DEF D!Buffers, P!Buffers
<1> SUFFICES ASSUME NEW area, NEW base, NEW buffer
             PROVE  /\ D!WriteFits(base, buffer) <=> P!WriteFits(base, buffer)
                    /\ D!WriteSucceeds(area, base, buffer) <=> P!WriteSucceeds(area, base, buffer)
                    /\ D!Written(area, base, buffer) = P!Written(area, base, buffer)
                    /\ D!WriteFailures(area, base, buffer) = P!WriteFailures(area, base, buffer)
  BY <1>2
<1>3. D!WriteFits(base, buffer) <=> P!WriteFits(base, buffer)
  BY DEF D!WriteFits, P!WriteFits
<1>4. \A off : D!Programs(buffer, base, off) <=> P!Programs(buffer, base, off)
  BY DEF D!Programs, P!Programs
<1>5. \A end : D!BlankBelow(area, base, buffer, end) <=> P!BlankBelow(area, base, buffer, end)
  BY <1>4, SameStates DEF D!BlankBelow, P!BlankBelow
<1>6. \A end : D!WrittenBelow(area, base, buffer, end) = P!WrittenBelow(area, base, buffer, end)
  BY <1>4, SameStates DEF D!WrittenBelow, P!WrittenBelow
<1>7. D!WriteSucceeds(area, base, buffer) <=> P!WriteSucceeds(area, base, buffer)
  BY <1>3, <1>5 DEF D!WriteSucceeds, P!WriteSucceeds
<1>8. D!Written(area, base, buffer) = P!Written(area, base, buffer)
  BY <1>6 DEF D!Written, P!Written
<1>9. D!WriteFailures(area, base, buffer) = P!WriteFailures(area, base, buffer)
  BY <1>3, <1>4, <1>5, <1>6, SameStates DEF D!WriteFailures, P!WriteFailures
<1> QED
  BY <1>3, <1>7, <1>8, <1>9

LEMMA SameBoot ==
  /\ D!Boot => P!Boot
  /\ D!Init => P!Init
<1>1. \A area : D!Bootable(area) <=> P!Bootable(area)
  BY SameStates DEF D!Bootable, P!Bootable
<1>2. D!ConfirmBuffer = P!ConfirmBuffer
  BY DEF D!ConfirmBuffer, P!ConfirmBuffer
<1>3. \A slot, ok :
        D!ImageConfirm_WriteConfirm(slot, ok) <=> P!ImageConfirm_WriteConfirm(slot, ok)
  BY <1>2, SameStates, SameWrites, Zenon
  DEF D!ImageConfirm_WriteConfirm, P!ImageConfirm_WriteConfirm
<1>4. D!Boot => P!Boot
  BY <1>1, <1>3, SameStates, Zenon DEF D!Boot, P!Boot
<1>5. D!Init => P!Init
  BY <1>1, SameStates DEF D!Init, P!Init
<1> QED
  BY <1>4, <1>5

----------------------------------------------------------------------------
(* The invariant *)

ServerRecords ==
  [sessionType : {"DS", "PRGS"}, securityLevel : {0, 1},
   xferIsActive : BOOLEAN, xferBsc : 0 .. BscModulus - 1,
   xferBytes : 0 .. SlotSize, xferTotal : 0 .. SlotSize,
   requestInProgress : BOOLEAN, notReadyToReceive : BOOLEAN,
   ecuResetScheduled : BOOLEAN, seedDelay : {"none", "boot", "failed"}]

ServerTypes == server \in ServerRecords /\ resetRequested \in BOOLEAN

\* A seed is drawn after every seed that was tried.
Seeds ==
  /\ sec \in [seed : 0 .. MaxSeeds, unlocked : BOOLEAN]
  /\ drawn \in 0 .. MaxSeeds /\ lastTried \in 0 .. drawn
  /\ sec.seed # ZeroSeed => lastTried < sec.seed /\ sec.seed <= drawn

\* A session that takes no blocks yet counts from the start.
FreshSession ==
  session.state \in {"PREPARING", "READY"} =>
    session.bsc = 1 /\ session.received = 0 /\ session.size = 0

\* While the transfer goes on, the slot is blank behind what was received.
BlankAhead ==
  session.state = "TRANSFERRING" /\ server.xferIsActive =>
    \A off \in D!UnitOffsets : session.received <= off => flash[session.target][off] = Erased

Transfer == DownloadIsAuthorised /\ LayersAgree /\ FreshSession /\ BlankAhead

ServerInv == P!IInv /\ ServerTypes /\ Seeds /\ Transfer

\* The parts of the state the proofs below speak of.
LEMMA StateTypes ==
  ASSUME ServerInv
  PROVE  /\ server \in ServerRecords
         /\ session \in [state : {"IDLE", "PREPARING", "READY", "TRANSFERRING", "COMPLETE",
                                  "PREPARATION_FAILED"},
                         target : D!Slots \cup {D!SLOT_INVALID}, bsc : 0 .. BscModulus - 1,
                         received : 0 .. SlotSize, size : 0 .. SlotSize]
         /\ flash \in [D!Slots -> D!Areas]
<1>1. P!TypeOK
  BY DEF ServerInv, P!IInv
<1>2. D!Slots = P!Slots /\ D!Areas = P!Areas /\ D!SLOT_INVALID = P!SLOT_INVALID
  BY SameStates
<1> QED
  BY <1>1, <1>2 DEF ServerInv, ServerTypes, P!TypeOK

LEMMA TypeHolds == ServerInv => TypeOK
<1> SUFFICES ASSUME ServerInv PROVE TypeOK
  OBVIOUS
<1>1. D!TypeOK
  <2>1. P!TypeOK
    BY DEF ServerInv, P!IInv
  <2> QED
    BY <2>1, SameStates DEF P!TypeOK, D!TypeOK, P!NoArea, D!NoArea
<1> QED
  BY <1>1 DEF ServerInv, ServerTypes, Seeds, ServerRecords, TypeOK

\* What the library does with the state it is served with.
LEMMA Served ==
  ASSUME NEW s \in ServerRecords, NEW r, Serve(s, r)
  PROVE  /\ server' \in ServerRecords
         /\ server'.sessionType = s.sessionType
         /\ server'.xferIsActive = s.xferIsActive /\ server'.xferBsc = s.xferBsc
         /\ server'.xferBytes = s.xferBytes /\ server'.xferTotal = s.xferTotal
         /\ resetRequested' = resetRequested
BY DEF Serve, ServerRecords

LEMMA TransferEnds ==
  ASSUME NEW s \in ServerRecords
  PROVE  /\ ResetTransfer(s) \in ServerRecords
         /\ ~ ResetTransfer(s).xferIsActive
         /\ ResetTransfer(s).sessionType = s.sessionType
<1> DEFINE s0 == [s EXCEPT !.xferIsActive = FALSE]
           s1 == [s0 EXCEPT !.xferBsc = 1]
           s2 == [s1 EXCEPT !.xferBytes = 0]
           t == ResetTransfer(s)
<1>1. 1 \in 0 .. BscModulus - 1 /\ 0 \in 0 .. SlotSize
  BY Constants
<1>2. s0 \in ServerRecords /\ ~ s0.xferIsActive /\ s0.sessionType = s.sessionType
  BY DEF ServerRecords
<1>3. t = [s2 EXCEPT !.xferTotal = 0]
  BY DEF ResetTransfer
<1>4. s1 = [s0 EXCEPT !.xferBsc = 1] /\ s2 = [s1 EXCEPT !.xferBytes = 0]
  OBVIOUS
<1> HIDE DEF s0, s1, s2, t
<1>5. s1 \in ServerRecords /\ s1.xferBsc = 1
        /\ s1.xferIsActive = s0.xferIsActive /\ s1.sessionType = s0.sessionType
  BY <1>1, <1>2, <1>4 DEF ServerRecords
<1>6. s2 \in ServerRecords /\ s2.xferBytes = 0 /\ s2.xferBsc = s1.xferBsc
        /\ s2.xferIsActive = s1.xferIsActive /\ s2.sessionType = s1.sessionType
  BY <1>1, <1>4, <1>5 DEF ServerRecords
<1>7. t \in ServerRecords /\ t.xferTotal = 0 /\ t.xferBytes = s2.xferBytes
        /\ t.xferBsc = s2.xferBsc
        /\ t.xferIsActive = s2.xferIsActive /\ t.sessionType = s2.sessionType
  BY <1>1, <1>3, <1>6 DEF ServerRecords
<1> QED
  BY <1>2, <1>5, <1>6, <1>7 DEF t

LEMMA TransferBegins ==
  ASSUME NEW s \in ServerRecords, NEW total \in 0 .. SlotSize
  PROVE  /\ BeginTransfer(s, total) \in ServerRecords
         /\ BeginTransfer(s, total).xferIsActive
         /\ BeginTransfer(s, total).sessionType = s.sessionType
         /\ BeginTransfer(s, total).xferBsc = 1
         /\ BeginTransfer(s, total).xferBytes = 0
         /\ BeginTransfer(s, total).xferTotal = total
<1> DEFINE s0 == [s EXCEPT !.xferIsActive = TRUE]
           s1 == [s0 EXCEPT !.xferBsc = 1]
           s2 == [s1 EXCEPT !.xferBytes = 0]
           t == BeginTransfer(s, total)
<1>1. 1 \in 0 .. BscModulus - 1 /\ 0 \in 0 .. SlotSize
  BY Constants
<1>2. s0 \in ServerRecords /\ s0.xferIsActive /\ s0.sessionType = s.sessionType
  BY DEF ServerRecords
<1>3. t = [s2 EXCEPT !.xferTotal = total]
  BY DEF BeginTransfer
<1>4. s1 = [s0 EXCEPT !.xferBsc = 1] /\ s2 = [s1 EXCEPT !.xferBytes = 0]
  OBVIOUS
<1> HIDE DEF s0, s1, s2, t
<1>5. s1 \in ServerRecords /\ s1.xferBsc = 1
        /\ s1.xferIsActive = s0.xferIsActive /\ s1.sessionType = s0.sessionType
  BY <1>1, <1>2, <1>4 DEF ServerRecords
<1>6. s2 \in ServerRecords /\ s2.xferBytes = 0 /\ s2.xferBsc = s1.xferBsc
        /\ s2.xferIsActive = s1.xferIsActive /\ s2.sessionType = s1.sessionType
  BY <1>1, <1>4, <1>5 DEF ServerRecords
<1>7. t \in ServerRecords /\ t.xferTotal = total /\ t.xferBytes = s2.xferBytes
        /\ t.xferBsc = s2.xferBsc
        /\ t.xferIsActive = s2.xferIsActive /\ t.sessionType = s2.sessionType
  BY <1>1, <1>3, <1>6 DEF ServerRecords
<1> QED
  BY <1>2, <1>5, <1>6, <1>7 DEF t

LEMMA BlockCounts ==
  ASSUME NEW s \in ServerRecords, NEW length \in Nat, s.xferBytes + length <= SlotSize
  PROVE  /\ CountedBlock(s, length) \in ServerRecords
         /\ CountedBlock(s, length).sessionType = s.sessionType
         /\ CountedBlock(s, length).xferIsActive = s.xferIsActive
         /\ CountedBlock(s, length).xferBsc = (s.xferBsc + 1) % BscModulus
         /\ CountedBlock(s, length).xferBytes = s.xferBytes + length
         /\ CountedBlock(s, length).xferTotal = s.xferTotal
<1> DEFINE b == (s.xferBsc + 1) % BscModulus
           c == s.xferBytes + length
           s1 == [s EXCEPT !.xferBsc = b]
           t == CountedBlock(s, length)
<1>1. s.xferBsc \in 0 .. BscModulus - 1 /\ s.xferBytes \in 0 .. SlotSize
  BY DEF ServerRecords
<1>2. b \in 0 .. BscModulus - 1 /\ c \in 0 .. SlotSize
  BY <1>1, Constants
<1>3. t = [s1 EXCEPT !.xferBytes = c]
  BY DEF CountedBlock
<1> HIDE DEF b, c, t
<1>4. s1 \in ServerRecords /\ s1.xferBsc = b /\ s1.sessionType = s.sessionType
        /\ s1.xferIsActive = s.xferIsActive /\ s1.xferTotal = s.xferTotal
  BY <1>2 DEF ServerRecords
<1> HIDE DEF s1
<1>5. t \in ServerRecords /\ t.xferBytes = c /\ t.xferBsc = s1.xferBsc
        /\ t.sessionType = s1.sessionType /\ t.xferIsActive = s1.xferIsActive
        /\ t.xferTotal = s1.xferTotal
  BY <1>2, <1>3, <1>4 DEF ServerRecords
<1> QED
  BY <1>4, <1>5 DEF b, c, t

LEMMA InitialTypes ==
  InitialServer \in ServerRecords /\ ~ InitialServer.xferIsActive
BY Constants DEF InitialServer, ServerRecords

\* A server that locks forgets its seed.
LEMMA Locks ==
  ASSUME Seeds, SecurityAccess_ClearUnlock
  PROVE  Seeds'
<1>1. sec'.seed = 0 /\ sec' \in [seed : 0 .. MaxSeeds, unlocked : BOOLEAN]
  BY SeedBound DEF SecurityAccess_ClearUnlock, LockedSecurity, ZeroSeed
<1> QED
  BY <1>1 DEF Seeds, SecurityAccess_ClearUnlock, ZeroSeed

\* What every step is to do: keep the invariant, and be a step of ImageInstall or none.
InstallStep == Install!Next \/ UNCHANGED Install!vars
Preserved == ServerInv' /\ InstallStep

\* A phase that is over gives the image up, if there was one.
LEMMA InstallEnds ==
  ASSUME installPhase' = "closed"
  PROVE  InstallStep
<1>1. CASE installPhase = "closed"
  BY <1>1 DEF InstallStep, Install!vars
<1>2. CASE installPhase # "closed"
  <2>1. D!BlankArea = Install!BlankArea
    BY DEF D!BlankArea, Install!BlankArea, D!UnitOffsets, Install!UnitOffsets
  <2>2. Install!GiveUp
    BY <1>2, <2>1 DEF Install!GiveUp, Install!Closed
  <2> QED
    BY <2>2 DEF InstallStep, Install!Next
<1> QED
  BY <1>1, <1>2

\* The image does not change with the session and the flash, unless the library ends the transfer.
LEMMA InstallKept ==
  ASSUME UNCHANGED <<session, flash>>,
         ~ server'.xferIsActive \/ server'.xferIsActive = server.xferIsActive
  PROVE  InstallStep
<1>1. CASE installPhase' = installPhase
  BY <1>1 DEF InstallStep, Install!vars
<1>2. CASE installPhase' # installPhase
  <2>1. installPhase' = "closed"
    BY <1>2 DEF installPhase
  <2> QED
    BY <2>1, InstallEnds
<1> QED
  BY <1>1, <1>2

\* The steps that leave the session alone: the library's transfer goes on, or ends.
LEMMA SessionAlone ==
  ASSUME ServerInv, UNCHANGED downloadVars, ServerTypes', Seeds',
         server'.sessionType = server.sessionType, sec.unlocked => sec'.unlocked,
         \/ ~ server'.xferIsActive
         \/ /\ server'.xferIsActive = server.xferIsActive /\ server'.xferBsc = server.xferBsc
            /\ server'.xferBytes = server.xferBytes /\ server'.xferTotal = server.xferTotal
  PROVE  Preserved
<1>1. UNCHANGED <<flash, running, activeSlot, alive, session, job>>
  BY DEF downloadVars
<1>2. P!IInv'
  BY <1>1, P!StepInv, Constants DEF ServerInv, P!vars
<1>3. DownloadIsAuthorised'
  BY <1>1 DEF ServerInv, Transfer, DownloadIsAuthorised
<1>4. LayersAgree' /\ FreshSession' /\ BlankAhead'
  BY <1>1 DEF ServerInv, Transfer, LayersAgree, FreshSession, BlankAhead
<1>5. InstallStep
  BY <1>1, InstallKept
<1> QED
  BY <1>2, <1>3, <1>4, <1>5 DEF Preserved, ServerInv, Transfer

\* The steps that end the session.
LEMMA SessionOver ==
  ASSUME P!IInv', ServerTypes', Seeds', session' = D!IdleSession
  PROVE  Preserved
<1>1. session'.state = "IDLE"
  BY DEF D!IdleSession
<1>2. InstallStep
  BY <1>1, InstallEnds DEF installPhase
<1> QED
  BY <1>1, <1>2
  DEF Preserved, ServerInv, Transfer, DownloadIsAuthorised, LayersAgree, FreshSession, BlankAhead

\* An abort by whatever path.
LEMMA Aborted ==
  ASSUME ServerInv, D!Download_Abort, ServerTypes', Seeds'
  PROVE  Preserved
<1>1. P!IInv'
  BY SameAbort, P!AbortInv, Constants DEF ServerInv
<1> QED
  BY <1>1, SessionOver DEF D!Download_Abort

LEMMA SeedsKept ==
  ASSUME Seeds, UNCHANGED secVars
  PROVE  Seeds' /\ sec' = sec
BY DEF Seeds, secVars

\* A request that is only answered, with the library's record changed outside the transfer.
LEMMA OnlyAnswered ==
  ASSUME ServerInv, UNCHANGED downloadVars, Seeds', sec.unlocked => sec'.unlocked,
         NEW s \in ServerRecords, NEW r, Serve(s, r),
         s.sessionType = server.sessionType,
         \/ ~ s.xferIsActive
         \/ /\ s.xferIsActive = server.xferIsActive /\ s.xferBsc = server.xferBsc
            /\ s.xferBytes = server.xferBytes /\ s.xferTotal = server.xferTotal
  PROVE  Preserved
<1>1. server' \in ServerRecords /\ server'.sessionType = s.sessionType
        /\ server'.xferIsActive = s.xferIsActive /\ server'.xferBsc = s.xferBsc
        /\ server'.xferBytes = s.xferBytes /\ server'.xferTotal = s.xferTotal
        /\ resetRequested' = resetRequested
  BY Served
<1>2. ServerTypes'
  BY <1>1 DEF ServerInv, ServerTypes
<1>3. server'.sessionType = server.sessionType
  BY <1>1
<1>4. \/ ~ server'.xferIsActive
      \/ /\ server'.xferIsActive = server.xferIsActive /\ server'.xferBsc = server.xferBsc
         /\ server'.xferBytes = server.xferBytes /\ server'.xferTotal = server.xferTotal
  BY <1>1
<1> QED
  BY <1>2, <1>3, <1>4, SessionAlone

LEMMA EcuResetInv ==
  ASSUME ServerInv, NEW type, EcuReset(type)
  PROVE  Preserved
<1> DEFINE s == [server EXCEPT !.notReadyToReceive = TRUE, !.ecuResetScheduled = TRUE]
           t == [server EXCEPT !.notReadyToReceive = TRUE]
<1>1. UNCHANGED downloadVars /\ Seeds' /\ (sec.unlocked => sec'.unlocked)
  BY SeedsKept DEF EcuReset, ServerInv
<1>2. server \in ServerRecords
  BY DEF ServerInv, ServerTypes
<1>3. t \in ServerRecords /\ t.sessionType = server.sessionType
        /\ t.xferIsActive = server.xferIsActive /\ t.xferBsc = server.xferBsc
        /\ t.xferBytes = server.xferBytes /\ t.xferTotal = server.xferTotal
  BY <1>2 DEF ServerRecords
<1>4. s = [t EXCEPT !.ecuResetScheduled = TRUE]
  OBVIOUS
<1>5. \E code, r : Serve(s, r) \/ Serve(server, Reply("0x11", code))
  BY Zenon DEF EcuReset
<1> HIDE DEF t, s
<1>6. s \in ServerRecords /\ s.sessionType = t.sessionType
        /\ s.xferIsActive = t.xferIsActive /\ s.xferBsc = t.xferBsc
        /\ s.xferBytes = t.xferBytes /\ s.xferTotal = t.xferTotal
  BY <1>3, <1>4 DEF ServerRecords
<1>7. ASSUME NEW r, Serve(s, r) PROVE Preserved
  <2>1. s.sessionType = server.sessionType /\ s.xferIsActive = server.xferIsActive
          /\ s.xferBsc = server.xferBsc /\ s.xferBytes = server.xferBytes
          /\ s.xferTotal = server.xferTotal
    BY <1>3, <1>6
  <2> QED
    BY <1>1, <1>6, <1>7, <2>1, OnlyAnswered
<1>8. ASSUME NEW r, Serve(server, r) PROVE Preserved
  BY <1>1, <1>2, <1>8, OnlyAnswered
<1> QED
  BY <1>5, <1>7, <1>8

\* The requests that change nothing but the answer.
LEMMA NothingChanges ==
  ASSUME ServerInv, NEW r, Serve(server, r), UNCHANGED <<downloadVars, secVars>>
  PROVE  Preserved
<1>1. Seeds' /\ sec' = sec /\ server \in ServerRecords
  BY SeedsKept DEF ServerInv, ServerTypes
<1> QED
  BY <1>1, OnlyAnswered

\* A block that is refused ends the transfer of the library.
LEMMA TransferGivenUp ==
  ASSUME ServerInv, NEW r, UNCHANGED <<downloadVars, secVars>>,
         Serve(IF server.xferIsActive THEN ResetTransfer(server) ELSE server, r)
  PROVE  Preserved
<1>1. Seeds' /\ sec' = sec /\ server \in ServerRecords
  BY SeedsKept DEF ServerInv, ServerTypes
<1>2. CASE server.xferIsActive
  <2>1. Serve(ResetTransfer(server), r)
    BY <1>2, Zenon
  <2> QED
    BY <1>1, <2>1, TransferEnds, OnlyAnswered
<1>3. CASE ~ server.xferIsActive
  <2>1. Serve(server, r)
    BY <1>3, Zenon
  <2> QED
    BY <2>1, NothingChanges
<1> QED
  BY <1>2, <1>3

LEMMA RequestSeedInv ==
  ASSUME ServerInv, RequestSeed
  PROVE  Preserved
<1>1. UNCHANGED downloadVars /\ server \in ServerRecords
  BY DEF RequestSeed, ServerInv, ServerTypes
<1>2. \/ \E r : Serve(server, r) /\ UNCHANGED secVars
      \/ \E r : Serve(server, r) /\ (SecurityAccess_DrawSeed \/ SecurityAccess_NoEntropy)
  BY Zenon DEF RequestSeed
<1>3. ASSUME NEW r, Serve(server, r), UNCHANGED secVars PROVE Preserved
  BY <1>1, <1>3, NothingChanges
<1>4. ASSUME NEW r, Serve(server, r), SecurityAccess_DrawSeed PROVE Preserved
  <2>1. /\ sec \in [seed : 0 .. MaxSeeds, unlocked : BOOLEAN]
        /\ drawn \in 0 .. MaxSeeds /\ lastTried \in 0 .. drawn
    BY DEF ServerInv, Seeds
  <2>2. /\ ~ sec.unlocked /\ drawn' = drawn + 1 /\ lastTried' = lastTried
        /\ drawn' \in 0 .. MaxSeeds
    BY <1>4, <2>1, SeedBound DEF SecurityAccess_DrawSeed
  <2>3. sec' = [sec EXCEPT !.seed = drawn']
    BY <1>4 DEF SecurityAccess_DrawSeed
  <2>4. sec' \in [seed : 0 .. MaxSeeds, unlocked : BOOLEAN] /\ sec'.seed = drawn'
    BY <2>1, <2>2, <2>3
  <2>5. Seeds'
    BY <2>1, <2>2, <2>4, SeedBound DEF Seeds
  <2> QED
    BY <1>1, <1>4, <2>2, <2>5, OnlyAnswered
<1>5. ASSUME NEW r, Serve(server, r), SecurityAccess_NoEntropy PROVE Preserved
  <2>1. ~ sec.unlocked /\ UNCHANGED <<drawn, lastTried>>
    BY <1>5 DEF SecurityAccess_NoEntropy
  <2>2. sec' \in [seed : 0 .. MaxSeeds, unlocked : BOOLEAN] /\ sec'.seed = 0
    BY <1>5, SeedBound DEF SecurityAccess_NoEntropy, ServerInv, Seeds, ZeroSeed
  <2>3. Seeds'
    BY <2>1, <2>2 DEF ServerInv, Seeds, ZeroSeed
  <2> QED
    BY <1>1, <1>5, <2>1, <2>3, OnlyAnswered
<1> QED
  BY <1>2, <1>3, <1>4, <1>5

\* One more field of the library's record, outside the transfer.
LEMMA OtherFields ==
  ASSUME NEW s \in ServerRecords, NEW t,
         \/ t = [s EXCEPT !.seedDelay = "failed"]
         \/ t = [s EXCEPT !.seedDelay = "none"]
         \/ t = [s EXCEPT !.securityLevel = 0]
         \/ t = [s EXCEPT !.securityLevel = 1]
         \/ t = [s EXCEPT !.requestInProgress = FALSE]
         \/ t = [s EXCEPT !.ecuResetScheduled = FALSE]
  PROVE  /\ t \in ServerRecords /\ t.sessionType = s.sessionType
         /\ t.xferIsActive = s.xferIsActive /\ t.xferBsc = s.xferBsc
         /\ t.xferBytes = s.xferBytes /\ t.xferTotal = s.xferTotal
<1>1. CASE t = [s EXCEPT !.seedDelay = "failed"]
  BY <1>1 DEF ServerRecords
<1>2. CASE t = [s EXCEPT !.seedDelay = "none"]
  BY <1>2 DEF ServerRecords
<1>3. CASE t = [s EXCEPT !.securityLevel = 0]
  BY <1>3 DEF ServerRecords
<1>4. CASE t = [s EXCEPT !.securityLevel = 1]
  BY <1>4 DEF ServerRecords
<1>5. CASE t = [s EXCEPT !.requestInProgress = FALSE]
  BY <1>5 DEF ServerRecords
<1>6. CASE t = [s EXCEPT !.ecuResetScheduled = FALSE]
  BY <1>6 DEF ServerRecords
<1> QED
  BY <1>1, <1>2, <1>3, <1>4, <1>5, <1>6, Zenon

\* What a token does to the security state: it uses the seed up.
LEMMA KeySeeds ==
  ASSUME Seeds, NEW token, SecurityAccess_SubmitKey(token)
  PROVE  Seeds' /\ (sec.unlocked => sec'.unlocked)
<1>1. CASE sec.seed = ZeroSeed
  <2>1. UNCHANGED secVars
    BY <1>1 DEF SecurityAccess_SubmitKey
  <2> QED
    BY <2>1, SeedsKept
<1>2. CASE sec.seed # ZeroSeed
  <2>1. sec' = TriedState(token) /\ lastTried' = sec.seed /\ drawn' = drawn
    BY <1>2 DEF SecurityAccess_SubmitKey
  <2>2. sec' = [seed |-> ZeroSeed, unlocked |-> sec.unlocked \/ token = sec.seed]
    BY <2>1 DEF TriedState
  <2>3. sec'.seed = ZeroSeed /\ (sec.unlocked => sec'.unlocked) /\ sec'.unlocked \in BOOLEAN
    BY <2>2, Zenon
  <2>4. sec' \in [seed : 0 .. MaxSeeds, unlocked : BOOLEAN]
    <3>1. ZeroSeed \in 0 .. MaxSeeds
      BY SeedBound DEF ZeroSeed
    <3> QED
      BY <2>2, <3>1, Zenon
  <2>5. Seeds'
    BY <1>2, <2>1, <2>3, <2>4 DEF Seeds, ZeroSeed
  <2> QED
    BY <2>3, <2>5
<1> QED
  BY <1>1, <1>2

LEMMA SendKeyInv ==
  ASSUME ServerInv, NEW token, SendKey(token)
  PROVE  Preserved
<1> DEFINE failed == [server EXCEPT !.seedDelay = "failed"]
           level == [server EXCEPT !.securityLevel = 1]
<1>1. UNCHANGED downloadVars /\ server \in ServerRecords /\ Seeds
  BY DEF SendKey, ServerInv, ServerTypes
<1>2. /\ \E r : Serve(server, r) \/ Serve(failed, r) \/ Serve(level, r)
      /\ UNCHANGED secVars \/ SecurityAccess_SubmitKey(token)
  <2>1. CASE server.seedDelay # "none"
    BY <2>1, Zenon DEF SendKey
  <2>2. CASE server.seedDelay = "none" /\ server.sessionType # "PRGS"
    BY <2>2, Zenon DEF SendKey
  <2>3. CASE server.seedDelay = "none" /\ server.sessionType = "PRGS"
    <3>1. SubmitKeyResult(token) \in {"OK", "SEQUENCE_ERROR", "INVALID_KEY"}
      BY DEF SubmitKeyResult
    <3>2. SecurityAccess_SubmitKey(token)
      BY <2>3, Zenon DEF SendKey
    <3>3. CASE SubmitKeyResult(token) = "OK"
      BY <2>3, <3>2, <3>3 DEF SendKey
    <3>4. CASE SubmitKeyResult(token) = "SEQUENCE_ERROR"
      BY <2>3, <3>2, <3>4 DEF SendKey
    <3>5. CASE SubmitKeyResult(token) = "INVALID_KEY"
      BY <2>3, <3>2, <3>5 DEF SendKey
    <3> QED
      BY <3>1, <3>3, <3>4, <3>5
  <2> QED
    BY <2>1, <2>2, <2>3, Zenon
<1>3. Seeds' /\ (sec.unlocked => sec'.unlocked)
  BY <1>1, <1>2, SeedsKept, KeySeeds
<1>4. failed \in ServerRecords /\ failed.sessionType = server.sessionType
        /\ failed.xferIsActive = server.xferIsActive /\ failed.xferBsc = server.xferBsc
        /\ failed.xferBytes = server.xferBytes /\ failed.xferTotal = server.xferTotal
  BY <1>1, OtherFields
<1>5. level \in ServerRecords /\ level.sessionType = server.sessionType
        /\ level.xferIsActive = server.xferIsActive /\ level.xferBsc = server.xferBsc
        /\ level.xferBytes = server.xferBytes /\ level.xferTotal = server.xferTotal
  BY <1>1, OtherFields
<1> HIDE DEF failed, level
<1>6. ASSUME NEW s \in {server, failed, level}, NEW r, Serve(s, r) PROVE Preserved
  BY <1>1, <1>3, <1>4, <1>5, <1>6, OnlyAnswered
<1> QED
  BY <1>2, <1>6

LEMMA SendUnusableKeyInv ==
  ASSUME ServerInv, SendUnusableKey
  PROVE  Preserved
<1> DEFINE failed == [server EXCEPT !.seedDelay = "failed"]
<1>1. UNCHANGED <<downloadVars, secVars>> /\ server \in ServerRecords
  BY DEF SendUnusableKey, ServerInv, ServerTypes
<1>2. \E r : Serve(server, r) \/ Serve(failed, r)
  BY Zenon DEF SendUnusableKey
<1>3. Seeds' /\ sec' = sec
  BY <1>1, SeedsKept DEF ServerInv
<1>4. failed \in ServerRecords /\ failed.sessionType = server.sessionType
        /\ failed.xferIsActive = server.xferIsActive /\ failed.xferBsc = server.xferBsc
        /\ failed.xferBytes = server.xferBytes /\ failed.xferTotal = server.xferTotal
  BY <1>1, OtherFields
<1> HIDE DEF failed
<1>5. ASSUME NEW s \in {server, failed}, NEW r, Serve(s, r) PROVE Preserved
  BY <1>1, <1>3, <1>4, <1>5, OnlyAnswered
<1> QED
  BY <1>2, <1>5

\* The timers of the library.
LEMMA TimerInv ==
  ASSUME ServerInv, SendResponse \/ SeedDelayPasses \/ DoScheduledReset
  PROVE  Preserved
<1>1. UNCHANGED downloadVars /\ Seeds' /\ sec' = sec
  BY SeedsKept DEF SendResponse, SeedDelayPasses, DoScheduledReset, ServerInv
<1>2. server \in ServerRecords
  BY DEF ServerInv, ServerTypes
<1>3. /\ server' \in ServerRecords /\ server'.sessionType = server.sessionType
      /\ server'.xferIsActive = server.xferIsActive /\ server'.xferBsc = server.xferBsc
      /\ server'.xferBytes = server.xferBytes /\ server'.xferTotal = server.xferTotal
  BY <1>2, OtherFields DEF SendResponse, SeedDelayPasses, DoScheduledReset
<1>4. resetRequested' \in BOOLEAN
  BY DEF SendResponse, SeedDelayPasses, DoScheduledReset, ServerInv, ServerTypes
<1> QED
  BY <1>1, <1>3, <1>4, SessionAlone DEF ServerTypes

LEMMA SessionTimeoutInv ==
  ASSUME ServerInv, SessionTimeout
  PROVE  Preserved
<1> DEFINE t == [server EXCEPT !.sessionType = "DS"]
<1>1. Seeds' /\ D!Download_Abort /\ resetRequested' = resetRequested
  BY Locks DEF SessionTimeout, ServerInv
<1>2. t \in ServerRecords
  BY DEF ServerInv, ServerTypes, ServerRecords
<1>3. server' = [t EXCEPT !.securityLevel = 0]
  BY DEF SessionTimeout
<1> HIDE DEF t
<1>4. ServerTypes'
  BY <1>1, <1>2, <1>3, OtherFields DEF ServerInv, ServerTypes
<1> QED
  BY <1>1, <1>4, Aborted

LEMMA DiagnosticSessionControlInv ==
  ASSUME ServerInv, NEW type, DiagnosticSessionControl(type)
  PROVE  Preserved
<1> DEFINE t == [server EXCEPT !.sessionType = type]
<1>1. server \in ServerRecords /\ Seeds
  BY DEF ServerInv, ServerTypes
<1>2. CASE type \notin {"DS", "PRGS"}
  BY <1>2, NothingChanges DEF DiagnosticSessionControl
<1>3. CASE type \in {"DS", "PRGS"}
  <2>1. Serve(t, Reply("0x10", "OK"))
    BY <1>3 DEF DiagnosticSessionControl
  <2>2. /\ t \in ServerRecords /\ t.sessionType = type
        /\ t.xferIsActive = server.xferIsActive /\ t.xferBsc = server.xferBsc
        /\ t.xferBytes = server.xferBytes /\ t.xferTotal = server.xferTotal
    BY <1>1, <1>3 DEF ServerRecords
  <2> HIDE DEF t
  <2>3. CASE type = server.sessionType
    <3>1. UNCHANGED <<downloadVars, secVars>>
      BY <1>3, <2>3, Zenon DEF DiagnosticSessionControl
    <3>2. Seeds' /\ sec' = sec
      BY <1>1, <3>1, SeedsKept
    <3> QED
      BY <2>1, <2>2, <2>3, <3>1, <3>2, OnlyAnswered
  <2>4. CASE type # server.sessionType
    <3>1. SecurityAccess_ClearUnlock
      BY <1>3, <2>4 DEF DiagnosticSessionControl
    <3>2. Seeds' /\ ServerTypes'
      BY <1>1, <2>1, <2>2, <3>1, Locks, Served DEF ServerInv, ServerTypes
    <3>3. CASE type = "DS"
      <4>1. server.sessionType = "PRGS"
        BY <1>1, <2>4, <3>3 DEF ServerRecords
      <4>2. D!Download_Abort
        BY <1>3, <3>3, <4>1 DEF DiagnosticSessionControl
      <4> QED
        BY <3>2, <4>2, Aborted
    <3>4. CASE type # "DS"
      <4>1. UNCHANGED downloadVars
        BY <1>3, <3>4 DEF DiagnosticSessionControl
      <4>2. UNCHANGED <<flash, running, activeSlot, alive, session, job>>
        BY <4>1 DEF downloadVars
      <4>3. P!IInv'
        BY <4>2, P!StepInv, Constants DEF ServerInv, P!vars
      <4>4. session.state = "IDLE"
        BY <1>1, <1>3, <2>4, <3>4 DEF ServerInv, Transfer, DownloadIsAuthorised
      <4>5. Transfer'
        BY <4>2, <4>4
        DEF Transfer, DownloadIsAuthorised, LayersAgree, FreshSession, BlankAhead
      <4>6. InstallStep
        BY <4>2, <4>4, InstallEnds DEF installPhase
      <4> QED
        BY <3>2, <4>3, <4>5, <4>6 DEF Preserved, ServerInv
    <3> QED
      BY <3>3, <3>4
  <2> QED
    BY <2>3, <2>4
<1> QED
  BY <1>2, <1>3

\* Whatever resets the server ends the session.
LEMMA Reinitialised ==
  ASSUME ServerInv, P!IInv', SecurityAccess_ClearUnlock, server' = InitialServer,
         resetRequested' \in BOOLEAN, session' = D!IdleSession
  PROVE  Preserved
BY Locks, InitialTypes, SessionOver DEF ServerInv, ServerTypes

LEMMA ResetCommunicationInv ==
  ASSUME ServerInv, ResetCommunication
  PROVE  Preserved
<1>1. P!IInv'
  BY SameAbort, P!AbortInv, Constants DEF ResetCommunication, ServerInv
<1> QED
  BY <1>1, Reinitialised DEF ResetCommunication, D!Download_Abort, ServerInv, ServerTypes

LEMMA ResetCommunicationFailsInv ==
  ASSUME ServerInv, ResetCommunicationFails
  PROVE  Preserved
<1>1. /\ alive /\ alive' = FALSE /\ UNCHANGED <<flash, running, activeSlot>>
      /\ session' = P!IdleSession /\ job' = P!IdleJob
  BY SameStates DEF ResetCommunicationFails
<1>2. P!IInv /\ flash \in [P!Slots -> P!Areas]
  BY DEF ServerInv, P!IInv, P!TypeOK
<1>3. P!IInv'
  BY <1>1, <1>2, P!AtRest, Constants
<1> QED
  BY <1>3, Reinitialised DEF ResetCommunicationFails

LEMMA RestartInv ==
  ASSUME ServerInv, Restart
  PROVE  Preserved
<1>1. P!IInv'
  BY SameBoot, P!BootInv, Constants DEF Restart, ServerInv
<1> QED
  BY <1>1, Reinitialised DEF Restart, D!Boot

LEMMA StartEraseMemoryInv ==
  ASSUME ServerInv, StartEraseMemory
  PROVE  Preserved
<1>1. server \in ServerRecords /\ Seeds' /\ sec' = sec
  BY SeedsKept DEF StartEraseMemory, ServerInv, ServerTypes
<1>2. UNCHANGED <<flash, running, activeSlot, alive>> /\ alive
  BY DEF StartEraseMemory, Hears
<1>3. CASE SubfunctionAccess # "OK"
  <2>1. UNCHANGED <<downloadVars, secVars>> /\ \E r : Serve(server, r)
    BY <1>3, Zenon DEF StartEraseMemory, downloadVars
  <2> QED
    BY <2>1, NothingChanges
<1>4. CASE SubfunctionAccess = "OK"
  <2> DEFINE slot == D!BootObservation_GetInactiveSlot
  <2>1. server.sessionType = "PRGS" /\ sec.unlocked
    BY <1>4 DEF SubfunctionAccess, require_programming_and_unlock
  <2>2. slot \in D!Slots
    <3>1. activeSlot \in D!Slots
      <4>1. P!RecordIsTrue /\ P!TypeOK
        BY DEF ServerInv, P!IInv
      <4> QED
        BY <1>2, <4>1, SameStates DEF P!RecordIsTrue, P!TypeOK
    <3> QED
      BY <3>1 DEF D!BootObservation_GetInactiveSlot, D!Slots, D!SLOT_A, D!SLOT_B, D!SLOT_INVALID
  <2>3. /\ session' = [D!IdleSession EXCEPT !.state = "PREPARING", !.target = slot]
        /\ job' = D!StartedJob(slot)
    <3>1. D!EraseJob_CanStart(D!IdleJob, slot) /\ slot # D!SLOT_INVALID
      BY <2>2 DEF D!EraseJob_CanStart, D!IdleJob, D!Slots, D!SLOT_A, D!SLOT_B, D!SLOT_INVALID
    <3>2. D!IdleSession.state = "IDLE"
      BY DEF D!IdleSession
    <3> QED
      BY <1>4, <3>1, <3>2 DEF StartEraseMemory, D!PrepareOutcome
  <2>4. /\ session' = [state |-> "PREPARING", target |-> slot, bsc |-> 1, received |-> 0, size |-> 0]
        /\ job' = [area |-> slot, offset |-> 0]
    BY <2>3 DEF D!IdleSession, D!StartedJob
  <2>5. \E r : Serve(server, r)
    BY <1>4, Zenon DEF StartEraseMemory
  <2>6. ServerTypes' /\ server'.sessionType = server.sessionType
    BY <1>1, <2>5, Served DEF ServerInv, ServerTypes
  <2> HIDE DEF slot
  <2>7. P!IInv'
    <3>1. slot = P!BootObservation_GetInactiveSlot
      BY SameStates DEF slot
    <3> QED
      BY <1>2, <2>4, <3>1, P!PreparationStarts, Constants DEF ServerInv
  <2>8. /\ session'.state = "PREPARING" /\ session'.bsc = 1 /\ session'.received = 0
        /\ session'.size = 0
    BY <2>4
  <2>9. Transfer'
    BY <1>1, <2>1, <2>6, <2>8
    DEF Transfer, DownloadIsAuthorised, LayersAgree, FreshSession, BlankAhead
  <2>10. InstallStep
    BY <2>8, InstallEnds DEF installPhase
  <2> QED
    BY <1>1, <2>6, <2>7, <2>9, <2>10 DEF Preserved, ServerInv
<1> QED
  BY <1>3, <1>4

LEMMA Download_PollInv ==
  ASSUME ServerInv, Download_Poll
  PROVE  Preserved
<1>1. /\ session.state = "PREPARING" /\ (D!PollErases \/ D!PollFails)
      /\ UNCHANGED <<secVars, server, resetRequested>>
  BY DEF Download_Poll, D!Download_Poll
<1>2. P!IInv'
  BY SamePoll, P!PollInv, Constants DEF Download_Poll, ServerInv
<1>3. Seeds' /\ sec' = sec /\ ServerTypes'
  BY <1>1, SeedsKept DEF ServerInv, ServerTypes
<1>4. \/ session' = session
      \/ session' = [session EXCEPT !.state = "READY"]
      \/ session' = D!FailedSession
  BY <1>1, Zenon DEF D!PollErases, D!PollFails
<1>5. session.bsc = 1 /\ session.received = 0 /\ session.size = 0
        /\ server.sessionType = "PRGS" /\ sec.unlocked
  BY <1>1 DEF ServerInv, Transfer, FreshSession, DownloadIsAuthorised
<1>6. /\ session'.state \in {"PREPARING", "READY", "PREPARATION_FAILED"}
      /\ session'.bsc = 1 /\ session'.received = 0 /\ session'.size = 0
  <2>1. CASE session' = session
    BY <1>1, <1>5, <2>1
  <2>2. CASE session' = [session EXCEPT !.state = "READY"]
    BY <1>5, <2>2, StateTypes
  <2>3. CASE session' = D!FailedSession
    BY <2>3 DEF D!FailedSession, D!IdleSession
  <2> QED
    BY <1>4, <2>1, <2>2, <2>3
<1>7. Transfer'
  BY <1>1, <1>3, <1>5, <1>6
  DEF Transfer, DownloadIsAuthorised, LayersAgree, FreshSession, BlankAhead
<1>8. InstallStep
  <2>1. CASE session'.state # "READY"
    BY <1>6, <2>1, InstallEnds DEF installPhase
  <2>2. CASE session'.state = "READY"
    <3>1. installPhase = "closed" /\ installPhase' = "blank"
      BY <1>1, <2>2 DEF installPhase
    <3>2. flash'[session'.target] = D!BlankArea
      BY <1>2, <2>2, SameStates DEF P!IInv, P!PreparedSlotIsBlank
    <3>3. Install!Blank
      BY <1>6, <3>1, <3>2 DEF Install!Blank
    <3> QED
      BY <3>3 DEF InstallStep, Install!Next
  <2> QED
    BY <2>1, <2>2
<1> QED
  BY <1>2, <1>3, <1>7, <1>8 DEF Preserved, ServerInv

\* Only what the session accepts is answered with a positive response.
LEMMA Accepted ==
  ASSUME NEW r \in {"OK", "INCORRECT_LENGTH", "OUT_OF_RANGE", "TRANSFER_SUSPENDED",
                    "SEQUENCE_ERROR", "WRONG_BLOCK_SEQUENCE", "REJECTED",
                    "PROGRAMMING_FAILURE", "NOT_READY"},
         download_result_to_nrc(r) = "OK"
  PROVE  r = "OK"
BY DEF download_result_to_nrc

LEMMA Authorised ==
  ASSUME ServiceAccess = "OK"
  PROVE  server.sessionType = "PRGS" /\ sec.unlocked
BY DEF ServiceAccess, require_programming_and_unlock

LEMMA RequestDownloadInv ==
  ASSUME ServerInv, NEW size \in Sizes, RequestDownload(size)
  PROVE  Preserved
<1>1. server \in ServerRecords /\ Seeds' /\ sec' = sec
  BY SeedsKept DEF RequestDownload, ServerInv, ServerTypes
<1>2. CASE RequestDownloadCode(size) # "OK"
  <2>1. UNCHANGED <<downloadVars, secVars>> /\ \E r : Serve(server, r)
    BY <1>2, Zenon DEF RequestDownload
  <2> QED
    BY <2>1, NothingChanges
<1>3. CASE RequestDownloadCode(size) = "OK"
  <2>1. /\ Serve(BeginTransfer(server, size), Reply("0x34", "OK"))
        /\ D!Download_Begin(size)
    BY <1>3 DEF RequestDownload
  <2>2. server.sessionType = "PRGS" /\ sec.unlocked
    BY <1>3, Authorised DEF RequestDownloadCode
  <2>3. /\ D!BeginResult(session, size) = "OK" /\ session' = D!BegunSession(session, size)
        /\ UNCHANGED flash
    BY <2>1 DEF D!Download_Begin
  <2>4. session.state = "READY" /\ size \in 0 .. SlotSize
    BY <2>3, StateTypes, Constants DEF D!BeginResult
  <2>5. session.bsc = 1 /\ session.received = 0
    BY <2>4 DEF ServerInv, Transfer, FreshSession
  <2>6. P!IInv'
    BY <2>1, SameBegin, P!BeginInv, Constants DEF ServerInv
  <2>7. session' = [state |-> "TRANSFERRING", target |-> session.target, bsc |-> session.bsc,
                    received |-> session.received, size |-> size]
    BY <2>3, StateTypes DEF D!BegunSession
  <2>8. /\ session'.state = "TRANSFERRING" /\ session'.bsc = 1 /\ session'.received = 0
        /\ session'.size = size /\ session'.target = session.target
    BY <2>5, <2>7
  <2>9. /\ ServerTypes' /\ server'.sessionType = "PRGS"
        /\ server'.xferBsc = 1 /\ server'.xferBytes = 0 /\ server'.xferTotal = size
    BY <1>1, <2>1, <2>2, <2>4, TransferBegins, Served DEF ServerInv, ServerTypes
  <2>10. \A off \in D!UnitOffsets : flash[session.target][off] = Erased
    <3>1. P!PreparedSlotIsBlank
      BY DEF ServerInv, P!IInv
    <3>2. flash[session.target] = D!BlankArea
      BY <2>4, <3>1, SameStates DEF P!PreparedSlotIsBlank
    <3> QED
      BY <3>2 DEF D!BlankArea
  <2>11. Transfer'
    BY <1>1, <2>2, <2>3, <2>8, <2>9, <2>10
    DEF Transfer, DownloadIsAuthorised, LayersAgree, FreshSession, BlankAhead
  <2>12. InstallStep
    <3>1. installPhase = "blank" /\ installPhase' = "filling"
      BY <1>1, <2>1, <2>4, <2>8, TransferBegins, Served DEF installPhase
    <3>2. size \in 1 .. SlotSize
      BY <2>3, <2>4, Constants DEF D!BeginResult
    <3>3. Install!Open(size)
      BY <2>3, <2>5, <2>8, <3>1, <3>2 DEF Install!Open
    <3> QED
      BY <3>3 DEF InstallStep, Install!Next
  <2> QED
    BY <1>1, <2>6, <2>9, <2>11, <2>12 DEF Preserved, ServerInv
<1> QED
  BY <1>2, <1>3

\* What the two layers checked before a block goes to the flash.
LEMMA TakenBlock ==
  ASSUME ServerInv, NEW buffer \in D!Buffers(Lengths), NEW bsc,
         TransferDataCode(bsc, buffer.length) = "OK"
  PROVE  /\ buffer.length \in Nat \ {0}
         /\ server.xferIsActive /\ server.sessionType = "PRGS" /\ sec.unlocked
         /\ server.xferBytes + buffer.length <= server.xferTotal
         /\ session.state = "TRANSFERRING"
         /\ buffer.length <= session.size - session.received
         /\ D!TransferCheck(session, bsc, buffer.length) = "OK"
<1>1. buffer.length \in Nat
  <2>1. PICK len \in Lengths :
          buffer \in [length : {len}, data : [D!UnitsOf(len) -> Data \cup {Erased}]]
    BY DEF D!Buffers
  <2> QED
    BY <2>1, Constants
<1>2. server.xferIsActive /\ ServiceAccess = "OK"
        /\ download_result_to_nrc(D!TransferCheck(session, bsc, buffer.length)) = "OK"
  BY DEF TransferDataCode
<1>3. server.xferBytes + buffer.length <= server.xferTotal
  <2>1. ~ (server.xferBytes + buffer.length > server.xferTotal)
    BY DEF TransferDataCode
  <2> QED
    BY <1>1, <2>1, StateTypes DEF ServerRecords
<1>4. D!TransferCheck(session, bsc, buffer.length) = "OK"
  <2>1. D!TransferCheck(session, bsc, buffer.length)
          \in {"OK", "INCORRECT_LENGTH", "TRANSFER_SUSPENDED", "SEQUENCE_ERROR",
               "WRONG_BLOCK_SEQUENCE"}
    BY DEF D!TransferCheck
  <2> QED
    BY <1>2, <2>1, Accepted
<1>5. session.state = "TRANSFERRING" /\ buffer.length # 0
        /\ ~ (buffer.length > session.size - session.received)
  BY <1>4 DEF D!TransferCheck
<1> QED
  BY <1>1, <1>2, <1>3, <1>4, <1>5, Authorised, StateTypes

LEMMA SameTransfer ==
  ASSUME NEW buffer, NEW bsc, alive, D!TransferCheck(session, bsc, buffer.length) = "OK",
         D!BlockIsWritten(buffer) \/ D!BlockFails(buffer),
         UNCHANGED <<running, activeSlot, alive, job>>
  PROVE  P!Download_Transfer(bsc, buffer)
<1>1. P!TransferCheck(session, bsc, buffer.length) = "OK"
  BY DEF D!TransferCheck, P!TransferCheck
<1>2. D!AdvancedSession(session, buffer.length) = P!AdvancedSession(session, buffer.length)
  BY DEF D!AdvancedSession, P!AdvancedSession
<1>3. D!BlockIsWritten(buffer) => P!BlockIsWritten(buffer)
  BY <1>2, SameWrites DEF D!BlockIsWritten, P!BlockIsWritten
<1>4. D!BlockFails(buffer) => P!BlockFails(buffer)
  BY SameWrites DEF D!BlockFails, P!BlockFails
<1> QED
  BY <1>1, <1>3, <1>4 DEF P!Download_Transfer

\* What a block leaves in the session and in the slot.
LEMMA BlockLeaves ==
  ASSUME ServerInv, NEW buffer, buffer.length \in Nat, session.state = "TRANSFERRING",
         D!BlockIsWritten(buffer)
  PROVE  /\ session' = [state |-> "TRANSFERRING", target |-> session.target,
                        bsc |-> (session.bsc + 1) % BscModulus,
                        received |-> session.received + buffer.length, size |-> session.size]
         /\ session.target \in D!Slots
         /\ flash'[session.target]
              = D!Written(flash[session.target], session.received, buffer)
<1>1. session' = [session EXCEPT !.received = @ + buffer.length, !.bsc = (@ + 1) % BscModulus]
  BY DEF D!BlockIsWritten, D!AdvancedSession
<1>2. session.target \in D!Slots
  <2>1. P!SessionOwnsInactive
    BY DEF ServerInv, P!IInv
  <2> QED
    BY <2>1, SameStates DEF P!SessionOwnsInactive
<1>3. flash' = [flash EXCEPT ![session.target] =
                  D!Written(flash[session.target], session.received, buffer)]
  BY DEF D!BlockIsWritten
<1> QED
  BY <1>1, <1>2, <1>3, StateTypes

\* A block that is written goes to the end of the image: the slot was blank there.
LEMMA AppendsBlock ==
  ASSUME ServerInv, NEW buffer \in D!Buffers(Lengths), D!BlockIsWritten(buffer),
         TransferDataCode(server.xferBsc, buffer.length) = "OK",
         installPhase = "filling", installPhase' = "filling"
  PROVE  Install!Append(buffer)
<1> DEFINE area == flash[session.target]
           base == session.received
<1>1. /\ buffer.length \in Nat \ {0} /\ server.xferIsActive /\ session.state = "TRANSFERRING"
      /\ buffer.length <= session.size - session.received
  BY TakenBlock
<1>2. base \in Nat /\ session.size \in Nat
  BY StateTypes, Constants
<1>3. /\ session' = [state |-> "TRANSFERRING", target |-> session.target,
                     bsc |-> (session.bsc + 1) % BscModulus,
                     received |-> session.received + buffer.length, size |-> session.size]
      /\ session.target \in D!Slots
      /\ flash'[session.target] = D!Written(area, base, buffer)
  BY <1>1, BlockLeaves
<1>4. \A off \in D!UnitOffsets : base <= off => area[off] = Erased
  BY <1>1 DEF ServerInv, Transfer, BlankAhead
<1>5. buffer.length \in 1 .. session.size - session.received
  BY <1>1, <1>2
<1>6. buffer.length % ProgramUnit = 0
  BY DEF D!BlockIsWritten, D!WriteSucceeds, D!WriteFits
<1>7. D!UnitOffsets = Install!UnitOffsets /\ \A off \in D!UnitOffsets : off \in Nat
  BY Constants DEF D!UnitOffsets, Install!UnitOffsets
<1>8. D!Written(area, base, buffer)
        = [off \in Install!UnitOffsets |->
             IF off \in base .. base + buffer.length - 1 THEN buffer.data[off - base] ELSE area[off]]
  <2>1. ASSUME NEW off \in D!UnitOffsets
        PROVE  (IF off < base + buffer.length /\ D!Programs(buffer, base, off)
                THEN buffer.data[off - base] ELSE area[off])
               = IF off \in base .. base + buffer.length - 1
                 THEN buffer.data[off - base] ELSE area[off]
    BY <1>1, <1>2, <1>4, <1>7, <2>1 DEF D!Programs
  <2> HIDE DEF area, base
  <2> QED
    BY <1>7, <2>1 DEF D!Written, D!WrittenBelow
<1>9. /\ session'.received = session.received + buffer.length /\ session'.size = session.size
      /\ session'.target = session.target
  BY <1>3
<1>10. flash'[session'.target] =
         [off \in Install!UnitOffsets |->
            IF off \in base .. base + buffer.length - 1 THEN buffer.data[off - base] ELSE area[off]]
  BY <1>3, <1>8, <1>9
<1> QED
  BY <1>5, <1>6, <1>9, <1>10 DEF Install!Append

LEMMA TransferDataTakenInv ==
  ASSUME ServerInv, NEW buffer \in D!Buffers(Lengths),
         TransferDataTaken(server.xferBsc, buffer)
  PROVE  Preserved
<1>1. server \in ServerRecords /\ Seeds' /\ sec' = sec /\ alive
        /\ UNCHANGED <<running, activeSlot, alive, job>>
  BY SeedsKept DEF TransferDataTaken, Hears, ServerInv, ServerTypes
<1>2. TransferDataCode(server.xferBsc, buffer.length) = "OK"
  BY DEF TransferDataTaken
<1>3. /\ buffer.length \in Nat \ {0}
      /\ server.xferIsActive /\ server.sessionType = "PRGS" /\ sec.unlocked
      /\ server.xferBytes + buffer.length <= server.xferTotal
      /\ session.state = "TRANSFERRING"
      /\ D!TransferCheck(session, server.xferBsc, buffer.length) = "OK"
  BY <1>2, TakenBlock
<1>4. D!BlockIsWritten(buffer) \/ D!BlockFails(buffer)
  BY Zenon DEF TransferDataTaken
<1>5. P!IInv'
  <2>1. P!Download_Transfer(server.xferBsc, buffer)
    BY <1>1, <1>3, <1>4, SameTransfer
  <2>2. buffer \in P!Buffers(Lengths)
    BY SameWrites
  <2> QED
    BY <2>1, <2>2, P!TransferInv, Constants DEF ServerInv
<1>6. CASE /\ D!BlockIsWritten(buffer)
           /\ \E r : Serve(CountedBlock(server, buffer.length), r)
  <2>1. /\ ServerTypes' /\ server'.sessionType = "PRGS"
        /\ server'.xferBsc = (server.xferBsc + 1) % BscModulus
        /\ server'.xferBytes = server.xferBytes + buffer.length
        /\ server'.xferTotal = server.xferTotal
    <3>1. server.xferBytes + buffer.length <= SlotSize
      BY <1>1, <1>3, Constants DEF ServerRecords
    <3> QED
      BY <1>1, <1>3, <1>6, <3>1, BlockCounts, Served DEF ServerInv, ServerTypes
  <2>2. /\ server.xferBsc = session.bsc /\ server.xferBytes = session.received
        /\ server.xferTotal = session.size
        /\ \A off \in D!UnitOffsets : session.received <= off => flash[session.target][off] = Erased
    BY <1>3 DEF ServerInv, Transfer, LayersAgree, BlankAhead
  <2>3. /\ session' = [state |-> "TRANSFERRING", target |-> session.target,
                       bsc |-> (session.bsc + 1) % BscModulus,
                       received |-> session.received + buffer.length, size |-> session.size]
        /\ flash'[session.target]
             = D!Written(flash[session.target], session.received, buffer)
    BY <1>3, <1>6, BlockLeaves
  <2>4. /\ session'.state = "TRANSFERRING" /\ session'.target = session.target
        /\ session'.bsc = (session.bsc + 1) % BscModulus
        /\ session'.received = session.received + buffer.length
        /\ session'.size = session.size
    BY <2>3
  <2>5. BlankAhead'
    <3>1. SUFFICES ASSUME NEW off \in D!UnitOffsets, session.received + buffer.length <= off
                   PROVE  flash'[session.target][off] = Erased
      BY <2>4 DEF BlankAhead
    <3>2. off \in Nat /\ session.received \in Nat
      BY StateTypes, Constants DEF D!UnitOffsets
    <3>3. flash'[session.target][off] = flash[session.target][off]
      BY <1>3, <2>3, <3>1, <3>2 DEF D!Written, D!WrittenBelow
    <3> QED
      BY <1>3, <2>2, <3>1, <3>2, <3>3
  <2>6. DownloadIsAuthorised' /\ LayersAgree' /\ FreshSession'
    BY <1>1, <1>3, <2>1, <2>2, <2>4 DEF DownloadIsAuthorised, LayersAgree, FreshSession
  <2>7. InstallStep
    <3>1. server'.xferIsActive
      <4>1. server.xferBytes + buffer.length <= SlotSize
        BY <1>1, <1>3, Constants DEF ServerRecords
      <4>2. /\ CountedBlock(server, buffer.length) \in ServerRecords
            /\ CountedBlock(server, buffer.length).xferIsActive = server.xferIsActive
        BY <1>1, <1>3, <4>1, BlockCounts
      <4>3. server'.xferIsActive = CountedBlock(server, buffer.length).xferIsActive
        BY <1>6, <4>2, Served, Zenon
      <4> QED
        BY <1>3, <4>2, <4>3, Zenon
    <3>2. installPhase = "filling"
      BY <1>3 DEF installPhase
    <3>3. installPhase' = "filling"
      BY <2>4, <3>1 DEF installPhase
    <3>4. Install!Append(buffer)
      BY <1>2, <1>6, <3>2, <3>3, AppendsBlock
    <3>5. buffer \in Install!Buffers(Lengths)
      BY DEF D!Buffers, D!UnitsOf, Install!Buffers, Install!UnitsOf
    <3> QED
      BY <3>2, <3>4, <3>5 DEF InstallStep, Install!Next
  <2> QED
    BY <1>1, <1>5, <2>1, <2>5, <2>6, <2>7 DEF Preserved, ServerInv, Transfer
<1>7. CASE /\ D!BlockFails(buffer)
           /\ \E r : Serve(ResetTransfer(server), r)
  <2>1. ServerTypes' /\ server'.sessionType = "PRGS" /\ ~ server'.xferIsActive
    BY <1>1, <1>3, <1>7, TransferEnds, Served DEF ServerInv, ServerTypes
  <2>2. session' = session
    BY <1>7 DEF D!BlockFails
  <2>3. Transfer'
    BY <1>1, <1>3, <2>1, <2>2
    DEF Transfer, DownloadIsAuthorised, LayersAgree, FreshSession, BlankAhead
  <2>4. InstallStep
    BY <1>3, <2>1, <2>2, InstallEnds DEF installPhase
  <2> QED
    BY <1>1, <1>5, <2>1, <2>3, <2>4 DEF Preserved, ServerInv
<1> QED
  BY <1>6, <1>7, Zenon DEF TransferDataTaken

\* An image that is all there and stays as it is counts as complete.
LEMMA SealsImage ==
  ASSUME installPhase = "filling", installPhase' = "full", flash' = flash,
         session'.target = session.target, session'.received = session.received,
         session'.size = session.size, session.received = session.size
  PROVE  Install!Seal
BY DEF Install!Seal

LEMMA RequestTransferExitInv ==
  ASSUME ServerInv, RequestTransferExit
  PROVE  Preserved
<1>1. server \in ServerRecords /\ Seeds' /\ sec' = sec
  BY SeedsKept DEF RequestTransferExit, ServerInv, ServerTypes
<1>2. Serve(IF server.xferIsActive THEN ResetTransfer(server) ELSE server,
            Reply("0x37", TransferExitCode))
  BY DEF RequestTransferExit
<1>3. CASE TransferExitCode # "OK"
  <2>1. UNCHANGED <<downloadVars, secVars>>
    BY <1>3, Zenon DEF RequestTransferExit
  <2> QED
    BY <1>2, <2>1, TransferGivenUp
<1>4. CASE TransferExitCode = "OK"
  <2>1. server.xferIsActive /\ server.sessionType = "PRGS" /\ sec.unlocked
    BY <1>4, Authorised DEF TransferExitCode
  <2>2. D!Download_Exit
    BY <1>4 DEF RequestTransferExit
  <2>3. ServerTypes' /\ server'.sessionType = "PRGS" /\ ~ server'.xferIsActive
    BY <1>1, <1>2, <2>1, TransferEnds, Served DEF ServerInv, ServerTypes
  <2>4. P!IInv'
    BY <2>2, SameExit, P!ExitInv, Constants DEF ServerInv
  <2>5. session'.state = "COMPLETE"
    BY <2>2, StateTypes DEF D!Download_Exit
  <2>6. Transfer'
    BY <1>1, <2>1, <2>3, <2>5
    DEF Transfer, DownloadIsAuthorised, LayersAgree, FreshSession, BlankAhead
  <2>7. InstallStep
    <3>1. session.state = "TRANSFERRING" /\ session.received = session.size
      BY <2>2 DEF D!Download_Exit, D!ExitAccepted
    <3>2. session'.received = session.received /\ session'.size = session.size
            /\ session'.target = session.target
      BY <2>2, StateTypes DEF D!Download_Exit
    <3>3. installPhase = "filling"
      BY <2>1, <3>1 DEF installPhase
    <3>4. installPhase' = "full"
      BY <2>5 DEF installPhase
    <3>5. flash' = flash
      BY <2>2 DEF D!Download_Exit
    <3>6. Install!Seal
      BY <3>1, <3>2, <3>3, <3>4, <3>5, SealsImage
    <3> QED
      BY <3>6 DEF InstallStep, Install!Next
  <2> QED
    BY <1>1, <2>3, <2>4, <2>6, <2>7 DEF Preserved, ServerInv
<1> QED
  BY <1>3, <1>4

----------------------------------------------------------------------------
(* Every step together *)

LEMMA InitInv == Init => ServerInv /\ Install!Init
<1> SUFFICES ASSUME Init PROVE ServerInv /\ Install!Init
  OBVIOUS
<1>1. session = D!IdleSession /\ session.state = "IDLE"
  BY DEF Init, D!Init, D!IdleSession
<1>2. P!IInv
  BY SameBoot, P!InitInv, Constants DEF Init
<1>3. ServerTypes
  BY InitialTypes DEF Init, ServerTypes
<1>4. Seeds
  BY SeedBound DEF Init, SecurityAccess_InitialState, LockedSecurity, ZeroSeed, Seeds
<1>5. Transfer
  BY <1>1 DEF Transfer, DownloadIsAuthorised, LayersAgree, FreshSession, BlankAhead
<1>6. installPhase = "closed"
  BY <1>1 DEF installPhase
<1>7. D!BlankArea = Install!BlankArea
  BY DEF D!BlankArea, Install!BlankArea, D!UnitOffsets, Install!UnitOffsets
<1>8. Install!Init
  BY <1>6, <1>7 DEF Install!Init, Install!Closed
<1> QED
  BY <1>2, <1>3, <1>4, <1>5, <1>8 DEF ServerInv

LEMMA RequestInv ==
  ASSUME ServerInv, Request
  PROVE  Preserved
<1>1. ASSUME NEW type \in {"DS", "PRGS", "EXTDS"}, DiagnosticSessionControl(type)
      PROVE  Preserved
  BY <1>1, DiagnosticSessionControlInv
<1>2. ASSUME NEW type \in {"HR", "SR"}, EcuReset(type)
      PROVE  Preserved
  BY <1>2, EcuResetInv
<1>3. ASSUME NEW token \in Tokens, SendKey(token)
      PROVE  Preserved
  BY <1>3, SendKeyInv
<1>4. CASE EraseMemoryResults
  BY <1>4, NothingChanges, Zenon DEF EraseMemoryResults
<1>5. ASSUME NEW size \in Sizes, RequestDownload(size)
      PROVE  Preserved
  BY <1>5, RequestDownloadInv
<1>6. ASSUME NEW bsc, NEW length, TransferDataRefused(bsc, length)
      PROVE  Preserved
  BY <1>6, TransferGivenUp, Zenon DEF TransferDataRefused
<1>7. ASSUME NEW buffer \in D!Buffers(Lengths), TransferDataTaken(server.xferBsc, buffer)
      PROVE  Preserved
  BY <1>7, TransferDataTakenInv
<1>8. CASE OtherRequest
  BY <1>8, NothingChanges, Zenon DEF OtherRequest
<1> QED
  BY <1>1, <1>2, <1>3, <1>4, <1>5, <1>6, <1>7, <1>8, RequestSeedInv, SendUnusableKeyInv,
     StartEraseMemoryInv, RequestTransferExitInv, Zenon DEF Request

\* Whatever happens, the invariant is kept, and an installation goes on as ImageInstall allows.
LEMMA StepInv == ServerInv /\ [Next]_vars => Preserved
<1> SUFFICES ASSUME ServerInv, [Next]_vars PROVE Preserved
  OBVIOUS
<1>1. CASE Request
  BY <1>1, RequestInv
<1>2. CASE SendResponse \/ SeedDelayPasses \/ DoScheduledReset
  BY <1>2, TimerInv
<1>3. CASE SessionTimeout
  BY <1>3, SessionTimeoutInv
<1>4. CASE Download_Poll
  BY <1>4, Download_PollInv
<1>5. CASE ResetCommunication
  BY <1>5, ResetCommunicationInv
<1>6. CASE ResetCommunicationFails
  BY <1>6, ResetCommunicationFailsInv
<1>7. CASE PollReset \/ WatchdogReset \/ PowerFailure
  <2>1. Restart
    BY <1>7 DEF PollReset, WatchdogReset, PowerFailure
  <2> QED
    BY <2>1, RestartInv
<1>8. CASE UNCHANGED vars
  <2>1. UNCHANGED downloadVars /\ UNCHANGED secVars /\ server' = server
          /\ resetRequested' = resetRequested
    BY <1>8 DEF vars
  <2>2. Seeds' /\ sec' = sec /\ ServerTypes'
    BY <2>1, SeedsKept DEF ServerInv, ServerTypes
  <2> QED
    BY <2>1, <2>2, SessionAlone
<1> QED
  BY <1>1, <1>2, <1>3, <1>4, <1>5, <1>6, <1>7, <1>8, Zenon DEF Next

\* The inductive invariant holds in every reachable state.
LEMMA Invariance == Spec => []ServerInv
<1>1. ServerInv /\ [Next]_vars => ServerInv'
  BY StepInv DEF Preserved
<1> QED
  BY <1>1, InitInv, PTL DEF Spec

\* Nothing but a token unlocks the server, and it is tried against the seed that is out.
LEMMA OnlyAKeyUnlocks ==
  ASSUME ServerInv, [Next]_vars, ~ sec.unlocked, sec'.unlocked
  PROVE  sec.seed > lastTried
<1>1. sec \in [seed : 0 .. MaxSeeds, unlocked : BOOLEAN]
  BY DEF ServerInv, Seeds
<1>2. sec' # sec
  OBVIOUS
<1>3. ~ UNCHANGED secVars /\ ~ UNCHANGED vars
  BY <1>2 DEF secVars, vars
<1>4. ~ SecurityAccess_ClearUnlock
  BY DEF SecurityAccess_ClearUnlock, LockedSecurity
<1>5. ~ SecurityAccess_DrawSeed /\ ~ SecurityAccess_NoEntropy
  <2>1. ASSUME NEW seed, sec' = [sec EXCEPT !.seed = seed]
        PROVE  FALSE
    <3>1. sec'.unlocked = sec.unlocked
      BY <1>1, <2>1
    <3> QED
      BY <3>1, Zenon
  <2> QED
    BY <2>1 DEF SecurityAccess_DrawSeed, SecurityAccess_NoEntropy
<1>6. ASSUME NEW token, SendKey(token)
      PROVE  sec.seed > lastTried
  <2>1. SecurityAccess_SubmitKey(token)
    BY <1>3, <1>6, Zenon DEF SendKey
  <2>2. sec.seed # ZeroSeed
    BY <1>3, <2>1 DEF SecurityAccess_SubmitKey
  <2> QED
    BY <1>1, <2>2 DEF ServerInv, Seeds
<1>7. Request => \E token : SendKey(token)
  BY <1>3, <1>4, <1>5, Zenon
  DEF Request, DiagnosticSessionControl, EcuReset, RequestSeed, StartEraseMemory,
      EraseMemoryResults, RequestDownload, TransferDataRefused, TransferDataTaken,
      RequestTransferExit, SendUnusableKey, OtherRequest
<1>8. Request
  BY <1>3, <1>4, Zenon
  DEF Next, SendResponse, SeedDelayPasses, SessionTimeout, DoScheduledReset, Download_Poll,
      ResetCommunication, ResetCommunicationFails, PollReset, WatchdogReset, PowerFailure, Restart
<1> QED
  BY <1>6, <1>7, <1>8

----------------------------------------------------------------------------
(* The theorems *)

\* The state of the library, of SecurityAccess and of the download session keeps its types: no
\* counter leaves its width and no length the slot.
THEOREM TypeCorrect == Spec => []TypeOK
<1>1. ServerInv => TypeOK
  BY TypeHolds
<1> QED
  BY <1>1, Invariance, PTL

\* Whatever a client sends, and whatever timer or reset comes between, a download that has begun
\* belongs to a programming session that is unlocked.
THEOREM DownloadAuthorised == Spec => []DownloadIsAuthorised
<1>1. ServerInv => DownloadIsAuthorised
  BY DEF ServerInv, Transfer
<1> QED
  BY <1>1, Invariance, PTL

\* While the library and the application both take blocks, they count the same blocks and bytes.
THEOREM LayersInStep == Spec => []LayersAgree
<1>1. ServerInv => LayersAgree
  BY DEF ServerInv, Transfer
<1> QED
  BY <1>1, Invariance, PTL

\* No client takes away the image that runs.
THEOREM RunningImageSafe == Spec => []D!RunningImagePreserved
<1>1. ServerInv => D!RunningImagePreserved
  <2>1. ServerInv => P!RunningImagePreserved
    BY DEF ServerInv, P!IInv
  <2> QED
    BY <2>1, SameStates
    DEF D!RunningImagePreserved, P!RunningImagePreserved, D!Bootable, P!Bootable
<1> QED
  BY <1>1, Invariance, PTL

\* A seed unlocks the server in one try or never (SecurityAccess_SubmitKey clears it).
THEOREM SeedUsedOnce == Spec => SeedTriedOnce
<1>1. ServerInv /\ [Next]_vars
        => [~ sec.unlocked /\ sec'.unlocked => sec.seed > lastTried]_vars
  BY OnlyAKeyUnlocks
<1> QED
  BY <1>1, Invariance, PTL DEF Spec, SeedTriedOnce

\* The server implements ImageInstall: the slot holds the blocks that were acknowledged, each
\* where the last one ended, and a transfer that was broken off is never resumed.
THEOREM ImplementsImageInstall == Spec => InstallsImage
<1>1. ServerInv /\ [Next]_vars => [Install!Next]_(Install!vars)
  BY StepInv DEF Preserved, InstallStep
<1>2. Init => Install!Init
  BY InitInv
<1> QED
  BY <1>1, <1>2, Invariance, PTL DEF Spec, InstallsImage, Install!Spec
=============================================================================
