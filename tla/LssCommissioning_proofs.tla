---------------------- MODULE LssCommissioning_proofs ----------------------
(***************************************************************************)
(* The safety properties of LssCommissioning, for every number of clients, *)
(* set of identifiers and addresses.                                       *)
(*                                                                         *)
(* Every step of the daemon but the acceptance and the end of a client is  *)
(* a turn of the interpreter, by the timer, an answer or a new command:    *)
(* Turning says what one is, TurnsTo what comes of it.  Session is kept    *)
(* whoever the clients are.  With one updater at a time, Link says what    *)
(* can be under way on the bus meanwhile, and Selected which node it is    *)
(* about.                                                                  *)
(***************************************************************************)
EXTENDS LssCommissioning, SequenceTheorems, TLAPS

----------------------------------------------------------------------------
(* The fields the records have *)

Codes == {"OK", "ERROR"}
Ids == NodeIds \cup {CO_LSS_NODE_ID_ASSIGNMENT, 0}
Replies == [sequence : 0 .. 4, owner : Clients \cup {NoClient}, code : Codes, id : Ids]
Requests == [step : 0 .. 4, address : Addresses \cup {0}, reply : Replies, id : Ids]

FrameKinds == {"DESELECT", "SELECT", "CHECK", "SCAN", "VERIFY",
               "CFG_NODE_ID", "CFG_STORE", "INQUIRE"}
Frames == {NoFrame} \cup [cs : FrameKinds, value : Nat \cup Addresses]

AnswerKinds == {"none", "SWITCH_STATE", "FASTSCAN", "INQUIRE", "CFG_NODE_ID", "CFG_STORE"}
NodeAnswers == [cs : AnswerKinds, code : Codes, id : Ids]

Masters == [state : {"WAITING", "SELECTIVE"},
            command : {"WAITING", "SWITCH_STATE", "FASTSCAN", "INQUIRE", "CFG_NODE_ID",
                       "CFG_STORE"},
            rx : NodeAnswers, fsState : {"CHECK", "SCAN", "VERIFY"}, fsIdNumber : {0},
            tx : Frames]

Interpreters == [state : {"IDLE", "ALLNODES", "SWITCH_SEL", "INQUIRE", "SWITCH_GLOB"},
                 lssSubState : 0 .. 2, lssNID : Nat, assigned : Nat,
                 address : Addresses \cup {0}, fifo : 0 .. 4, sequence : 0 .. 4,
                 owner : Clients \cup {NoClient}, resp : Replies]

Slaves == [lssState : {"WAITING", "CONFIGURATION"},
           activeNodeID : NodeIds \cup {CO_LSS_NODE_ID_ASSIGNMENT},
           service : {"none", "SWITCH_STATE_GLOBAL", "SWITCH_STATE_SEL_SERIAL", "IDENT_FASTSCAN",
                      "CFG_NODE_ID", "CFG_STORE", "INQUIRE"},
           nid : Nat \cup Addresses \cup {BadNodeId}]

DaemonTypes ==
  /\ clients \in [Clients -> Requests]
  /\ backlog \in Seq(Clients)
  /\ client \in Clients \cup {NoClient}
  /\ taken \in 0 .. 4
  /\ armed \in BOOLEAN
  /\ gtwa \in Interpreters
  /\ master \in Masters
  /\ canRx \in Seq(NodeAnswers)

NodeTypes ==
  /\ lss \in Slaves
  /\ mainThread.at \in {"loop", "reset", "erasing", "programming"}
  /\ DOMAIN mainThread = {"at", "previous"}
  /\ up \in BOOLEAN
  /\ ValidLssNodeId(s_lss_pending_node_id)

\* An interpreter g goes on as h with the same command, or ends it with a reply.
Continues(g, h) ==
  /\ h \in Interpreters
  /\ h.state = g.state /\ h.sequence = g.sequence /\ h.owner = g.owner
  /\ h.resp = g.resp /\ h.fifo = g.fifo /\ h.address = g.address

Ends(g, h, code) ==
  /\ h \in Interpreters
  /\ h.state = "IDLE" /\ h.fifo = g.fifo /\ h.address = g.address
  /\ h.resp # NoReply
  /\ h.resp.sequence = g.sequence /\ h.resp.owner = g.owner /\ h.resp.code = code

\* A master m that awaits the answer it awaited, needs none any more, or has sent a request.
Kept(m, n) == n \in Masters /\ n.command = m.command /\ n.tx = m.tx /\ n.state = m.state
Freed(m, n) == n \in Masters /\ n.command = "WAITING" /\ n.rx = NoAnswer /\ n.tx = m.tx
Sent(n, command, frame) ==
  n \in Masters /\ n.command = command /\ n.rx = NoAnswer /\ n.tx = frame

LEMMA Constants == NoClient \notin Clients /\ FirstId \in Nat /\ LastId \in Nat
BY MasterConstants

LEMMA Records ==
  /\ NoReply \in Replies /\ NoAnswer \in NodeAnswers /\ NoFrame \in Frames
  /\ Away \in Requests /\ IdleMaster \in Masters /\ IdleGtwa \in Interpreters
<1>1. NoReply \in Replies
  BY DEF NoReply, Replies, Codes, Ids
<1>2. NoAnswer \in NodeAnswers
  BY DEF NoAnswer, NodeAnswers, AnswerKinds, Codes, Ids
<1>3. NoFrame \in Frames
  BY DEF NoFrame, Frames, FrameKinds
<1>4. Away \in Requests
  BY <1>1 DEF Away, Requests, Ids
<1>5. IdleMaster \in Masters
  BY <1>2, <1>3 DEF IdleMaster, Masters
<1>6. IdleGtwa \in Interpreters
  BY <1>1, Constants DEF IdleGtwa, Interpreters
<1> QED BY <1>1, <1>2, <1>3, <1>4, <1>5, <1>6

LEMMA ResponseEnds ==
  ASSUME NEW g \in Interpreters, g.state # "IDLE", g.sequence # 0, NEW code \in Codes,
         NEW id \in Ids
  PROVE  /\ Ends(g, Respond(g, code, id), code)
         /\ Respond(g, code, id).assigned = g.assigned
<1>1. [sequence |-> g.sequence, owner |-> g.owner, code |-> code, id |-> id] \in Replies
  BY DEF Interpreters, Replies
<1>2. [sequence |-> g.sequence, owner |-> g.owner, code |-> code, id |-> id] # NoReply
  BY DEF NoReply
<1> QED BY <1>1, <1>2 DEF Respond, Ends, Interpreters

\* A wait
LEMMA WaitIsOver ==
  ASSUME NEW m \in Masters, NEW cs \in AnswerKinds \ {"none"}, NEW late \in BOOLEAN
  PROVE  LET r == CheckWait(m, cs, late)
         IN  /\ r.id \in Ids
             /\ r.ret \in {"OK", "ERROR", "TIMEOUT", "WAIT"}
             /\ r.ret = "WAIT" => m.rx.cs # cs /\ ~ late /\ Kept(m, r.m) /\ r.m.rx = NoAnswer
             /\ r.ret # "WAIT" => Freed(m, r.m) /\ r.m.state = m.state
             /\ r.ret = "OK" => m.rx.cs = cs /\ m.rx.code = "OK"
<1> DEFINE heard == [m EXCEPT !.rx = NoAnswer]
           over == [heard EXCEPT !.command = "WAITING"]
<1>1. heard \in Masters /\ heard.command = m.command /\ heard.tx = m.tx /\ heard.state = m.state
      /\ heard.rx = NoAnswer
  BY Records DEF Masters
<1>2. over \in Masters /\ over.command = "WAITING" /\ over.tx = m.tx /\ over.state = m.state
      /\ over.rx = NoAnswer
  BY <1>1 DEF Masters
<1>3. m.rx.code \in Codes /\ m.rx.id \in Ids
  BY DEF Masters, NodeAnswers
<1>4. CheckWait(m, cs, late) =
        IF m.rx.cs = cs THEN [ret |-> m.rx.code, id |-> m.rx.id, m |-> over]
        ELSE IF late THEN [ret |-> "TIMEOUT", id |-> 0, m |-> over]
        ELSE [ret |-> "WAIT", id |-> 0, m |-> heard]
  BY Zenon DEF CheckWait, Answers, Ret
<1>5. 0 \in Ids
  BY DEF Ids
<1> HIDE DEF heard, over
<1> QED BY <1>1, <1>2, <1>3, <1>4, <1>5 DEF Codes, Kept, Freed

----------------------------------------------------------------------------
(* What each service of the master returns *)

LEMMA Initiates ==
  ASSUME NEW m \in Masters, NEW state \in {"WAITING", "SELECTIVE"},
         NEW command \in {"SWITCH_STATE", "FASTSCAN", "INQUIRE", "CFG_NODE_ID", "CFG_STORE"},
         NEW frame \in Frames
  PROVE  LET r == Initiate(m, state, command, frame)
         IN  r.ret = "WAIT" /\ r.id = 0 /\ Sent(r.m, command, frame) /\ r.m.state = state
BY Records DEF Initiate, Ret, Sent, Masters

LEMMA ReturnToWaiting ==
  ASSUME NEW ret, NEW id, NEW m \in Masters
  PROVE  LET r == [[ret |-> ret, id |-> id, m |-> m]
                     EXCEPT !.m.state = "WAITING", !.m.command = "WAITING"]
         IN  /\ r.ret = ret /\ r.id = id
             /\ r.m = [[m EXCEPT !.state = "WAITING"] EXCEPT !.command = "WAITING"]
OBVIOUS

LEMMA SelectionOutcome ==
  ASSUME NEW m \in Masters, NEW address \in Addresses \cup {0}, NEW late \in BOOLEAN,
         m.command \in {"WAITING", "SWITCH_STATE"}, m.command = "WAITING" => m.rx = NoAnswer
  PROVE  LET r == CO_LSSmaster_swStateSelect(m, address, late)
         IN  /\ r.id \in Ids
             /\ \/ r.ret = "WAIT" /\ m.command = "WAITING"
                   /\ Sent(r.m, "SWITCH_STATE", Frame("SELECT", address))
                \/ r.ret = "WAIT" /\ m.command = "SWITCH_STATE" /\ Kept(m, r.m) /\ r.m.rx = NoAnswer
                \/ r.ret \in {"OK", "ERROR", "TIMEOUT", "INVALID_STATE"} /\ Freed(m, r.m)
<1> DEFINE starts == Initiate(m, "SELECTIVE", "SWITCH_STATE", Frame("SELECT", address))
           waits == CheckWait(m, "SWITCH_STATE", late)
           refused == [ret |-> "INVALID_STATE", id |-> 0, m |-> m]
           r0 == IF m.state = "WAITING" /\ m.command = "WAITING" THEN starts
                 ELSE IF m.command = "SWITCH_STATE" THEN waits ELSE refused
           Back(r) == [r EXCEPT !.m.state = "WAITING", !.m.command = "WAITING"]
<1>0. CO_LSSmaster_swStateSelect(m, address, late)
        = IF r0.ret \in {"WAIT", "OK"} THEN r0 ELSE Back(r0)
  BY Zenon DEF CO_LSSmaster_swStateSelect, Ready, Ret
<1>1. Frame("SELECT", address) \in Frames
  BY DEF Frame, Frames, FrameKinds
<1>2. starts.ret = "WAIT" /\ starts.id = 0
      /\ Sent(starts.m, "SWITCH_STATE", Frame("SELECT", address))
  BY <1>1, Initiates
<1>3. /\ waits.id \in Ids
      /\ waits.ret \in {"OK", "ERROR", "TIMEOUT", "WAIT"}
      /\ waits.ret = "WAIT" => Kept(m, waits.m) /\ waits.m.rx = NoAnswer
      /\ waits.ret # "WAIT" => Freed(m, waits.m)
  BY WaitIsOver DEF AnswerKinds
<1>4. 0 \in Ids
  BY DEF Ids
<1>5. waits = [ret |-> waits.ret, id |-> waits.id, m |-> waits.m]
  BY DEF CheckWait, Ret
<1>6. CASE m.state = "WAITING" /\ m.command = "WAITING"
  BY <1>0, <1>2, <1>4, <1>6
<1>7. CASE ~ (m.state = "WAITING" /\ m.command = "WAITING") /\ m.command = "SWITCH_STATE"
  <2> HIDE DEF starts, waits
  <2>1. r0 = waits
    BY <1>7
  <2>2. CASE waits.ret \in {"WAIT", "OK"}
    BY <1>0, <1>3, <1>7, <2>1, <2>2
  <2>3. CASE waits.ret \notin {"WAIT", "OK"}
    <3>1. Freed(m, waits.m)
      BY <1>3, <2>3
    <3>2. Back(waits).ret = waits.ret /\ Back(waits).id = waits.id
          /\ Back(waits).m = [[waits.m EXCEPT !.state = "WAITING"] EXCEPT !.command = "WAITING"]
      <4>1. waits.m \in Masters
        BY <3>1 DEF Freed
      <4> DEFINE back == Back([ret |-> waits.ret, id |-> waits.id, m |-> waits.m])
      <4>2. /\ back.ret = waits.ret /\ back.id = waits.id
            /\ back.m = [[waits.m EXCEPT !.state = "WAITING"] EXCEPT !.command = "WAITING"]
        BY <4>1, ReturnToWaiting
      <4> HIDE DEF Back
      <4> QED BY <1>5, <4>2
    <3> HIDE DEF Back
    <3>3. Freed(m, Back(waits).m)
      BY <3>1, <3>2 DEF Freed, Masters
    <3> QED BY <1>0, <1>3, <2>1, <2>3, <3>2, <3>3
  <2> QED BY <2>2, <2>3
<1>8. CASE ~ (m.state = "WAITING" /\ m.command = "WAITING") /\ m.command # "SWITCH_STATE"
  <2>1. r0 = refused
    BY <1>8
  <2>2. Back(refused).ret = "INVALID_STATE" /\ Back(refused).id = 0
        /\ Back(refused).m = [[m EXCEPT !.state = "WAITING"] EXCEPT !.command = "WAITING"]
    OBVIOUS
  <2>3. Freed(m, Back(refused).m)
    BY <2>2, <1>8 DEF Freed, Masters
  <2> HIDE DEF Back
  <2> QED BY <1>0, <1>4, <2>1, <2>2, <2>3
<1> QED BY <1>6, <1>7, <1>8

LEMMA AskOutcome ==
  ASSUME NEW m \in Masters, NEW command \in {"INQUIRE", "CFG_NODE_ID", "CFG_STORE"},
         NEW value \in Nat, NEW late \in BOOLEAN,
         m.command \in {"WAITING", command}, m.command = "WAITING" => m.rx = NoAnswer
  PROVE  LET r == AskSelected(m, command, value, late)
         IN  /\ r.id \in Ids
             /\ \/ r.ret = "WAIT" /\ m.command = "WAITING"
                   /\ Sent(r.m, command, Frame(command, value))
                \/ r.ret = "WAIT" /\ m.command = command /\ Kept(m, r.m) /\ r.m.rx = NoAnswer
                   /\ ~ late
                \/ r.ret = "OK" /\ m.command = command /\ Freed(m, r.m)
                   /\ m.rx.cs = command /\ m.rx.code = "OK" /\ r.m.state = m.state
                \/ r.ret \in {"ERROR", "TIMEOUT", "INVALID_STATE"} /\ Freed(m, r.m)
<1> DEFINE starts == Initiate(m, m.state, command, Frame(command, value))
           waits == CheckWait(m, command, late)
           refused == [ret |-> "INVALID_STATE", id |-> 0, m |-> m]
<1>0. AskSelected(m, command, value, late) =
        IF m.state = "SELECTIVE" /\ m.command = "WAITING" THEN starts
        ELSE IF m.command = command THEN waits ELSE refused
  BY Zenon DEF AskSelected, Ready, Ret
<1>1. Frame(command, value) \in Frames /\ m.state \in {"WAITING", "SELECTIVE"}
  BY DEF Frame, Frames, FrameKinds, Masters
<1>2. starts.ret = "WAIT" /\ starts.id = 0 /\ Sent(starts.m, command, Frame(command, value))
  BY <1>1, Initiates
<1>3. command \in AnswerKinds \ {"none"}
  BY DEF AnswerKinds
<1>4. /\ waits.id \in Ids
      /\ waits.ret \in {"OK", "ERROR", "TIMEOUT", "WAIT"}
      /\ waits.ret = "WAIT" => m.rx.cs # command /\ ~ late /\ Kept(m, waits.m)
         /\ waits.m.rx = NoAnswer
      /\ waits.ret # "WAIT" => Freed(m, waits.m) /\ waits.m.state = m.state
      /\ waits.ret = "OK" => m.rx.cs = command /\ m.rx.code = "OK"
  BY <1>3, WaitIsOver
<1>5. 0 \in Ids
  BY DEF Ids
<1>6. m.command = "WAITING" => Freed(m, m)
  BY DEF Freed
<1> HIDE DEF starts, waits
<1>7. CASE m.state = "SELECTIVE" /\ m.command = "WAITING"
  BY <1>0, <1>2, <1>5, <1>7
<1>8. CASE m.command = command
  BY <1>0, <1>4, <1>8
<1>9. CASE m.state # "SELECTIVE" /\ m.command = "WAITING"
  BY <1>0, <1>5, <1>6, <1>9
<1> QED BY <1>7, <1>8, <1>9

LEMMA FastscanOutcome ==
  ASSUME NEW m \in Masters, NEW late \in BOOLEAN,
         m.command \in {"WAITING", "FASTSCAN"}, m.command = "WAITING" => m.rx = NoAnswer
  PROVE  LET r == CO_LSSmaster_IdentifyFastscan(m, late)
         IN  \/ r.ret = "WAIT" /\ r.m = m /\ ~ late /\ m.command = "FASTSCAN" /\ m.state = "WAITING"
             \/ r.ret = "WAIT" /\ r.m.state = "WAITING" /\ m.state = "WAITING"
                /\ (m.command = "WAITING" \/ late)
                /\ \E cs \in {"CHECK", "SCAN", "VERIFY"}, value \in Nat :
                     Sent(r.m, "FASTSCAN", Frame(cs, value))
             \/ r.ret = "FINISHED" /\ late /\ Freed(m, r.m) /\ r.m.state = "SELECTIVE"
                /\ m.command = "FASTSCAN"
             \/ r.ret = "NOACK" /\ late /\ Freed(m, r.m) /\ m.rx.cs # "FASTSCAN"
                /\ m.command = "FASTSCAN" /\ m.state = "WAITING"
             \/ r.ret = "FAILED" /\ late /\ Freed(m, r.m)
             \/ r.ret = "INVALID_STATE" /\ r.m = m /\ m.state # "WAITING"
<1> DEFINE heard == [m EXCEPT !.rx = NoAnswer]
           over == [heard EXCEPT !.command = "WAITING"]
           next(fs, cs, value) == [[heard EXCEPT !.fsState = fs] EXCEPT !.tx = Frame(cs, value)]
           first == [m EXCEPT !.fsState = "CHECK"]
           r == CO_LSSmaster_IdentifyFastscan(m, late)
<1>1. heard \in Masters /\ heard.command = m.command /\ heard.state = m.state /\ heard.tx = m.tx
      /\ heard.rx = NoAnswer
  BY Records DEF Masters
<1>2. Freed(m, over) /\ over.state = m.state
  BY <1>1 DEF Masters, Freed
<1>3. ASSUME NEW cs \in {"CHECK", "SCAN", "VERIFY"}, NEW value \in Nat
      PROVE  Frame(cs, value) \in Frames
  BY DEF Frame, Frames, FrameKinds
<1>4. ASSUME NEW fs \in {"SCAN", "VERIFY"}, NEW cs \in {"CHECK", "SCAN", "VERIFY"},
      NEW value \in Nat,
             m.command = "FASTSCAN"
      PROVE  Sent(next(fs, cs, value), "FASTSCAN", Frame(cs, value))
             /\ next(fs, cs, value).state = m.state
  BY <1>1, <1>3, <1>4 DEF Masters, Sent
<1>5. CASE m.state # "WAITING"
  BY <1>5 DEF CO_LSSmaster_IdentifyFastscan, Ret
<1>6. CASE m.state = "WAITING" /\ m.command = "WAITING"
  <2>1. first \in Masters
    BY DEF Masters
  <2>2. r = Initiate(first, "WAITING", "FASTSCAN", Frame("CHECK", 0))
    BY <1>6, Zenon DEF CO_LSSmaster_IdentifyFastscan, Ready
  <2>3. r.ret = "WAIT" /\ Sent(r.m, "FASTSCAN", Frame("CHECK", 0)) /\ r.m.state = "WAITING"
    BY <2>1, <2>2, <1>3, Initiates
  <2> HIDE DEF r
  <2> QED BY <1>6, <2>3 DEF r
<1>7. CASE m.state = "WAITING" /\ m.command = "FASTSCAN" /\ ~ late
  BY <1>7 DEF CO_LSSmaster_IdentifyFastscan, Ready, Ret
<1>8. CASE m.state = "WAITING" /\ m.command = "FASTSCAN" /\ late
  <2>1. r = FastscanStep(m)
    BY <1>8 DEF CO_LSSmaster_IdentifyFastscan, Ready
  <2>2. m.fsState \in {"CHECK", "SCAN", "VERIFY"}
    BY DEF Masters
  <2>3. CASE m.fsState = "CHECK"
    <3>1. r = IF m.rx.cs = "FASTSCAN" THEN [ret |-> "WAIT", id |-> 0, m |-> next("SCAN", "SCAN", 0)]
              ELSE [ret |-> "NOACK", id |-> 0, m |-> over]
      BY <2>1, <2>3 DEF FastscanStep, Ret
    <3>2. Sent(next("SCAN", "SCAN", 0), "FASTSCAN", Frame("SCAN", 0))
          /\ next("SCAN", "SCAN", 0).state = m.state
      BY <1>4, <1>8
    <3> HIDE DEF r, next, over
    <3> QED BY <3>1, <3>2, <1>2, <1>8 DEF r
  <2>4. CASE m.fsState = "SCAN"
    <3>1. \E value \in Nat :
            r = IF m.rx.cs = "FASTSCAN" \/ m.rx = NoAnswer
                THEN [ret |-> "WAIT", id |-> 0, m |-> next("VERIFY", "VERIFY", value)]
                ELSE [ret |-> "FAILED", id |-> 0, m |-> over]
      BY <2>1, <2>4 DEF FastscanStep, Ret
    <3>2. PICK value \in Nat :
            r = IF m.rx.cs = "FASTSCAN" \/ m.rx = NoAnswer
                THEN [ret |-> "WAIT", id |-> 0, m |-> next("VERIFY", "VERIFY", value)]
                ELSE [ret |-> "FAILED", id |-> 0, m |-> over]
      BY <3>1
    <3>3. Sent(next("VERIFY", "VERIFY", value), "FASTSCAN", Frame("VERIFY", value))
          /\ next("VERIFY", "VERIFY", value).state = m.state
      BY <1>4, <1>8
    <3> HIDE DEF r, next, over
    <3> QED BY <3>2, <3>3, <1>2, <1>8 DEF r
  <2>5. CASE m.fsState = "VERIFY"
    <3>1. r = IF m.rx.cs = "FASTSCAN"
              THEN [ret |-> "FINISHED", id |-> 0, m |-> [over EXCEPT !.state = "SELECTIVE"]]
              ELSE [ret |-> IF m.rx = NoAnswer THEN "NOACK" ELSE "FAILED", id |-> 0, m |-> over]
      BY <2>1, <2>5 DEF FastscanStep, Ret
    <3>2. Freed(m, [over EXCEPT !.state = "SELECTIVE"])
          /\ [over EXCEPT !.state = "SELECTIVE"].state = "SELECTIVE"
      BY <1>2 DEF Freed, Masters
    <3> HIDE DEF r, over
    <3> QED BY <3>1, <3>2, <1>2, <1>8 DEF r
  <2> QED BY <2>2, <2>3, <2>4, <2>5
<1> QED BY <1>5, <1>6, <1>7, <1>8

----------------------------------------------------------------------------
(* What one turn of the interpreter does: one lemma per command *)

\* What a turn of the interpreter does, g and m before and d after.
Waits(g, m, d) == Continues(g, d.g) /\ d.g.assigned = g.assigned /\ d.g.lssNID = g.lssNID
                  /\ d.g.lssSubState = g.lssSubState /\ Kept(m, d.m) /\ d.m.rx = NoAnswer
Idles(g, m, d) == d.g = g /\ d.m = m
Asks(g, m, d, command, frame) ==
  Continues(g, d.g) /\ d.g.assigned = g.assigned /\ d.g.lssNID = g.lssNID
    /\ Sent(d.m, command, frame)
Finishes(g, m, d, code) ==
  Ends(g, d.g, code) /\ d.g.assigned = g.assigned /\ Freed(m, d.m)

\* The switch back of all nodes is on its way, and no answer is awaited.
Deselects(d) ==
  d.m \in Masters /\ d.m.state = "WAITING" /\ d.m.command = "WAITING" /\ d.m.rx = NoAnswer
    /\ d.m.tx = Frame("DESELECT", 0)

\* What a turn that executes a command relies on.
Busy(g, m) ==
  /\ g \in Interpreters /\ m \in Masters /\ g.sequence # 0
  /\ m.command = "WAITING" => m.rx = NoAnswer

LEMMA SelectTurn ==
  ASSUME NEW g, NEW m, NEW late \in BOOLEAN, Busy(g, m), g.state = "SWITCH_SEL",
         m.command \in {"WAITING", "SWITCH_STATE"}
  PROVE  LET d == Execute(g, m, late)
         IN  \/ m.command = "WAITING" /\ Asks(g, m, d, "SWITCH_STATE", Frame("SELECT", g.address))
             \/ m.command = "SWITCH_STATE" /\ Waits(g, m, d)
             \/ \E code \in Codes : Finishes(g, m, d, code)
<1> DEFINE r == CO_LSSmaster_swStateSelect(m, g.address, late)
           d == Execute(g, m, late)
<1>1. d = OneService(g, r)
  BY DEF Execute
<1>2. g.address \in Addresses \cup {0} /\ g \in Interpreters /\ m \in Masters
      /\ (m.command = "WAITING" => m.rx = NoAnswer) /\ g.sequence # 0
  BY DEF Busy, Interpreters
<1>3. /\ r.id \in Ids
      /\ \/ r.ret = "WAIT" /\ m.command = "WAITING"
            /\ Sent(r.m, "SWITCH_STATE", Frame("SELECT", g.address))
         \/ r.ret = "WAIT" /\ m.command = "SWITCH_STATE" /\ Kept(m, r.m) /\ r.m.rx = NoAnswer
         \/ r.ret \in {"OK", "ERROR", "TIMEOUT", "INVALID_STATE"} /\ Freed(m, r.m)
  BY <1>2, SelectionOutcome
<1> HIDE DEF r
<1>4. d = CASE r.ret = "WAIT" -> [g |-> g, m |-> r.m]
            [] r.ret = "OK" -> [g |-> Respond(g, "OK", r.id), m |-> r.m]
            [] OTHER -> [g |-> Respond(g, "ERROR", 0), m |-> r.m]
  BY <1>1 DEF OneService, Both
<1>5. Ends(g, Respond(g, "OK", r.id), "OK") /\ Respond(g, "OK", r.id).assigned = g.assigned
      /\ Ends(g, Respond(g, "ERROR", 0), "ERROR") /\ Respond(g, "ERROR", 0).assigned = g.assigned
  BY <1>2, <1>3, ResponseEnds DEF Codes, Ids
<1>6. Continues(g, g)
  BY <1>2 DEF Continues
<1>7. CASE r.ret = "WAIT"
  <2>1. d.g = g /\ d.m = r.m
    BY <1>4, <1>7
  <2> HIDE DEF d
  <2> QED BY <1>3, <1>6, <1>7, <2>1 DEF Asks, Waits, d
<1>8. CASE r.ret = "OK"
  <2>1. d.g = Respond(g, "OK", r.id) /\ d.m = r.m
    BY <1>4, <1>8
  <2> HIDE DEF d
  <2> QED BY <1>3, <1>5, <1>8, <2>1 DEF Finishes, Codes, d
<1>9. CASE r.ret \notin {"OK", "WAIT"}
  <2>1. d.g = Respond(g, "ERROR", 0) /\ d.m = r.m
    BY <1>4, <1>9
  <2> HIDE DEF d
  <2> QED BY <1>3, <1>5, <1>9, <2>1 DEF Finishes, Codes, d
<1> QED BY <1>7, <1>8, <1>9

LEMMA InquireTurn ==
  ASSUME NEW g, NEW m, NEW late \in BOOLEAN, Busy(g, m), g.state = "INQUIRE",
         m.command \in {"WAITING", "INQUIRE"}
  PROVE  LET d == Execute(g, m, late)
         IN  \/ m.command = "WAITING" /\ Asks(g, m, d, "INQUIRE", Frame("INQUIRE", 0))
             \/ m.command = "INQUIRE" /\ Waits(g, m, d)
             \/ Finishes(g, m, d, "ERROR")
             \/ Finishes(g, m, d, "OK") /\ m.rx.cs = "INQUIRE" /\ m.command = "INQUIRE"
<1> DEFINE r == AskSelected(m, "INQUIRE", 0, late)
           d == Execute(g, m, late)
<1>1. d = OneService(g, r)
  BY DEF Execute
<1>2. g \in Interpreters /\ m \in Masters
      /\ (m.command = "WAITING" => m.rx = NoAnswer) /\ g.sequence # 0
  BY DEF Busy, Interpreters
<1>3. /\ r.id \in Ids
      /\ \/ r.ret = "WAIT" /\ m.command = "WAITING" /\ Sent(r.m, "INQUIRE", Frame("INQUIRE", 0))
         \/ r.ret = "WAIT" /\ m.command = "INQUIRE" /\ Kept(m, r.m) /\ r.m.rx = NoAnswer /\ ~ late
         \/ r.ret = "OK" /\ m.command = "INQUIRE" /\ Freed(m, r.m)
            /\ m.rx.cs = "INQUIRE" /\ m.rx.code = "OK" /\ r.m.state = m.state
         \/ r.ret \in {"ERROR", "TIMEOUT", "INVALID_STATE"} /\ Freed(m, r.m)
  BY <1>2, AskOutcome
<1> HIDE DEF r
<1>4. d = CASE r.ret = "WAIT" -> [g |-> g, m |-> r.m]
            [] r.ret = "OK" -> [g |-> Respond(g, "OK", r.id), m |-> r.m]
            [] OTHER -> [g |-> Respond(g, "ERROR", 0), m |-> r.m]
  BY <1>1 DEF OneService, Both
<1>5. Ends(g, Respond(g, "OK", r.id), "OK") /\ Respond(g, "OK", r.id).assigned = g.assigned
      /\ Ends(g, Respond(g, "ERROR", 0), "ERROR") /\ Respond(g, "ERROR", 0).assigned = g.assigned
  BY <1>2, <1>3, ResponseEnds DEF Codes, Ids
<1>6. Continues(g, g)
  BY <1>2 DEF Continues
<1>7. CASE r.ret = "WAIT"
  <2>1. d.g = g /\ d.m = r.m
    BY <1>4, <1>7
  <2> HIDE DEF d
  <2> QED BY <1>3, <1>6, <1>7, <2>1 DEF Asks, Waits, d
<1>8. CASE r.ret = "OK"
  <2>1. d.g = Respond(g, "OK", r.id) /\ d.m = r.m
    BY <1>4, <1>8
  <2> HIDE DEF d
  <2> QED BY <1>3, <1>5, <1>8, <2>1 DEF Finishes, Codes, d
<1>9. CASE r.ret \notin {"OK", "WAIT"}
  <2>1. d.g = Respond(g, "ERROR", 0) /\ d.m = r.m
    BY <1>4, <1>9
  <2> HIDE DEF d
  <2> QED BY <1>3, <1>5, <1>9, <2>1 DEF Finishes, Codes, d
<1> QED BY <1>7, <1>8, <1>9

LEMMA GlobalTurn ==
  ASSUME NEW g, NEW m, NEW late \in BOOLEAN, Busy(g, m), g.state = "SWITCH_GLOB"
  PROVE  LET d == Execute(g, m, late)
         IN  Ends(g, d.g, "OK") /\ d.g.assigned = g.assigned /\ Deselects(d)
<1> DEFINE d == Execute(g, m, late)
<1>1. d.g = Respond(g, "OK", 0) /\ d.m = CO_LSSmaster_swStateDeselect(m)
  BY DEF Execute, Both
<1>2. g \in Interpreters /\ m \in Masters /\ g.sequence # 0
  BY DEF Busy
<1>3. Ends(g, Respond(g, "OK", 0), "OK") /\ Respond(g, "OK", 0).assigned = g.assigned
  BY <1>2, ResponseEnds DEF Codes, Ids
<1>4. Frame("DESELECT", 0) \in Frames
  BY DEF Frame, Frames, FrameKinds
<1> HIDE DEF d
<1>5. Deselects(d)
  BY <1>1, <1>2, <1>4, Records DEF Deselects, CO_LSSmaster_swStateDeselect, Masters
<1> QED BY <1>1, <1>3, <1>5 DEF d

LEMMA IdleTurn ==
  ASSUME NEW g, NEW m, NEW late \in BOOLEAN, g.state = "IDLE"
  PROVE  Idles(g, m, Execute(g, m, late))
BY DEF Execute, Both, Idles

LEMMA StoreTurn ==
  ASSUME NEW g, NEW m, NEW late \in BOOLEAN, Busy(g, m), g.state = "ALLNODES",
         m.command \in {"WAITING", "CFG_STORE"}
  PROVE  LET d == Store(g, m, late)
         IN  \/ m.command = "WAITING" /\ Asks(g, m, d, "CFG_STORE", Frame("CFG_STORE", 0))
                /\ d.g.lssSubState = 2
             \/ m.command = "CFG_STORE" /\ ~ late /\ Continues(g, d.g) /\ d.g.assigned = g.assigned
                /\ d.g.lssNID = g.lssNID /\ d.g.lssSubState = 2 /\ Kept(m, d.m) /\ d.m.rx = NoAnswer
             \/ Finishes(g, m, d, "ERROR")
             \/ m.command = "CFG_STORE" /\ m.rx.cs = "CFG_STORE" /\ m.rx.code = "OK"
                /\ d.g.assigned = g.lssNID /\ Deselects(d)
                /\ ((Continues(g, d.g) /\ d.g.lssSubState = 0) \/ Ends(g, d.g, "OK"))
<1> DEFINE r == AskSelected(m, "CFG_STORE", 0, late)
           d == Store(g, m, late)
<1>2. g \in Interpreters /\ m \in Masters
      /\ (m.command = "WAITING" => m.rx = NoAnswer) /\ g.sequence # 0 /\ g.lssNID \in Nat
  BY DEF Busy, Interpreters
<1>3. \/ r.ret = "WAIT" /\ m.command = "WAITING" /\ Sent(r.m, "CFG_STORE", Frame("CFG_STORE", 0))
      \/ r.ret = "WAIT" /\ m.command = "CFG_STORE" /\ Kept(m, r.m) /\ r.m.rx = NoAnswer /\ ~ late
      \/ r.ret = "OK" /\ m.command = "CFG_STORE" /\ Freed(m, r.m)
         /\ m.rx.cs = "CFG_STORE" /\ m.rx.code = "OK" /\ r.m.state = m.state
      \/ r.ret \in {"ERROR", "TIMEOUT", "INVALID_STATE"} /\ Freed(m, r.m)
  BY <1>2, AskOutcome
<1>4. d = CASE r.ret = "WAIT" -> [g |-> [g EXCEPT !.lssSubState = 2], m |-> r.m]
            [] r.ret = "OK" -> Deselected(g, r.m)
            [] OTHER -> [g |-> Respond(g, "ERROR", 0), m |-> r.m]
  BY DEF Store, Both
<1> HIDE DEF r
<1>5. Ends(g, Respond(g, "ERROR", 0), "ERROR") /\ Respond(g, "ERROR", 0).assigned = g.assigned
  BY <1>2, ResponseEnds DEF Codes, Ids
<1>7. CASE r.ret = "WAIT"
  <2>1. d.g = [g EXCEPT !.lssSubState = 2] /\ d.m = r.m
    BY <1>4, <1>7
  <2>2. Continues(g, [g EXCEPT !.lssSubState = 2]) /\ [g EXCEPT !.lssSubState = 2].lssSubState = 2
        /\ [g EXCEPT !.lssSubState = 2].assigned = g.assigned
        /\ [g EXCEPT !.lssSubState = 2].lssNID = g.lssNID
    BY <1>2 DEF Continues, Interpreters
  <2> HIDE DEF d
  <2> QED BY <1>3, <1>7, <2>1, <2>2 DEF Asks, Waits, d
<1>8. CASE r.ret = "OK"
  <2> DEFINE reported == [g EXCEPT !.assigned = g.lssNID]
             scanned == [reported EXCEPT !.lssSubState = 0]
             again == [scanned EXCEPT !.lssNID = @ + 1]
  <2>1. d.g = (IF g.lssNID < LastId THEN again ELSE Respond(reported, "OK", 0))
        /\ d.m = CO_LSSmaster_swStateDeselect(r.m)
    BY <1>4, <1>8 DEF Deselected, Both
  <2>2. reported \in Interpreters /\ reported.state = g.state /\ reported.sequence = g.sequence
        /\ reported.owner = g.owner /\ reported.resp = g.resp /\ reported.fifo = g.fifo
        /\ reported.address = g.address /\ reported.assigned = g.lssNID
           /\ reported.lssNID = g.lssNID
    BY <1>2 DEF Interpreters
  <2> HIDE DEF reported
  <2>9. Continues(g, scanned) /\ scanned.lssSubState = 0 /\ scanned.assigned = g.lssNID
        /\ scanned.lssNID \in Nat
    BY <1>2, <2>2 DEF Continues, Interpreters
  <2> HIDE DEF scanned
  <2>3. Continues(g, again) /\ again.lssSubState = 0 /\ again.assigned = g.lssNID
    <3>1. DOMAIN scanned = DOMAIN g /\ scanned \in Interpreters
      BY <1>2, <2>9 DEF Continues, Interpreters
    <3>2. again \in Interpreters
      BY <2>9, <3>1 DEF Interpreters
    <3>3. again.state = scanned.state /\ again.sequence = scanned.sequence
          /\ again.owner = scanned.owner
          /\ again.resp = scanned.resp /\ again.fifo = scanned.fifo
             /\ again.address = scanned.address
          /\ again.lssSubState = scanned.lssSubState /\ again.assigned = scanned.assigned
      BY <3>1 DEF Interpreters
    <3> QED BY <2>9, <3>2, <3>3 DEF Continues
  <2>4. Ends(reported, Respond(reported, "OK", 0), "OK")
        /\ Respond(reported, "OK", 0).assigned = reported.assigned
    BY <1>2, <2>2, ResponseEnds DEF Codes, Ids
  <2>5. Frame("DESELECT", 0) \in Frames
    BY DEF Frame, Frames, FrameKinds
  <2>6. r.m \in Masters
    BY <1>3, <1>8 DEF Freed
  <2> HIDE DEF d, again
  <2>7. Deselects(d)
    BY <2>1, <2>5, <2>6, Records DEF Deselects, CO_LSSmaster_swStateDeselect, Masters
  <2>8. Ends(g, Respond(reported, "OK", 0), "OK") /\ Respond(reported, "OK", 0).assigned = g.lssNID
    BY <2>2, <2>4 DEF Ends
  <2> QED BY <1>3, <1>8, <2>1, <2>3, <2>7, <2>8 DEF d
<1>9. CASE r.ret \notin {"OK", "WAIT"}
  <2>1. d.g = Respond(g, "ERROR", 0) /\ d.m = r.m
    BY <1>4, <1>9
  <2> HIDE DEF d
  <2> QED BY <1>3, <1>5, <1>9, <2>1 DEF Finishes, Codes, d
<1> QED BY <1>7, <1>8, <1>9

LEMMA SetTurn ==
  ASSUME NEW g, NEW m, NEW late \in BOOLEAN, Busy(g, m), g.state = "ALLNODES",
         m.command \in {"WAITING", "CFG_NODE_ID"}
  PROVE  LET d == SetNode(g, m, late)
         IN  \/ m.command = "WAITING" /\ d.g.lssSubState = 1
                /\ Asks(g, m, d, "CFG_NODE_ID", Frame("CFG_NODE_ID", g.lssNID))
             \/ m.command = "CFG_NODE_ID" /\ ~ late /\ Continues(g, d.g)
                /\ d.g.assigned = g.assigned
                /\ d.g.lssNID = g.lssNID /\ d.g.lssSubState = 1 /\ Kept(m, d.m) /\ d.m.rx = NoAnswer
             \/ m.command = "CFG_NODE_ID" /\ m.rx.cs = "CFG_NODE_ID" /\ m.rx.code = "OK"
                /\ Asks(g, m, d, "CFG_STORE", Frame("CFG_STORE", 0)) /\ d.g.lssSubState = 2
             \/ Finishes(g, m, d, "ERROR")
<1> DEFINE r == AskSelected(m, "CFG_NODE_ID", g.lssNID, late)
           d == SetNode(g, m, late)
<1>1. g \in Interpreters /\ m \in Masters
      /\ (m.command = "WAITING" => m.rx = NoAnswer) /\ g.sequence # 0 /\ g.lssNID \in Nat
  BY DEF Busy, Interpreters
<1>2. \/ r.ret = "WAIT" /\ m.command = "WAITING"
         /\ Sent(r.m, "CFG_NODE_ID", Frame("CFG_NODE_ID", g.lssNID))
      \/ r.ret = "WAIT" /\ m.command = "CFG_NODE_ID" /\ Kept(m, r.m) /\ r.m.rx = NoAnswer /\ ~ late
      \/ r.ret = "OK" /\ m.command = "CFG_NODE_ID" /\ Freed(m, r.m)
         /\ m.rx.cs = "CFG_NODE_ID" /\ m.rx.code = "OK" /\ r.m.state = m.state
      \/ r.ret \in {"ERROR", "TIMEOUT", "INVALID_STATE"} /\ Freed(m, r.m)
  BY <1>1, AskOutcome
<1>3. d = CASE r.ret = "WAIT" -> [g |-> [g EXCEPT !.lssSubState = 1], m |-> r.m]
            [] r.ret = "OK" -> Store(g, r.m, late)
            [] OTHER -> [g |-> Respond(g, "ERROR", 0), m |-> r.m]
  BY DEF SetNode, Both
<1> HIDE DEF r
<1>4. Ends(g, Respond(g, "ERROR", 0), "ERROR") /\ Respond(g, "ERROR", 0).assigned = g.assigned
  BY <1>1, ResponseEnds DEF Codes, Ids
<1>5. CASE r.ret = "WAIT"
  <2>1. d.g = [g EXCEPT !.lssSubState = 1] /\ d.m = r.m
    BY <1>3, <1>5
  <2>2. Continues(g, [g EXCEPT !.lssSubState = 1]) /\ [g EXCEPT !.lssSubState = 1].lssSubState = 1
        /\ [g EXCEPT !.lssSubState = 1].assigned = g.assigned
        /\ [g EXCEPT !.lssSubState = 1].lssNID = g.lssNID
    BY <1>1 DEF Continues, Interpreters
  <2> HIDE DEF d
  <2> QED BY <1>2, <1>5, <2>1, <2>2 DEF Asks, d
<1>6. CASE r.ret = "OK"
  <2>1. d = Store(g, r.m, late)
    BY <1>3, <1>6
  <2>2. /\ m.command = "CFG_NODE_ID" /\ Freed(m, r.m)
        /\ m.rx.cs = "CFG_NODE_ID" /\ m.rx.code = "OK"
    BY <1>2, <1>6
  <2>3. r.m \in Masters /\ r.m.command = "WAITING" /\ r.m.rx = NoAnswer /\ r.m.tx = m.tx
    BY <2>2 DEF Freed
  <2>4. Busy(g, r.m)
    BY <1>1, <2>3 DEF Busy
  <2>5. \/ Asks(g, r.m, d, "CFG_STORE", Frame("CFG_STORE", 0)) /\ d.g.lssSubState = 2
        \/ Finishes(g, r.m, d, "ERROR")
    BY <2>1, <2>3, <2>4, StoreTurn
  <2> HIDE DEF d
  <2>6. CASE Asks(g, r.m, d, "CFG_STORE", Frame("CFG_STORE", 0)) /\ d.g.lssSubState = 2
    BY <2>2, <2>6 DEF Asks, d
  <2>7. CASE Finishes(g, r.m, d, "ERROR")
    BY <2>3, <2>7 DEF Finishes, Freed, d
  <2> QED BY <2>5, <2>6, <2>7 DEF d
<1>7. CASE r.ret \notin {"OK", "WAIT"}
  <2>1. d.g = Respond(g, "ERROR", 0) /\ d.m = r.m
    BY <1>3, <1>7
  <2> HIDE DEF d
  <2> QED BY <1>2, <1>4, <1>7, <2>1 DEF Finishes, d
<1> QED BY <1>5, <1>6, <1>7

LEMMA ScanTurn ==
  ASSUME NEW g, NEW m, NEW late \in BOOLEAN, Busy(g, m), g.state = "ALLNODES", g.lssSubState = 0,
         m.command \in {"WAITING", "FASTSCAN"}
  PROVE  LET d == Execute(g, m, late)
         IN  \/ ~ late /\ m.command = "FASTSCAN" /\ m.state = "WAITING" /\ Idles(g, m, d)
             \/ (m.command = "WAITING" \/ late) /\ d.g = g /\ d.m.state = "WAITING"
                /\ m.state = "WAITING"
                /\ \E cs \in {"CHECK", "SCAN", "VERIFY"}, value \in Nat :
                     Asks(g, m, d, "FASTSCAN", Frame(cs, value))
             \/ late /\ d.g.lssSubState = 1
                /\ Asks(g, m, d, "CFG_NODE_ID", Frame("CFG_NODE_ID", g.lssNID))
             \/ late /\ m.command = "FASTSCAN" /\ m.rx.cs # "FASTSCAN" /\ Finishes(g, m, d, "OK")
             \/ Finishes(g, m, d, "ERROR")
             \/ Ends(g, d.g, "ERROR") /\ d.g.assigned = g.assigned /\ d.m = m /\ m.state # "WAITING"
<1> DEFINE r == CO_LSSmaster_IdentifyFastscan(m, late)
           d == Execute(g, m, late)
<1>1. g \in Interpreters /\ m \in Masters
      /\ (m.command = "WAITING" => m.rx = NoAnswer) /\ g.sequence # 0 /\ g.lssNID \in Nat
  BY DEF Busy, Interpreters
<1>2. \/ r.ret = "WAIT" /\ r.m = m /\ ~ late /\ m.command = "FASTSCAN" /\ m.state = "WAITING"
      \/ r.ret = "WAIT" /\ r.m.state = "WAITING" /\ m.state = "WAITING"
         /\ (m.command = "WAITING" \/ late)
         /\ \E cs \in {"CHECK", "SCAN", "VERIFY"}, value \in Nat :
              Sent(r.m, "FASTSCAN", Frame(cs, value))
      \/ r.ret = "FINISHED" /\ late /\ Freed(m, r.m) /\ r.m.state = "SELECTIVE"
         /\ m.command = "FASTSCAN"
      \/ r.ret = "NOACK" /\ late /\ Freed(m, r.m) /\ m.rx.cs # "FASTSCAN"
         /\ m.command = "FASTSCAN" /\ m.state = "WAITING"
      \/ r.ret = "FAILED" /\ late /\ Freed(m, r.m)
      \/ r.ret = "INVALID_STATE" /\ r.m = m /\ m.state # "WAITING"
  BY <1>1, FastscanOutcome
<1>3. d = CASE r.ret = "WAIT"     -> [g |-> g, m |-> r.m]
            [] r.ret = "FINISHED" -> SetNode(g, r.m, late)
            [] r.ret = "NOACK"    -> [g |-> Respond(g, "OK", 0), m |-> r.m]
            [] OTHER              -> [g |-> Respond(g, "ERROR", 0), m |-> r.m]
  <2>1. d = AllNodes(g, m, late)
    BY DEF Execute
  <2> HIDE DEF d
  <2> QED BY <2>1 DEF AllNodes, Both
<1> HIDE DEF r
<1>4. Ends(g, Respond(g, "ERROR", 0), "ERROR") /\ Respond(g, "ERROR", 0).assigned = g.assigned
      /\ Ends(g, Respond(g, "OK", 0), "OK") /\ Respond(g, "OK", 0).assigned = g.assigned
  BY <1>1, ResponseEnds DEF Codes, Ids
<1>5. Continues(g, g)
  BY <1>1 DEF Continues
<1>6. CASE r.ret = "WAIT"
  <2>1. d.g = g /\ d.m = r.m
    BY <1>3, <1>6
  <2> HIDE DEF d
  <2>2. CASE r.m = m /\ ~ late /\ m.command = "FASTSCAN" /\ m.state = "WAITING"
    BY <2>1, <2>2 DEF Idles, d
  <2>3. CASE /\ r.m.state = "WAITING" /\ m.state = "WAITING"
             /\ (m.command = "WAITING" \/ late)
             /\ \E cs \in {"CHECK", "SCAN", "VERIFY"}, value \in Nat :
                  Sent(r.m, "FASTSCAN", Frame(cs, value))
    <3>1. PICK cs \in {"CHECK", "SCAN", "VERIFY"}, value \in Nat :
                  Sent(r.m, "FASTSCAN", Frame(cs, value))
      BY <2>3
    <3>2. Asks(g, m, d, "FASTSCAN", Frame(cs, value))
      BY <3>1, <2>1, <1>5 DEF Asks
    <3> QED BY <3>2, <2>1, <2>3 DEF d
  <2> QED BY <1>2, <1>6, <2>2, <2>3
<1>7. CASE r.ret = "FINISHED"
  <2>1. d = SetNode(g, r.m, late) /\ late
    BY <1>2, <1>3, <1>7
  <2>2. r.m \in Masters /\ r.m.command = "WAITING" /\ r.m.rx = NoAnswer /\ r.m.tx = m.tx
    BY <1>2, <1>7 DEF Freed
  <2>3. Busy(g, r.m)
    BY <1>1, <2>2 DEF Busy
  <2>4. \/ Asks(g, r.m, d, "CFG_NODE_ID", Frame("CFG_NODE_ID", g.lssNID)) /\ d.g.lssSubState = 1
        \/ Finishes(g, r.m, d, "ERROR")
    BY <2>1, <2>2, <2>3, SetTurn
  <2> HIDE DEF d
  <2>6. CASE Asks(g, r.m, d, "CFG_NODE_ID", Frame("CFG_NODE_ID", g.lssNID)) /\ d.g.lssSubState = 1
    BY <2>1, <2>6 DEF Asks, d
  <2>7. CASE Finishes(g, r.m, d, "ERROR")
    BY <2>2, <2>7 DEF Finishes, Freed, d
  <2> QED BY <2>4, <2>6, <2>7
<1>8. CASE r.ret = "NOACK"
  <2>1. d.g = Respond(g, "OK", 0) /\ d.m = r.m
    BY <1>3, <1>8
  <2> HIDE DEF d
  <2> QED BY <1>2, <1>4, <1>8, <2>1 DEF Finishes, d
<1>9. CASE r.ret \notin {"WAIT", "FINISHED", "NOACK"}
  <2>1. d.g = Respond(g, "ERROR", 0) /\ d.m = r.m
    BY <1>3, <1>9
  <2> HIDE DEF d
  <2> QED BY <1>2, <1>4, <1>9, <2>1 DEF Finishes, d
<1> QED BY <1>6, <1>7, <1>8, <1>9

LEMMA NodesTurn ==
  ASSUME NEW g, NEW m, NEW late, g.state = "ALLNODES"
  PROVE  /\ g.lssSubState = 1 => Execute(g, m, late) = SetNode(g, m, late)
         /\ g.lssSubState = 2 => Execute(g, m, late) = Store(g, m, late)
<1>1. Execute(g, m, late) = AllNodes(g, m, late)
  BY DEF Execute
<1> QED BY <1>1 DEF AllNodes

----------------------------------------------------------------------------
(* A turn that hands its result over *)

\* The command of p is over, and its reply goes to the client or is held.
Handed(p, code) ==
  /\ gtwa' \in Interpreters
  /\ gtwa'.state = "IDLE" /\ gtwa'.fifo = p.fifo /\ gtwa'.address = p.address
  /\ \E reply \in Replies :
       /\ reply # NoReply /\ reply.code = code
       /\ reply.sequence = p.sequence /\ reply.owner = p.owner
       /\ \/ /\ Waiting(client') /\ gtwa'.resp = NoReply
             /\ clients' = [clients EXCEPT ![client'].reply = reply]
          \/ ~ Waiting(client') /\ gtwa'.resp = reply /\ clients' = clients

\* The command of p goes on.
GoesOn(p) == Continues(p, gtwa') /\ clients' = clients

\* What comes of a turn of p: nothing, a wait, a request, a stored identifier, an end.
StaysIdle(p, m) == p.state = "IDLE" /\ gtwa' = p /\ master' = m /\ clients' = clients

StillWaits(p, m, late) ==
  /\ p.state \notin {"IDLE", "SWITCH_GLOB"} /\ m.command # "WAITING"
  /\ GoesOn(p) /\ gtwa'.assigned = p.assigned /\ gtwa'.lssNID = p.lssNID
  /\ gtwa'.lssSubState = p.lssSubState
  /\ Kept(m, master')
  /\ m.command # "FASTSCAN" => master'.rx = NoAnswer
  /\ m.command = "FASTSCAN" => master' = m /\ ~ late

\* Which request a command makes, and after what.
Commanding(p, m, late, cs, value) ==
  \/ p.state = "SWITCH_SEL" /\ m.command = "WAITING" /\ cs = "SELECT" /\ value = p.address
  \/ p.state = "INQUIRE" /\ m.command = "WAITING" /\ cs = "INQUIRE"
  \/ p.state = "ALLNODES" /\ cs \in {"CHECK", "SCAN", "VERIFY"} /\ gtwa'.lssSubState = 0
     /\ master'.state = "WAITING" /\ (m.command = "WAITING" \/ late)
  \/ p.state = "ALLNODES" /\ cs = "CFG_NODE_ID" /\ gtwa'.lssSubState = 1 /\ value = p.lssNID /\ late
  \/ p.state = "ALLNODES" /\ cs = "CFG_STORE" /\ gtwa'.lssSubState = 2 /\ m.command = "CFG_NODE_ID"
     /\ m.rx.cs = "CFG_NODE_ID" /\ m.rx.code = "OK"

\* The answer that is awaited after a request.
Command(cs) ==
  CASE cs \in {"CHECK", "SCAN", "VERIFY"} -> "FASTSCAN"
    [] cs = "SELECT" -> "SWITCH_STATE"
    [] cs \in {"none", "DESELECT"} -> "WAITING"
    [] OTHER -> cs

Starts(p, m, late) ==
  /\ GoesOn(p) /\ gtwa'.assigned = p.assigned /\ gtwa'.lssNID = p.lssNID
  /\ \E cs \in FrameKinds \ {"DESELECT"}, value \in Nat \cup Addresses :
       /\ Sent(master', Command(cs), Frame(cs, value))
       /\ Commanding(p, m, late, cs, value)

IsStored(p, m) ==
  /\ p.state = "ALLNODES" /\ m.command = "CFG_STORE" /\ m.rx.cs = "CFG_STORE" /\ m.rx.code = "OK"
  /\ gtwa'.assigned = p.lssNID
  /\ Deselects([m |-> master'])
  /\ (GoesOn(p) /\ gtwa'.lssSubState = 0) \/ Handed(p, "OK")

IsOver(p, m, late) ==
  /\ gtwa'.assigned = p.assigned
  /\ p.state # "IDLE"
  /\ Freed(m, master')
  /\ \E code \in Codes :
       /\ Handed(p, code)
       /\ code = "OK" /\ p.state = "ALLNODES" => late /\ m.command = "FASTSCAN"
          /\ m.rx.cs # "FASTSCAN"
       /\ code = "OK" /\ p.state = "INQUIRE" => m.command = "INQUIRE" /\ m.rx.cs = "INQUIRE"

IsGlobal(p) ==
  p.state = "SWITCH_GLOB" /\ Handed(p, "OK") /\ Deselects([m |-> master'])
    /\ gtwa'.assigned = p.assigned

TurnsTo(p, m, late) ==
  StaysIdle(p, m) \/ StillWaits(p, m, late) \/ Starts(p, m, late) \/ IsStored(p, m)
    \/ IsOver(p, m, late) \/ IsGlobal(p)

\* An interpreter and a master that fit together.
Fits(p, m) ==
  /\ p \in Interpreters /\ m \in Masters /\ p.resp = NoReply
  /\ m.command = "WAITING" => m.rx = NoAnswer
  /\ p.state # "IDLE" => p.sequence # 0
  /\ p.state = "SWITCH_SEL" => m.command \in {"WAITING", "SWITCH_STATE"}
  /\ p.state = "INQUIRE" => m.command \in {"WAITING", "INQUIRE"}
  /\ p.state = "ALLNODES" =>
       /\ p.lssSubState = 0 => /\ m.command \in {"WAITING", "FASTSCAN"}
                               /\ m.state # "WAITING" => m.command = "WAITING"
       /\ p.lssSubState = 1 => m.command = "CFG_NODE_ID"
       /\ p.lssSubState = 2 => m.command = "CFG_STORE"

LEMMA HandsOver ==
  ASSUME NEW p, NEW h, NEW code, Ends(p, h, code), Transfer(h)
  PROVE  Handed(p, code) /\ gtwa'.assigned = h.assigned
<1>1. h \in Interpreters /\ h.resp \in Replies /\ h.resp # NoReply
  BY DEF Ends, Interpreters
<1>2. CASE Waiting(client')
  <2>1. gtwa' = [h EXCEPT !.resp = NoReply] /\ clients' = [clients EXCEPT ![client'].reply = h.resp]
    BY <1>1, <1>2 DEF Transfer
  <2>2. gtwa' \in Interpreters /\ gtwa'.state = h.state /\ gtwa'.fifo = h.fifo
        /\ gtwa'.address = h.address /\ gtwa'.assigned = h.assigned /\ gtwa'.resp = NoReply
    BY <1>1, <2>1, Records DEF Interpreters
  <2> QED BY <1>1, <1>2, <2>1, <2>2 DEF Ends, Handed
<1>3. CASE ~ Waiting(client')
  <2>1. gtwa' = h /\ clients' = clients
    BY <1>3 DEF Transfer
  <2> QED BY <1>1, <1>3, <2>1 DEF Ends, Handed
<1> QED BY <1>2, <1>3

LEMMA CarriesOn ==
  ASSUME NEW p, NEW h, Continues(p, h), p.resp = NoReply, Transfer(h)
  PROVE  GoesOn(p) /\ gtwa' = h
BY DEF Continues, Transfer, GoesOn

LEMMA Turn ==
  ASSUME NEW p, NEW m, NEW late \in BOOLEAN, Fits(p, m),
         Transfer(Execute(p, m, late).g), master' = Execute(p, m, late).m
  PROVE  TurnsTo(p, m, late)
<1> DEFINE d == Execute(p, m, late)
<1> HIDE DEF d
<1>0. Transfer(d.g) /\ master' = d.m
  BY DEF d
<1>1. p.state \in {"IDLE", "ALLNODES", "SWITCH_SEL", "INQUIRE", "SWITCH_GLOB"} /\ p \in Interpreters
      /\ p.resp = NoReply /\ m \in Masters /\ p.lssSubState \in 0 .. 2 /\ p.lssNID \in Nat
      /\ p.address \in Addresses \cup {0}
  BY DEF Fits, Interpreters
<1>2. p.state # "IDLE" => Busy(p, m)
  BY DEF Fits, Busy
<1>a. ASSUME NEW command, NEW frame, Asks(p, m, d, command, frame)
      PROVE  GoesOn(p) /\ gtwa' = d.g /\ gtwa'.assigned = p.assigned /\ gtwa'.lssNID = p.lssNID
             /\ Sent(master', command, frame)
  BY <1>0, <1>1, <1>a, CarriesOn DEF Asks
<1>b. ASSUME NEW code, Finishes(p, m, d, code)
      PROVE  Handed(p, code) /\ gtwa'.assigned = p.assigned /\ Freed(m, master')
  BY <1>0, <1>b, HandsOver DEF Finishes
<1>c. ASSUME Waits(p, m, d), p.state \notin {"IDLE", "SWITCH_GLOB"},
             m.command \notin {"WAITING", "FASTSCAN"}
      PROVE  StillWaits(p, m, late)
  BY <1>0, <1>1, <1>c, CarriesOn DEF Waits, StillWaits
<1>d. ASSUME Deselects(d)
      PROVE  Deselects([m |-> master'])
  BY <1>0, <1>d DEF Deselects
<1>3. CASE p.state = "IDLE"
  <2>1. d.g = p /\ d.m = m
    BY <1>3, IdleTurn DEF Idles, d
  <2> QED BY <1>0, <1>1, <1>3, <2>1 DEF StaysIdle, Transfer, TurnsTo
<1>4. CASE p.state = "SWITCH_SEL"
  <2>1. \/ m.command = "WAITING" /\ Asks(p, m, d, "SWITCH_STATE", Frame("SELECT", p.address))
        \/ m.command = "SWITCH_STATE" /\ Waits(p, m, d)
        \/ \E code \in Codes : Finishes(p, m, d, code)
    BY <1>2, <1>4, SelectTurn DEF Fits, d
  <2>2. CASE m.command = "WAITING" /\ Asks(p, m, d, "SWITCH_STATE", Frame("SELECT", p.address))
    <3>1. GoesOn(p) /\ gtwa'.assigned = p.assigned /\ gtwa'.lssNID = p.lssNID
          /\ Sent(master', Command("SELECT"), Frame("SELECT", p.address))
      BY <2>2, <1>a DEF Command
    <3>2. Commanding(p, m, late, "SELECT", p.address)
      BY <1>4, <2>2 DEF Commanding
    <3>3. "SELECT" \in FrameKinds \ {"DESELECT"} /\ p.address \in Nat \cup Addresses
      BY <1>1 DEF FrameKinds
    <3> QED BY <3>1, <3>2, <3>3 DEF Starts, TurnsTo
  <2>3. CASE m.command = "SWITCH_STATE" /\ Waits(p, m, d)
    BY <2>3, <1>4, <1>c DEF TurnsTo
  <2>4. CASE \E code \in Codes : Finishes(p, m, d, code)
    BY <2>4, <1>4, <1>b DEF IsOver, TurnsTo
  <2> QED BY <2>1, <2>2, <2>3, <2>4
<1>5. CASE p.state = "INQUIRE"
  <2>1. \/ m.command = "WAITING" /\ Asks(p, m, d, "INQUIRE", Frame("INQUIRE", 0))
        \/ m.command = "INQUIRE" /\ Waits(p, m, d)
        \/ Finishes(p, m, d, "ERROR")
        \/ Finishes(p, m, d, "OK") /\ m.rx.cs = "INQUIRE" /\ m.command = "INQUIRE"
    BY <1>2, <1>5, InquireTurn DEF Fits, d
  <2>2. CASE m.command = "WAITING" /\ Asks(p, m, d, "INQUIRE", Frame("INQUIRE", 0))
    <3>1. GoesOn(p) /\ gtwa'.assigned = p.assigned /\ gtwa'.lssNID = p.lssNID
          /\ Sent(master', Command("INQUIRE"), Frame("INQUIRE", 0))
      BY <2>2, <1>a DEF Command
    <3>2. Commanding(p, m, late, "INQUIRE", 0)
      BY <1>5, <2>2 DEF Commanding
    <3>3. "INQUIRE" \in FrameKinds \ {"DESELECT"} /\ 0 \in Nat \cup Addresses
      BY DEF FrameKinds
    <3> QED BY <3>1, <3>2, <3>3 DEF Starts, TurnsTo
  <2>3. CASE m.command = "INQUIRE" /\ Waits(p, m, d)
    BY <2>3, <1>5, <1>c DEF TurnsTo
  <2>4. CASE Finishes(p, m, d, "ERROR")
    BY <2>4, <1>5, <1>b DEF IsOver, TurnsTo, Codes
  <2>5. CASE Finishes(p, m, d, "OK") /\ m.rx.cs = "INQUIRE" /\ m.command = "INQUIRE"
    BY <2>5, <1>5, <1>b DEF IsOver, TurnsTo, Codes
  <2> QED BY <2>1, <2>2, <2>3, <2>4, <2>5
<1>6. CASE p.state = "SWITCH_GLOB"
  <2>1. Ends(p, d.g, "OK") /\ d.g.assigned = p.assigned /\ Deselects(d)
    BY <1>2, <1>6, GlobalTurn DEF d
  <2> QED BY <2>1, <1>0, <1>6, <1>d, HandsOver DEF IsGlobal, TurnsTo
<1>7. CASE p.state = "ALLNODES" /\ p.lssSubState = 0
  <2>0. m.command \in {"WAITING", "FASTSCAN"} /\ (m.state # "WAITING" => m.command = "WAITING")
        /\ (m.command = "WAITING" => m.rx = NoAnswer)
    BY <1>7 DEF Fits
  <2>1. \/ ~ late /\ m.command = "FASTSCAN" /\ m.state = "WAITING" /\ Idles(p, m, d)
        \/ (m.command = "WAITING" \/ late) /\ d.g = p /\ d.m.state = "WAITING"
           /\ m.state = "WAITING"
           /\ \E cs \in {"CHECK", "SCAN", "VERIFY"}, value \in Nat :
                Asks(p, m, d, "FASTSCAN", Frame(cs, value))
        \/ late /\ d.g.lssSubState = 1
           /\ Asks(p, m, d, "CFG_NODE_ID", Frame("CFG_NODE_ID", p.lssNID))
        \/ late /\ m.command = "FASTSCAN" /\ m.rx.cs # "FASTSCAN" /\ Finishes(p, m, d, "OK")
        \/ Finishes(p, m, d, "ERROR")
        \/ Ends(p, d.g, "ERROR") /\ d.g.assigned = p.assigned /\ d.m = m /\ m.state # "WAITING"
    BY <1>2, <1>7, <2>0, ScanTurn DEF d
  <2>2. CASE ~ late /\ m.command = "FASTSCAN" /\ m.state = "WAITING" /\ Idles(p, m, d)
    <3>1. d.g = p /\ d.m = m
      BY <2>2 DEF Idles
    <3>2. gtwa' = p /\ clients' = clients /\ master' = m
      BY <3>1, <1>0, <1>1 DEF Transfer
    <3>3. Continues(p, p) /\ Kept(m, m)
      BY <1>1 DEF Continues, Kept
    <3> QED BY <2>2, <3>2, <3>3, <1>7 DEF StillWaits, GoesOn, TurnsTo
  <2>3. CASE (m.command = "WAITING" \/ late) /\ d.g = p /\ d.m.state = "WAITING"
             /\ \E cs \in {"CHECK", "SCAN", "VERIFY"}, value \in Nat :
                  Asks(p, m, d, "FASTSCAN", Frame(cs, value))
    <3>1. PICK cs \in {"CHECK", "SCAN", "VERIFY"}, value \in Nat :
             Asks(p, m, d, "FASTSCAN", Frame(cs, value))
      BY <2>3
    <3>2. Command(cs) = "FASTSCAN"
      BY DEF Command
    <3>3. GoesOn(p) /\ gtwa' = d.g /\ gtwa'.assigned = p.assigned /\ gtwa'.lssNID = p.lssNID
          /\ Sent(master', Command(cs), Frame(cs, value))
      BY <3>1, <3>2, <1>a
    <3>4. Commanding(p, m, late, cs, value)
      BY <1>0, <1>7, <2>3, <3>3 DEF Commanding
    <3>5. cs \in FrameKinds \ {"DESELECT"} /\ value \in Nat \cup Addresses
      BY DEF FrameKinds
    <3> QED BY <3>3, <3>4, <3>5 DEF Starts, TurnsTo
  <2>4. CASE late /\ d.g.lssSubState = 1
             /\ Asks(p, m, d, "CFG_NODE_ID", Frame("CFG_NODE_ID", p.lssNID))
    <3>1. GoesOn(p) /\ gtwa' = d.g /\ gtwa'.assigned = p.assigned /\ gtwa'.lssNID = p.lssNID
          /\ Sent(master', Command("CFG_NODE_ID"), Frame("CFG_NODE_ID", p.lssNID))
      BY <2>4, <1>a DEF Command
    <3>2. Commanding(p, m, late, "CFG_NODE_ID", p.lssNID)
      BY <1>7, <2>4, <3>1 DEF Commanding
    <3>3. "CFG_NODE_ID" \in FrameKinds \ {"DESELECT"} /\ p.lssNID \in Nat \cup Addresses
      BY <1>1 DEF FrameKinds
    <3> QED BY <3>1, <3>2, <3>3 DEF Starts, TurnsTo
  <2>5. CASE late /\ m.command = "FASTSCAN" /\ m.rx.cs # "FASTSCAN" /\ Finishes(p, m, d, "OK")
    BY <2>5, <1>7, <1>b DEF IsOver, TurnsTo, Codes
  <2>6. CASE Finishes(p, m, d, "ERROR")
    BY <2>6, <1>7, <1>b DEF IsOver, TurnsTo, Codes
  <2>7. CASE Ends(p, d.g, "ERROR") /\ d.g.assigned = p.assigned /\ d.m = m /\ m.state # "WAITING"
    <3>1. Freed(m, master')
      BY <1>0, <1>1, <2>0, <2>7 DEF Freed
    <3>2. Handed(p, "ERROR") /\ gtwa'.assigned = p.assigned
      BY <1>0, <2>7, HandsOver
    <3> QED BY <3>1, <3>2, <1>7 DEF IsOver, TurnsTo, Codes
  <2> QED BY <2>1, <2>2, <2>3, <2>4, <2>5, <2>6, <2>7
<1>8. CASE p.state = "ALLNODES" /\ p.lssSubState = 1
  <2>0. m.command = "CFG_NODE_ID"
    BY <1>8 DEF Fits
  <2>1. \/ Continues(p, d.g) /\ d.g.assigned = p.assigned
           /\ d.g.lssNID = p.lssNID /\ d.g.lssSubState = 1 /\ Kept(m, d.m) /\ d.m.rx = NoAnswer
        \/ m.rx.cs = "CFG_NODE_ID" /\ m.rx.code = "OK"
           /\ Asks(p, m, d, "CFG_STORE", Frame("CFG_STORE", 0)) /\ d.g.lssSubState = 2
        \/ Finishes(p, m, d, "ERROR")
    BY <1>2, <1>8, <2>0, SetTurn, NodesTurn DEF d
  <2>2. CASE Continues(p, d.g) /\ d.g.assigned = p.assigned
           /\ d.g.lssNID = p.lssNID /\ d.g.lssSubState = 1 /\ Kept(m, d.m) /\ d.m.rx = NoAnswer
    <3>1. Waits(p, m, d)
      BY <2>2, <1>8 DEF Waits
    <3> QED BY <3>1, <2>0, <1>8, <1>c DEF TurnsTo
  <2>3. CASE m.rx.cs = "CFG_NODE_ID" /\ m.rx.code = "OK"
             /\ Asks(p, m, d, "CFG_STORE", Frame("CFG_STORE", 0)) /\ d.g.lssSubState = 2
    <3>1. GoesOn(p) /\ gtwa' = d.g /\ gtwa'.assigned = p.assigned /\ gtwa'.lssNID = p.lssNID
          /\ Sent(master', Command("CFG_STORE"), Frame("CFG_STORE", 0))
      BY <2>3, <1>a DEF Command
    <3>2. Commanding(p, m, late, "CFG_STORE", 0)
      BY <1>8, <2>0, <2>3, <3>1 DEF Commanding
    <3>3. "CFG_STORE" \in FrameKinds \ {"DESELECT"} /\ 0 \in Nat \cup Addresses
      BY DEF FrameKinds
    <3> QED BY <3>1, <3>2, <3>3 DEF Starts, TurnsTo
  <2>4. CASE Finishes(p, m, d, "ERROR")
    BY <2>4, <1>8, <1>b DEF IsOver, TurnsTo, Codes
  <2> QED BY <2>1, <2>2, <2>3, <2>4
<1>9. CASE p.state = "ALLNODES" /\ p.lssSubState = 2
  <2>0. m.command = "CFG_STORE"
    BY <1>9 DEF Fits
  <2>1. \/ Continues(p, d.g) /\ d.g.assigned = p.assigned
           /\ d.g.lssNID = p.lssNID /\ d.g.lssSubState = 2 /\ Kept(m, d.m) /\ d.m.rx = NoAnswer
        \/ Finishes(p, m, d, "ERROR")
        \/ m.rx.cs = "CFG_STORE" /\ m.rx.code = "OK" /\ d.g.assigned = p.lssNID /\ Deselects(d)
           /\ ((Continues(p, d.g) /\ d.g.lssSubState = 0) \/ Ends(p, d.g, "OK"))
    BY <1>2, <1>9, <2>0, StoreTurn, NodesTurn DEF d
  <2>2. CASE Continues(p, d.g) /\ d.g.assigned = p.assigned
           /\ d.g.lssNID = p.lssNID /\ d.g.lssSubState = 2 /\ Kept(m, d.m) /\ d.m.rx = NoAnswer
    <3>1. Waits(p, m, d)
      BY <2>2, <1>9 DEF Waits
    <3> QED BY <3>1, <2>0, <1>9, <1>c DEF TurnsTo
  <2>3. CASE Finishes(p, m, d, "ERROR")
    BY <2>3, <1>9, <1>b DEF IsOver, TurnsTo, Codes
  <2>4. CASE m.rx.cs = "CFG_STORE" /\ m.rx.code = "OK" /\ d.g.assigned = p.lssNID /\ Deselects(d)
             /\ ((Continues(p, d.g) /\ d.g.lssSubState = 0) \/ Ends(p, d.g, "OK"))
    <3>1. CASE Continues(p, d.g) /\ d.g.lssSubState = 0
      BY <3>1, <2>0, <2>4, <1>0, <1>1, <1>9, <1>d, CarriesOn DEF IsStored, TurnsTo
    <3>2. CASE Ends(p, d.g, "OK")
      BY <3>2, <2>0, <2>4, <1>0, <1>9, <1>d, HandsOver DEF IsStored, TurnsTo
    <3> QED BY <2>4, <3>1, <3>2
  <2> QED BY <2>1, <2>2, <2>3, <2>4
<1> QED BY <1>1, <1>3, <1>4, <1>5, <1>6, <1>7, <1>8, <1>9

----------------------------------------------------------------------------
(* The session: whom the daemon serves, with which command, and what it sent *)

Listed(c) == \E i \in DOMAIN backlog : backlog[i] = c

\* Every client that waits is served or in the queue, once, and none in the queue has a reply.
Queue ==
  /\ armed <=> client = NoClient
  /\ \A i, j \in DOMAIN backlog : i # j => backlog[i] # backlog[j]
  /\ ~ Listed(client)
  /\ \A c \in Clients :
       /\ ~ Waiting(c) => clients[c] = Away
       /\ Waiting(c) => client = c \/ Listed(c)
       /\ Listed(c) => clients[c].step \in {0, 1} /\ clients[c].reply = NoReply

\* The daemon works on the command its client waits for, and replies to it alone.  A reply that
\* cannot be delivered is held, and its client is dead.
ServesOwn ==
  /\ gtwa.fifo = 0
  /\ taken = 0 => gtwa.state = "IDLE" /\ gtwa.resp = NoReply
  /\ client = NoClient => taken = 0
  /\ client # NoClient /\ Waiting(client) =>
       taken = clients[client].step - 1 \/ taken = clients[client].step
  /\ gtwa.state # "IDLE" =>
       /\ gtwa.owner = client /\ gtwa.sequence = taken /\ gtwa.resp = NoReply
       /\ Waiting(client) => clients[client].step = taken
  /\ gtwa.resp # NoReply => ~ Waiting(client)
  /\ \A c \in Clients : clients[c].reply # NoReply =>
       /\ clients[c].reply.owner = c /\ clients[c].reply.sequence = clients[c].step
       /\ client = c /\ clients[c].step = taken
       /\ gtwa.state = "IDLE"

\* What the master awaits, and sends, belongs to the command under way.
Commanded ==
  /\ gtwa.state # "IDLE" => gtwa.state = Commands[taken] /\ taken \in 1 .. 3
  /\ gtwa.state = "IDLE" => master.command = "WAITING"
  /\ gtwa.state = "ALLNODES" =>
       /\ gtwa.lssSubState = 0 => master.command \in {"WAITING", "FASTSCAN"}
          /\ master.state = "WAITING"
       /\ gtwa.lssSubState = 1 => master.command = "CFG_NODE_ID"
       /\ gtwa.lssSubState = 2 => master.command = "CFG_STORE"
  /\ gtwa.state = "SWITCH_SEL" => master.command = "SWITCH_STATE"
  /\ gtwa.state = "INQUIRE" => master.command = "INQUIRE"
  /\ master.tx.cs \notin {"none", "DESELECT"} =>
       Command(master.tx.cs) = master.command /\ master.rx = NoAnswer
  /\ master.command # "FASTSCAN" => master.rx = NoAnswer
  /\ master.tx.cs = "CFG_NODE_ID" => master.tx.value = gtwa.lssNID
  /\ master.tx.cs = "SELECT" => master.tx.value = gtwa.address

Session == DaemonTypes /\ Queue /\ ServesOwn /\ Commanded

\* p is the interpreter that takes a turn, and m the master.
Turning(p, m, late) ==
  /\ Fits(p, m) /\ p.fifo = 0 /\ m.tx = NoFrame
  /\ TurnsTo(p, m, late)
  /\ UNCHANGED <<backlog, client, armed>>
  /\ taken' \in 0 .. 4
  /\ p.state = "IDLE" => p = gtwa /\ m = master /\ taken' = taken
  /\ p.state # "IDLE" =>
       /\ client # NoClient
       /\ p.state = Commands[taken'] /\ taken' # 0
       /\ p.owner = client /\ p.sequence = taken'
       /\ Waiting(client) => clients[client].step = taken'
       /\ \A c \in Clients : clients[c].reply = NoReply

LEMMA NamedCommands ==
  /\ Commands[1] = "ALLNODES" /\ Commands[2] = "SWITCH_SEL" /\ Commands[3] = "INQUIRE"
  /\ Commands[4] = "SWITCH_GLOB"
BY DEF Commands

LEMMA OwnFits ==
  ASSUME Session, gtwa.resp = NoReply
  PROVE  Fits(gtwa, master)
BY DEF Session, DaemonTypes, ServesOwn, Commanded, Fits

LEMMA IdleOrNoReply ==
  ASSUME Session
  PROVE  /\ gtwa.state # "IDLE" => client # NoClient /\ gtwa.resp = NoReply
         /\ gtwa.resp # NoReply => gtwa.state = "IDLE" /\ ~ Waiting(client)
         /\ gtwa.state = "IDLE" => master.command = "WAITING" /\ master.rx = NoAnswer
BY DEF Session, ServesOwn, Commanded

LEMMA ProcessTurns ==
  ASSUME Session, NEW m, NEW late \in BOOLEAN, client' = client, CO_GTWA_process(gtwa, m, late),
         gtwa.resp = NoReply => Fits(gtwa, m)
  PROVE  TurnsTo(gtwa, m, late)
<1>1. gtwa \in Interpreters /\ gtwa.fifo = 0
  BY DEF Session, DaemonTypes, ServesOwn
<1>2. Parsed(gtwa) = gtwa
  BY <1>1 DEF Parsed
<1>3. CASE client = NoClient
  <2>1. gtwa.state = "IDLE"
    BY <1>3, IdleOrNoReply
  <2>2. gtwa' = [gtwa EXCEPT !.state = "IDLE", !.fifo = 0] /\ master' = m /\ clients' = clients
    BY <1>3 DEF CO_GTWA_process
  <2>3. gtwa' = gtwa
    BY <1>1, <2>1, <2>2 DEF Interpreters
  <2> QED BY <2>1, <2>2, <2>3 DEF StaysIdle, TurnsTo
<1>4. CASE client # NoClient /\ gtwa.resp # NoReply
  <2>1. Transfer(gtwa) /\ master' = m
    BY <1>4 DEF CO_GTWA_process
  <2>2. gtwa.state = "IDLE" /\ ~ Waiting(client')
    BY <1>4, IdleOrNoReply
  <2> QED BY <2>1, <2>2 DEF Transfer, StaysIdle, TurnsTo
<1>5. CASE client # NoClient /\ gtwa.resp = NoReply
  <2>1. Transfer(Execute(gtwa, m, late).g) /\ master' = Execute(gtwa, m, late).m
    BY <1>2, <1>5 DEF CO_GTWA_process
  <2> QED BY <1>5, <2>1, Turn
<1> QED BY <1>3, <1>4, <1>5

\* What a turn of the interpreter as it is, rather than of a new command, takes.
LEMMA OwnTurning ==
  ASSUME Session, NEW m, NEW late \in BOOLEAN, Fits(gtwa, m), m.tx = NoFrame,
         gtwa.state = "IDLE" => m = master,
         TurnsTo(gtwa, m, late), UNCHANGED <<backlog, client, armed, taken>>
  PROVE  Turning(gtwa, m, late)
<1>1. gtwa.fifo = 0 /\ taken' \in 0 .. 4 /\ taken' = taken
  BY DEF Session, DaemonTypes, ServesOwn
<1>2. gtwa.state # "IDLE" =>
       /\ client # NoClient
       /\ gtwa.state = Commands[taken] /\ taken # 0
       /\ gtwa.owner = client /\ gtwa.sequence = taken
       /\ Waiting(client) => clients[client].step = taken
       /\ \A c \in Clients : clients[c].reply = NoReply
  BY DEF Session, ServesOwn, Commanded
<1> QED BY <1>1, <1>2 DEF Turning

LEMMA TimerTurns ==
  ASSUME Session, NEW late \in BOOLEAN, TimerExpires(late)
  PROVE  /\ TurnsTo(gtwa, master, late) /\ master.tx = NoFrame /\ canRx' = canRx
         /\ UNCHANGED <<backlog, client, armed, taken>>
         /\ \/ gtwa.resp = NoReply /\ Turning(gtwa, master, late)
            \/ UNCHANGED <<gtwa, master, clients>>
<1>1. /\ CO_GTWA_process(gtwa, master, late) /\ master.tx = NoFrame /\ canRx' = canRx
      /\ UNCHANGED <<backlog, client, armed, taken>>
  BY DEF TimerExpires
<1>2. TurnsTo(gtwa, master, late)
  BY <1>1, OwnFits, ProcessTurns
<1>3. CASE gtwa.resp = NoReply
  <2>1. Fits(gtwa, master)
    BY <1>3, OwnFits
  <2>2. Turning(gtwa, master, late)
    BY <1>1, <1>2, <2>1, OwnTurning
  <2> QED BY <1>1, <1>2, <1>3, <2>2
<1>4. CASE gtwa.resp # NoReply
  <2>1. gtwa.state = "IDLE"
    BY <1>4, IdleOrNoReply
  <2>2. UNCHANGED <<gtwa, master, clients>>
    <3>1. CASE client = NoClient
      BY <1>4, <3>1 DEF Session, ServesOwn
    <3>2. CASE client # NoClient
      <4>1. Transfer(gtwa) /\ master' = master
        BY <1>1, <1>4, <3>2 DEF CO_GTWA_process
      <4>2. ~ Waiting(client')
        BY <1>1, <1>4, IdleOrNoReply
      <4> QED BY <4>1, <4>2 DEF Transfer
    <3> QED BY <3>1, <3>2
  <2> QED BY <1>1, <1>2, <2>2
<1> QED BY <1>3, <1>4

\* The master that took the first answer, or dropped it.
Heard == IF master.rx = NoAnswer /\ ~ Ready(master)
         THEN [master EXCEPT !.rx = Head(canRx)]
         ELSE master

LEMMA HeardFits ==
  ASSUME Session, canRx # <<>>
  PROVE  /\ Heard \in Masters /\ Heard.command = master.command /\ Heard.tx = master.tx
         /\ Heard.state = master.state /\ Heard.fsState = master.fsState
         /\ Heard.command = "WAITING" => Heard = master
         /\ gtwa.resp = NoReply => Fits(gtwa, Heard)
<1>1. Head(canRx) \in NodeAnswers
  BY HeadTailProperties DEF Session, DaemonTypes
<1>2. master \in Masters
  BY DEF Session, DaemonTypes
<1>3. Heard \in Masters /\ Heard.command = master.command /\ Heard.tx = master.tx
      /\ Heard.state = master.state /\ Heard.fsState = master.fsState
  BY <1>1, <1>2 DEF Heard, Masters
<1>4. Heard.command = "WAITING" => Heard = master
  BY <1>3 DEF Heard, Ready
<1> HIDE DEF Heard
<1>5. gtwa.resp = NoReply => Fits(gtwa, Heard)
  BY <1>3, <1>4, OwnFits DEF Fits
<1> QED BY <1>3, <1>4, <1>5

LEMMA ReceiveTurns ==
  ASSUME Session, CO_LSSmaster_receive
  PROVE  /\ canRx # <<>> /\ master.tx = NoFrame /\ canRx' = Tail(canRx)
         /\ UNCHANGED <<backlog, client, armed, taken>>
         /\ \/ gtwa.resp = NoReply /\ Turning(gtwa, Heard, FALSE)
            \/ gtwa.resp # NoReply /\ UNCHANGED <<gtwa, master, clients>>
<1>1. /\ CO_GTWA_process(gtwa, Heard, FALSE) /\ master.tx = NoFrame /\ canRx # <<>>
      /\ canRx' = Tail(canRx)
      /\ UNCHANGED <<backlog, client, armed, taken>>
  BY DEF CO_LSSmaster_receive, Heard
<1>2. TurnsTo(gtwa, Heard, FALSE)
  BY <1>1, HeardFits, ProcessTurns
<1>3. CASE gtwa.resp = NoReply
  <2>1. Fits(gtwa, Heard) /\ Heard.tx = NoFrame
    BY <1>1, <1>3, HeardFits
  <2>2. gtwa.state = "IDLE" => Heard = master
    BY <1>1, HeardFits, IdleOrNoReply
  <2>3. Turning(gtwa, Heard, FALSE)
    BY <1>1, <1>2, <2>1, <2>2, OwnTurning
  <2> QED BY <1>1, <1>3, <2>3
<1>4. CASE gtwa.resp # NoReply
  <2>1. gtwa.state = "IDLE" /\ Heard = master
    BY <1>1, <1>4, IdleOrNoReply, HeardFits
  <2>2. UNCHANGED <<gtwa, master, clients>>
    <3>1. CASE client = NoClient
      BY <1>4, <3>1 DEF Session, ServesOwn
    <3>2. CASE client # NoClient
      <4>1. Transfer(gtwa) /\ master' = master
        BY <1>1, <1>4, <2>1, <3>2 DEF CO_GTWA_process
      <4>2. ~ Waiting(client')
        BY <1>1, <1>4, IdleOrNoReply
      <4> QED BY <4>1, <4>2 DEF Transfer
    <3> QED BY <3>1, <3>2
  <2> QED BY <1>1, <1>4, <2>2
<1> QED BY <1>3, <1>4

LEMMA AcceptChangesNothing ==
  ASSUME Session, AcceptsClient
  PROVE  /\ backlog # <<>> /\ client = NoClient /\ taken = 0
         /\ client' = Head(backlog) /\ backlog' = Tail(backlog) /\ armed' = FALSE
         /\ UNCHANGED <<gtwa, master, clients, taken, canRx>>
<1>1. /\ armed /\ backlog # <<>> /\ client' = Head(backlog) /\ backlog' = Tail(backlog)
      /\ armed' = FALSE /\ UNCHANGED <<taken, canRx>>
      /\ CO_GTWA_process(gtwa, master, FALSE)
  BY DEF AcceptsClient
<1>2. client = NoClient /\ taken = 0 /\ gtwa.state = "IDLE" /\ gtwa.resp = NoReply /\ gtwa.fifo = 0
  BY <1>1 DEF Session, Queue, ServesOwn
<1>3. client' # NoClient
  <2>1. Head(backlog) \in Clients
    BY <1>1, HeadTailProperties DEF Session, DaemonTypes
  <2> QED BY <1>1, <2>1, Constants
<1>4. Parsed(gtwa) = gtwa
  BY <1>2 DEF Parsed
<1>5. Transfer(Execute(gtwa, master, FALSE).g) /\ master' = Execute(gtwa, master, FALSE).m
  BY <1>1, <1>2, <1>3, <1>4 DEF CO_GTWA_process
<1>6. Execute(gtwa, master, FALSE).g = gtwa /\ Execute(gtwa, master, FALSE).m = master
  BY <1>2, IdleTurn DEF Idles
<1>7. gtwa' = gtwa /\ clients' = clients
  BY <1>2, <1>5, <1>6 DEF Transfer
<1> QED BY <1>1, <1>2, <1>5, <1>6, <1>7

\* The command a turn begins.
Begun(p) ==
  /\ client # NoClient /\ Waiting(client) /\ clients[client].step = taken + 1
  /\ clients[client].reply = NoReply
  /\ gtwa.state = "IDLE" /\ taken' = taken + 1
  /\ p.lssSubState = 0 /\ p.assigned = 0 /\ p.address = clients[client].address

LEMMA ParseBegins ==
  ASSUME NEW q \in Interpreters, q.state = "IDLE", q.fifo \in 1 .. 4, client' \in Clients
  PROVE  /\ Parsed(q) \in Interpreters
         /\ Parsed(q).state = Commands[q.fifo] /\ Parsed(q).sequence = q.fifo
         /\ Parsed(q).owner = client' /\ Parsed(q).fifo = 0 /\ Parsed(q).lssSubState = 0
         /\ Parsed(q).assigned = 0 /\ Parsed(q).resp = q.resp /\ Parsed(q).address = q.address
<1> DEFINE a == [q EXCEPT !.state = Commands[q.fifo]]
           b == [a EXCEPT !.sequence = q.fifo]
           c == [b EXCEPT !.owner = client']
           d == [c EXCEPT !.fifo = 0]
           e == [d EXCEPT !.lssSubState = 0]
           f == [e EXCEPT !.lssNID = FirstId]
           p == [f EXCEPT !.assigned = 0]
           Fields(x) == x.state = Commands[q.fifo] /\ x.resp = q.resp /\ x.address = q.address
<1>1. Commands[q.fifo] \in {"ALLNODES", "SWITCH_SEL", "INQUIRE", "SWITCH_GLOB"}
  BY NamedCommands
<1>2. a \in Interpreters /\ Fields(a)
  BY <1>1 DEF Interpreters
<1> HIDE DEF a
<1>3. b \in Interpreters /\ Fields(b) /\ b.sequence = q.fifo
  BY <1>2 DEF Interpreters
<1> HIDE DEF b
<1>4. c \in Interpreters /\ Fields(c) /\ c.sequence = q.fifo /\ c.owner = client'
  BY <1>3 DEF Interpreters
<1> HIDE DEF c
<1>5. d \in Interpreters /\ Fields(d) /\ d.sequence = q.fifo /\ d.owner = client' /\ d.fifo = 0
  BY <1>4 DEF Interpreters
<1> HIDE DEF d
<1>6. e \in Interpreters /\ Fields(e) /\ e.sequence = q.fifo /\ e.owner = client' /\ e.fifo = 0
      /\ e.lssSubState = 0
  BY <1>5 DEF Interpreters
<1> HIDE DEF e
<1>7. f \in Interpreters /\ Fields(f) /\ f.sequence = q.fifo /\ f.owner = client' /\ f.fifo = 0
      /\ f.lssSubState = 0
  BY <1>6, Constants DEF Interpreters
<1> HIDE DEF f
<1>8. p \in Interpreters /\ Fields(p) /\ p.sequence = q.fifo /\ p.owner = client' /\ p.fifo = 0
      /\ p.lssSubState = 0 /\ p.assigned = 0
  BY <1>7 DEF Interpreters
<1>9. Parsed(q) = p
  BY DEF Parsed, a, b, c, d, e, f
<1> HIDE DEF p
<1> QED BY <1>8, <1>9

LEMMA ReadTurns ==
  ASSUME Session, ReadsCommand
  PROVE  /\ canRx' = canRx /\ master.tx = NoFrame
         /\ UNCHANGED <<backlog, client, armed>>
         /\ \E p \in Interpreters : Begun(p) /\ Turning(p, master, FALSE)
<1> DEFINE number == taken'
           address == clients[client].address
           counted == [gtwa EXCEPT !.fifo = number]
           q == [counted EXCEPT !.address = address]
           p == Parsed(q)
<1>1. /\ master.tx = NoFrame /\ client # NoClient /\ Waiting(client)
      /\ clients[client].step = taken + 1 /\ taken' = taken + 1
      /\ UNCHANGED <<backlog, client, armed, canRx>>
      /\ CO_GTWA_process(q, master, FALSE)
  BY DEF ReadsCommand
<1>2. client \in Clients /\ clients[client] \in Requests /\ gtwa \in Interpreters
      /\ taken \in 0 .. 4
      /\ master \in Masters
  BY <1>1 DEF Session, DaemonTypes
<1>3. clients[client].step \in 0 .. 4 /\ clients[client].address \in Addresses \cup {0}
  BY <1>2 DEF Requests
<1>4. taken' \in 1 .. 4
  BY <1>1, <1>2, <1>3
<1>5. gtwa.state = "IDLE" /\ gtwa.resp = NoReply /\ \A c \in Clients : clients[c].reply = NoReply
  <2>1. gtwa.state = "IDLE"
    BY <1>1, <1>2, <1>3 DEF Session, ServesOwn
  <2>2. gtwa.resp = NoReply
    BY <1>1 DEF Session, ServesOwn
  <2>3. ASSUME NEW c \in Clients
        PROVE  clients[c].reply = NoReply
    BY <1>1, <1>2, <1>3 DEF Session, ServesOwn
  <2> QED BY <2>1, <2>2, <2>3
<1>6. q \in Interpreters /\ q.fifo = taken' /\ q.address = clients[client].address
      /\ q.state = "IDLE" /\ q.resp = NoReply
  <2>1. taken' \in 0 .. 4
    BY <1>4
  <2> HIDE DEF number, address
  <2>2. number \in 0 .. 4 /\ address \in Addresses \cup {0}
    BY <1>3, <2>1 DEF number, address
  <2>3. counted \in Interpreters /\ counted.fifo = number /\ counted.state = "IDLE"
        /\ counted.resp = NoReply
    BY <1>2, <1>5, <2>2 DEF Interpreters
  <2> HIDE DEF counted
  <2>4. q \in Interpreters /\ q.fifo = number /\ q.address = address
        /\ q.state = "IDLE" /\ q.resp = NoReply
    BY <2>2, <2>3 DEF Interpreters
  <2> QED BY <2>4 DEF number, address
<1>8. Transfer(Execute(Parsed(q), master, FALSE).g) /\ master' = Execute(Parsed(q), master, FALSE).m
  BY <1>1, <1>6 DEF CO_GTWA_process
<1> HIDE DEF q
<1>9. Commands[taken'] \in {"ALLNODES", "SWITCH_SEL", "INQUIRE", "SWITCH_GLOB"}
  BY <1>4, NamedCommands
<1>10. /\ p \in Interpreters /\ p.state = Commands[taken'] /\ p.sequence = taken'
          /\ p.owner = client
       /\ p.fifo = 0 /\ p.lssSubState = 0 /\ p.assigned = 0 /\ p.resp = NoReply
       /\ p.address = clients[client].address
  BY <1>1, <1>2, <1>4, <1>6, <1>9, ParseBegins
<1> HIDE DEF p
<1>11. master.command = "WAITING" /\ master.rx = NoAnswer
  BY <1>5, IdleOrNoReply
<1>12. Fits(p, master)
  BY <1>2, <1>4, <1>10, <1>11 DEF Fits
<1>13. TurnsTo(p, master, FALSE)
  BY <1>8, <1>12, Turn DEF p
<1>14. Begun(p)
  BY <1>1, <1>2, <1>5, <1>10 DEF Begun
<1>15. p.state # "IDLE"
  BY <1>9, <1>10
<1>16. Turning(p, master, FALSE)
  <2>1. taken' \in 0 .. 4 /\ taken' # 0
    BY <1>4
  <2>2. UNCHANGED <<backlog, client, armed>>
    BY <1>1
  <2>3. Waiting(client) => clients[client].step = taken'
    BY <1>1
  <2> QED BY <1>1, <1>5, <1>10, <1>12, <1>13, <1>15, <2>1, <2>2, <2>3 DEF Turning
<1> QED BY <1>1, <1>10, <1>14, <1>16

LEMMA CloseEnds ==
  ASSUME Session, ClientCloses
  PROVE  /\ client # NoClient /\ ~ Waiting(client) /\ master.tx = NoFrame
         /\ client' = NoClient /\ taken' = 0 /\ armed' = TRUE
         /\ gtwa' = IdleGtwa /\ Deselects([m |-> master'])
         /\ UNCHANGED <<clients, backlog, canRx>>
<1>1. /\ client # NoClient /\ ~ Waiting(client) /\ master.tx = NoFrame
      /\ client' = NoClient /\ taken' = 0 /\ armed' = TRUE /\ UNCHANGED <<backlog, canRx>>
      /\ CO_GTWA_process(IdleGtwa, CO_LSSmaster_swStateDeselect(master), FALSE)
  BY DEF ClientCloses, close_client
<1>2. /\ gtwa' = [IdleGtwa EXCEPT !.state = "IDLE", !.fifo = 0]
      /\ master' = CO_LSSmaster_swStateDeselect(master)
      /\ UNCHANGED clients
  BY <1>1 DEF CO_GTWA_process
<1>3. [IdleGtwa EXCEPT !.state = "IDLE", !.fifo = 0] = IdleGtwa
  <2>1. IdleGtwa \in Interpreters /\ IdleGtwa.state = "IDLE" /\ IdleGtwa.fifo = 0
    BY Records DEF IdleGtwa
  <2> QED BY <2>1 DEF Interpreters
<1>4. Frame("DESELECT", 0) \in Frames
  BY DEF Frame, Frames, FrameKinds
<1>5. master \in Masters
  BY DEF Session, DaemonTypes
<1>6. Deselects([m |-> master'])
  BY <1>2, <1>4, <1>5, Records DEF Deselects, CO_LSSmaster_swStateDeselect, Masters
<1> QED BY <1>1, <1>2, <1>3, <1>6

----------------------------------------------------------------------------
(* Each turn keeps the session *)

\* The records after a turn.
LEMMA TurnTypes ==
  ASSUME Session, NEW p, NEW m, NEW late \in BOOLEAN, Turning(p, m, late)
  PROVE  /\ gtwa' \in Interpreters /\ master' \in Masters /\ gtwa'.fifo = 0
         /\ clients' \in [Clients -> Requests] /\ taken' \in 0 .. 4
         /\ UNCHANGED <<backlog, client, armed>>
         /\ \A c \in Clients : /\ clients'[c].step = clients[c].step
                               /\ clients'[c].address = clients[c].address
                               /\ clients'[c].id = clients[c].id
                               /\ c # client => clients'[c] = clients[c]
                               /\ ~ Waiting(c) => clients'[c] = clients[c]
<1>1. /\ Fits(p, m) /\ p.fifo = 0 /\ TurnsTo(p, m, late) /\ taken' \in 0 .. 4
      /\ UNCHANGED <<backlog, client, armed>>
      /\ p.state = "IDLE" => p = gtwa /\ m = master
      /\ p.state # "IDLE" => client # NoClient
  BY DEF Turning
<1>2. clients \in [Clients -> Requests] /\ client \in Clients \cup {NoClient}
      /\ gtwa \in Interpreters
      /\ master \in Masters /\ gtwa.fifo = 0
  BY DEF Session, DaemonTypes, ServesOwn
<1> DEFINE Kinds == /\ gtwa' \in Interpreters /\ master' \in Masters /\ gtwa'.fifo = 0
           Same == clients' = clients
           Told == \E reply \in Replies : client \in Clients /\ Waiting(client)
                                          /\ clients' = [clients EXCEPT ![client].reply = reply]
<1>3. ASSUME GoesOn(p)
      PROVE  gtwa' \in Interpreters /\ gtwa'.fifo = 0 /\ Same
  BY <1>1, <1>3 DEF GoesOn, Continues
<1>4. ASSUME NEW code, Handed(p, code), p.state # "IDLE"
      PROVE  gtwa' \in Interpreters /\ gtwa'.fifo = 0 /\ (Same \/ Told)
  BY <1>1, <1>2, <1>4 DEF Handed, Waiting
<1>6. Kinds /\ (Same \/ Told)
  <2>1. CASE StaysIdle(p, m)
    BY <1>1, <1>2, <2>1 DEF StaysIdle
  <2>2. CASE StillWaits(p, m, late)
    BY <1>3, <2>2 DEF StillWaits, Kept
  <2>3. CASE Starts(p, m, late)
    BY <1>3, <2>3 DEF Starts, Sent
  <2>4. CASE IsStored(p, m)
    BY <1>3, <1>4, <2>4 DEF IsStored, Deselects
  <2>5. CASE IsOver(p, m, late)
    BY <1>4, <2>5 DEF IsOver, Freed
  <2>6. CASE IsGlobal(p)
    BY <1>4, <2>6 DEF IsGlobal, Deselects
  <2> QED BY <1>1, <2>1, <2>2, <2>3, <2>4, <2>5, <2>6 DEF TurnsTo
<1>7. CASE Same
  BY <1>1, <1>2, <1>6, <1>7
<1>8. CASE Told
  <2>1. PICK reply \in Replies : clients' = [clients EXCEPT ![client].reply = reply]
                                 /\ client \in Clients /\ Waiting(client)
    BY <1>8
  <2>2. clients[client] \in Requests
    BY <1>2, <2>1
  <2>3. [clients[client] EXCEPT !.reply = reply] \in Requests
        /\ [clients[client] EXCEPT !.reply = reply].step = clients[client].step
        /\ [clients[client] EXCEPT !.reply = reply].address = clients[client].address
        /\ [clients[client] EXCEPT !.reply = reply].id = clients[client].id
    BY <2>2 DEF Requests
  <2>4. clients' = [clients EXCEPT ![client] = [clients[client] EXCEPT !.reply = reply]]
    BY <2>1
  <2>5. \A c \in Clients :
          clients'[c] = IF c = client THEN [clients[client] EXCEPT !.reply = reply] ELSE clients[c]
    BY <1>2, <2>4
  <2>6. clients' \in [Clients -> Requests]
    BY <1>2, <2>1, <2>3, <2>4
  <2> QED BY <1>1, <1>6, <2>1, <2>3, <2>5, <2>6
<1> QED BY <1>6, <1>7, <1>8

LEMMA TurnQueue ==
  ASSUME Session, NEW p, NEW m, NEW late \in BOOLEAN, Turning(p, m, late)
  PROVE  Queue'
<1>1. /\ UNCHANGED <<backlog, client, armed>>
      /\ \A c \in Clients : /\ clients'[c].step = clients[c].step
                            /\ c # client => clients'[c] = clients[c]
                            /\ ~ Waiting(c) => clients'[c] = clients[c]
  BY TurnTypes
<1>2. Queue
  BY DEF Session
<1>3. \A c : (Listed(c))' <=> Listed(c)
  BY <1>1 DEF Listed
<1>4. \A c \in Clients : (Waiting(c))' <=> Waiting(c)
  BY <1>1 DEF Waiting
<1>5. ASSUME NEW c \in Clients
      PROVE  /\ ~ (Waiting(c))' => clients'[c] = Away
             /\ (Waiting(c))' => client = c \/ Listed(c)
             /\ Listed(c) => clients'[c].step \in {0, 1} /\ clients'[c].reply = NoReply
  BY <1>1, <1>2, <1>4 DEF Queue
<1> QED BY <1>1, <1>2, <1>3, <1>5 DEF Queue

LEMMA TurnServes ==
  ASSUME Session, NEW p, NEW m, NEW late \in BOOLEAN, Turning(p, m, late)
  PROVE  ServesOwn'
<1>1. /\ UNCHANGED client /\ gtwa'.fifo = 0
      /\ \A c \in Clients : clients'[c].step = clients[c].step
      /\ \A c \in Clients : c # client => clients'[c] = clients[c]
      /\ taken' \in 0 .. 4
  BY TurnTypes
<1>2. \A c \in Clients : (Waiting(c))' <=> Waiting(c)
  BY <1>1 DEF Waiting
<1>3. client \in Clients \cup {NoClient} /\ NoClient \notin Clients
      /\ clients \in [Clients -> Requests]
      /\ taken \in 0 .. 4
  BY Constants DEF Session, DaemonTypes
<1>4. /\ TurnsTo(p, m, late) /\ p.resp = NoReply
      /\ p.state = "IDLE" => p = gtwa /\ m = master /\ taken' = taken
      /\ p.state # "IDLE" =>
           /\ client # NoClient /\ client \in Clients
           /\ p.state = Commands[taken'] /\ taken' # 0
           /\ p.owner = client /\ p.sequence = taken'
           /\ Waiting(client) => clients[client].step = taken'
           /\ \A c \in Clients : clients[c].reply = NoReply
  BY <1>3 DEF Turning, Fits
<1>5. CASE p.state = "IDLE"
  <2>1. StaysIdle(p, m)
    BY <1>4, <1>5 DEF TurnsTo, StillWaits, Starts, Commanding, IsStored, IsOver, IsGlobal
  <2>2. gtwa' = gtwa /\ clients' = clients /\ taken' = taken
    BY <1>4, <1>5, <2>1 DEF StaysIdle
  <2> QED BY <1>1, <2>2 DEF Session, ServesOwn, Waiting
<1>6. CASE p.state # "IDLE"
  <2> DEFINE On == GoesOn(p)
             Over == \E code : Handed(p, code)
  <2>1. On \/ Over
    BY <1>4, <1>6 DEF TurnsTo, StaysIdle, StillWaits, Starts, IsStored, IsOver, IsGlobal
  <2>2. client # NoClient /\ client \in Clients /\ taken' # 0
    BY <1>4, <1>6
  <2>3. CASE On
    <3>1. clients' = clients /\ gtwa'.state = p.state /\ gtwa'.sequence = p.sequence
          /\ gtwa'.owner = p.owner /\ gtwa'.resp = NoReply
      BY <1>4, <2>3 DEF GoesOn, Continues
    <3>2. Waiting(client) => clients[client].step = taken'
      BY <1>4, <1>6
    <3>3. \A c \in Clients : clients'[c].reply = NoReply
      BY <1>4, <1>6, <3>1
    <3>4. gtwa'.owner = client /\ gtwa'.sequence = taken'
      BY <1>4, <1>6, <3>1
    <3> QED BY <1>1, <1>2, <2>2, <3>1, <3>2, <3>3, <3>4 DEF ServesOwn
  <2>4. CASE Over
    <3>1. PICK code : Handed(p, code)
      BY <2>4
    <3>2. PICK reply \in Replies :
            /\ reply # NoReply /\ reply.sequence = taken' /\ reply.owner = client
            /\ \/ /\ Waiting(client) /\ gtwa'.resp = NoReply
                  /\ clients' = [clients EXCEPT ![client].reply = reply]
               \/ ~ Waiting(client) /\ gtwa'.resp = reply /\ clients' = clients
      BY <1>1, <1>4, <1>6, <3>1 DEF Handed, Waiting
    <3>3. gtwa'.state = "IDLE"
      BY <3>1 DEF Handed
    <3>4. Waiting(client) => clients[client].step = taken'
      BY <1>4, <1>6
    <3>5. CASE Waiting(client)
      <4>1. gtwa'.resp = NoReply /\ clients' = [clients EXCEPT ![client].reply = reply]
        BY <3>2, <3>5
      <4>2. clients[client] \in Requests
        BY <1>3, <2>2
      <4>3. clients'[client] = [clients[client] EXCEPT !.reply = reply]
        BY <1>3, <2>2, <4>1
      <4>4. clients'[client].reply = reply /\ clients'[client].step = taken'
        BY <3>4, <3>5, <4>2, <4>3 DEF Requests
      <4>5. \A c \in Clients \ {client} : clients'[c].reply = NoReply
        BY <1>1, <1>4, <1>6
      <4> QED BY <1>1, <1>2, <2>2, <3>2, <3>3, <3>5, <4>1, <4>4, <4>5 DEF ServesOwn
    <3>6. CASE ~ Waiting(client)
      <4>1. gtwa'.resp = reply /\ clients' = clients
        BY <3>2, <3>6
      <4>2. \A c \in Clients : clients'[c].reply = NoReply
        BY <1>4, <1>6, <4>1
      <4> QED BY <1>1, <1>2, <2>2, <3>3, <3>6, <4>1, <4>2 DEF ServesOwn
    <3> QED BY <3>5, <3>6
  <2> QED BY <2>1, <2>3, <2>4
<1> QED BY <1>5, <1>6

LEMMA FrameFields ==
  ASSUME NEW cs, NEW value
  PROVE  Frame(cs, value).cs = cs /\ Frame(cs, value).value = value
BY DEF Frame

LEMMA TurnCommands ==
  ASSUME Session, NEW p, NEW m, NEW late \in BOOLEAN, Turning(p, m, late)
  PROVE  Commanded'
<1>1. gtwa' \in Interpreters /\ master' \in Masters /\ taken' \in 0 .. 4 /\ client' = client
  BY TurnTypes
<1>2. /\ TurnsTo(p, m, late) /\ m.tx = NoFrame /\ Fits(p, m)
      /\ p.state = "IDLE" => p = gtwa /\ m = master /\ taken' = taken
      /\ p.state # "IDLE" => p.state = Commands[taken'] /\ taken' # 0
  BY DEF Turning
<1>3. NoFrame.cs = "none"
  BY DEF NoFrame
<1>4. p.state # "IDLE" => taken' \in 1 .. 4
  BY <1>1, <1>2
<1>5. p.state = "SWITCH_GLOB" => taken' = 4
  BY <1>2, <1>4, NamedCommands
<1>6. p.state \in {"ALLNODES", "SWITCH_SEL", "INQUIRE"} => taken' \in 1 .. 3
  BY <1>2, <1>4, NamedCommands
<1>7. CASE StaysIdle(p, m)
  <2>1. gtwa' = gtwa /\ master' = master /\ taken' = taken
    BY <1>2, <1>7 DEF StaysIdle
  <2> QED BY <2>1 DEF Session, Commanded
<1>8. CASE StillWaits(p, m, late)
  <2>1. /\ p.state # "IDLE" /\ gtwa'.state = p.state /\ gtwa'.lssSubState = p.lssSubState
        /\ master'.command = m.command /\ master'.state = m.state /\ master'.tx = NoFrame
        /\ m.command # "WAITING"
        /\ master'.command # "FASTSCAN" => master'.rx = NoAnswer
    BY <1>2, <1>8 DEF StillWaits, GoesOn, Continues, Kept
  <2>2. p.state # "SWITCH_GLOB"
    BY <1>8 DEF StillWaits
  <2> QED BY <1>2, <1>3, <1>6, <2>1, <2>2 DEF Commanded, Fits, Interpreters
<1>9. CASE Starts(p, m, late)
  <2>1. PICK cs \in FrameKinds \ {"DESELECT"}, value \in Nat \cup Addresses :
          /\ Sent(master', Command(cs), Frame(cs, value))
          /\ Commanding(p, m, late, cs, value)
    BY <1>9 DEF Starts
  <2>2. /\ gtwa'.state = p.state /\ gtwa'.lssNID = p.lssNID /\ gtwa'.address = p.address
    BY <1>9 DEF Starts, GoesOn, Continues
  <2>3. /\ master'.command = Command(cs) /\ master'.rx = NoAnswer
        /\ master'.tx.cs = cs /\ master'.tx.value = value
    BY <2>1, FrameFields DEF Sent
  <2>4. CASE p.state = "SWITCH_SEL" /\ cs = "SELECT" /\ value = p.address
    BY <1>2, <1>6, <2>2, <2>3, <2>4 DEF Commanded, Command
  <2>5. CASE p.state = "INQUIRE" /\ cs = "INQUIRE"
    BY <1>2, <1>6, <2>2, <2>3, <2>5 DEF Commanded, Command
  <2>6. CASE p.state = "ALLNODES" /\ cs \in {"CHECK", "SCAN", "VERIFY"} /\ gtwa'.lssSubState = 0
             /\ master'.state = "WAITING"
    BY <1>2, <1>6, <2>2, <2>3, <2>6 DEF Commanded, Command
  <2>7. CASE p.state = "ALLNODES" /\ cs = "CFG_NODE_ID" /\ gtwa'.lssSubState = 1 /\ value = p.lssNID
    BY <1>2, <1>6, <2>2, <2>3, <2>7 DEF Commanded, Command
  <2>8. CASE p.state = "ALLNODES" /\ cs = "CFG_STORE" /\ gtwa'.lssSubState = 2
    BY <1>2, <1>6, <2>2, <2>3, <2>8 DEF Commanded, Command
  <2> QED BY <2>1, <2>4, <2>5, <2>6, <2>7, <2>8 DEF Commanding
<1>10. CASE IsStored(p, m)
  <2>1. /\ master'.state = "WAITING" /\ master'.command = "WAITING" /\ master'.rx = NoAnswer
        /\ master'.tx.cs = "DESELECT"
    BY <1>10, FrameFields DEF IsStored, Deselects
  <2>2. \/ gtwa'.state = p.state /\ gtwa'.lssSubState = 0
        \/ gtwa'.state = "IDLE"
    BY <1>10 DEF IsStored, GoesOn, Continues, Handed
  <2>3. p.state = "ALLNODES"
    BY <1>10 DEF IsStored
  <2> QED BY <1>2, <1>6, <2>1, <2>2, <2>3 DEF Commanded
<1>11. CASE IsOver(p, m, late)
  <2>1. /\ master'.command = "WAITING" /\ master'.rx = NoAnswer /\ master'.tx = NoFrame
        /\ gtwa'.state = "IDLE"
    BY <1>2, <1>11 DEF IsOver, Freed, Handed
  <2> QED BY <1>3, <2>1 DEF Commanded
<1>12. CASE IsGlobal(p)
  <2>1. /\ master'.command = "WAITING" /\ master'.rx = NoAnswer /\ master'.tx.cs = "DESELECT"
        /\ gtwa'.state = "IDLE"
    BY <1>12, FrameFields DEF IsGlobal, Deselects, Handed
  <2> QED BY <2>1 DEF Commanded
<1> QED BY <1>2, <1>7, <1>8, <1>9, <1>10, <1>11, <1>12 DEF TurnsTo

----------------------------------------------------------------------------
(* So do the other steps of the daemon and of its clients *)

LEMMA SessionTurn ==
  ASSUME Session, NEW p, NEW m, NEW late \in BOOLEAN, Turning(p, m, late),
         canRx' \in Seq(NodeAnswers)
  PROVE  Session'
<1>1. DaemonTypes'
  BY TurnTypes DEF Session, DaemonTypes
<1> QED BY <1>1, TurnQueue, TurnServes, TurnCommands DEF Session

LEMMA SessionKept ==
  ASSUME Session, UNCHANGED <<clients, backlog, client, taken, armed, gtwa, master>>,
         canRx' \in Seq(NodeAnswers)
  PROVE  Session'
BY DEF Session, DaemonTypes, Queue, ServesOwn, Commanded, Waiting, Listed

LEMMA SessionAccept ==
  ASSUME Session, AcceptsClient
  PROVE  Session'
<1>1. /\ backlog # <<>> /\ client = NoClient /\ taken = 0
      /\ client' = Head(backlog) /\ backlog' = Tail(backlog) /\ armed' = FALSE
      /\ UNCHANGED <<gtwa, master, clients, taken, canRx>>
  BY AcceptChangesNothing
<1>2. backlog \in Seq(Clients) /\ clients \in [Clients -> Requests]
  BY DEF Session, DaemonTypes
<1>3. client' \in Clients /\ backlog' \in Seq(Clients) /\ client' # NoClient
      /\ Len(backlog') = Len(backlog) - 1 /\ client' = backlog[1] /\ Len(backlog) \in Nat \ {0}
      /\ \A i \in 1 .. Len(backlog') : backlog'[i] = backlog[i + 1]
  BY <1>1, <1>2, Constants, HeadTailProperties, EmptySeq
<1>4. DOMAIN backlog = 1 .. Len(backlog) /\ DOMAIN backlog' = 1 .. Len(backlog')
  BY <1>2, <1>3
<1>5. DaemonTypes'
  BY <1>1, <1>3 DEF Session, DaemonTypes
<1>6. \A i, j \in DOMAIN backlog : i # j => backlog[i] # backlog[j]
  BY DEF Session, Queue
<1>7. /\ \A i, j \in DOMAIN backlog' : i # j => backlog'[i] # backlog'[j]
      /\ ~ (Listed(client))'
  <2>1. \A i \in DOMAIN backlog' : i + 1 \in DOMAIN backlog /\ backlog'[i] = backlog[i + 1]
        /\ i + 1 # 1
    BY <1>3, <1>4
  <2>2. 1 \in DOMAIN backlog
    BY <1>3, <1>4
  <2>3. ASSUME NEW i \in DOMAIN backlog', NEW j \in DOMAIN backlog', i # j
        PROVE  backlog'[i] # backlog'[j]
    <3>1. i + 1 # j + 1
      BY <1>3, <1>4, <2>3
    <3> QED BY <1>6, <2>1, <3>1
  <2>4. \A i \in DOMAIN backlog' : backlog'[i] # client'
    BY <1>3, <1>6, <2>1, <2>2
  <2> QED BY <2>3, <2>4 DEF Listed
<1>8. \A c : Listed(c) <=> c = client' \/ (Listed(c))'
  <2>1. ASSUME NEW c, Listed(c), c # client'
        PROVE  (Listed(c))'
    <3>1. PICK i \in DOMAIN backlog : backlog[i] = c
      BY <2>1 DEF Listed
    <3>2. i # 1 /\ i - 1 \in DOMAIN backlog'
      BY <1>3, <1>4, <2>1, <3>1
    <3> QED BY <1>3, <1>4, <3>1, <3>2 DEF Listed
  <2>2. ASSUME NEW c, (Listed(c))'
        PROVE  Listed(c)
    BY <1>3, <1>4, <2>2 DEF Listed
  <2>3. Listed(client')
    BY <1>3, <1>4 DEF Listed
  <2> QED BY <2>1, <2>2, <2>3
<1>9. Queue'
  <2>1. ASSUME NEW c \in Clients
        PROVE  /\ ~ (Waiting(c))' => clients'[c] = Away
               /\ (Waiting(c))' => client' = c \/ (Listed(c))'
               /\ (Listed(c))' => clients'[c].step \in {0, 1} /\ clients'[c].reply = NoReply
    <3>1. c # client
      BY <1>1, Constants
    <3> QED BY <1>1, <1>8, <3>1 DEF Session, Queue, Waiting
  <2> QED BY <1>1, <1>3, <1>7, <2>1 DEF Queue
<1>10. ServesOwn'
  <2>1. \A c \in Clients : clients[c].reply = NoReply
    BY <1>1, Constants DEF Session, ServesOwn
  <2>2. Listed(client')
    BY <1>8
  <2>3. clients[client'].step \in {0, 1}
    BY <1>3, <2>2 DEF Session, Queue
  <2> QED BY <1>1, <1>3, <2>1, <2>3 DEF Session, ServesOwn, Waiting
<1>11. Commanded'
  BY <1>1 DEF Session, Commanded
<1> QED BY <1>5, <1>9, <1>10, <1>11 DEF Session

LEMMA HeldIsWaiting ==
  ASSUME Session, NEW c \in Clients, clients[c].reply # NoReply
  PROVE  Waiting(c) /\ client = c /\ gtwa.state = "IDLE" /\ clients[c].step = taken
         /\ gtwa.resp = NoReply
<1>1. Waiting(c)
  BY DEF Session, Queue, Away
<1> QED BY <1>1 DEF Session, ServesOwn

LEMMA SessionClose ==
  ASSUME Session, ClientCloses
  PROVE  Session'
<1>1. /\ client # NoClient /\ ~ Waiting(client)
      /\ client' = NoClient /\ taken' = 0 /\ armed' = TRUE
      /\ gtwa' = IdleGtwa /\ Deselects([m |-> master'])
      /\ UNCHANGED <<clients, backlog, canRx>>
  BY CloseEnds
<1>2. backlog \in Seq(Clients) /\ clients \in [Clients -> Requests] /\ client \in Clients
  BY <1>1 DEF Session, DaemonTypes
<1>3. DaemonTypes'
  BY <1>1, Records DEF Session, DaemonTypes, Deselects
<1>4. ~ Listed(NoClient)
  BY <1>2, Constants, ElementOfSeq DEF Listed
<1>5. Queue'
  <2>1. \A c : (Listed(c))' <=> Listed(c)
    BY <1>1 DEF Listed
  <2>2. ASSUME NEW c \in Clients
        PROVE  /\ ~ (Waiting(c))' => clients'[c] = Away
               /\ (Waiting(c))' => (Listed(c))'
               /\ (Listed(c))' => clients'[c].step \in {0, 1} /\ clients'[c].reply = NoReply
    BY <1>1, <2>1 DEF Session, Queue, Waiting
  <2>3. \A i, j \in DOMAIN backlog' : i # j => backlog'[i] # backlog'[j]
    BY <1>1 DEF Session, Queue
  <2> QED BY <1>1, <1>4, <2>1, <2>2, <2>3 DEF Queue
<1>6. ServesOwn'
  <2>1. \A c \in Clients : clients[c].reply = NoReply
    BY <1>1, HeldIsWaiting
  <2> QED BY <1>1, <2>1 DEF ServesOwn, IdleGtwa
<1>7. Commanded'
  <2>1. master'.command = "WAITING" /\ master'.rx = NoAnswer /\ master'.tx.cs = "DESELECT"
    BY <1>1, FrameFields DEF Deselects
  <2>2. gtwa'.state = "IDLE"
    BY <1>1 DEF IdleGtwa
  <2> QED BY <2>1, <2>2 DEF Commanded
<1> QED BY <1>3, <1>5, <1>6, <1>7 DEF Session

LEMMA FreshSession ==
  /\ clients = [c \in Clients |-> Away] /\ backlog = <<>> /\ canRx = <<>>
  /\ client = NoClient /\ taken = 0 /\ armed = TRUE
  /\ gtwa = IdleGtwa /\ master = IdleMaster
  => Session
<1> SUFFICES ASSUME clients = [c \in Clients |-> Away], backlog = <<>>, canRx = <<>>,
                    client = NoClient, taken = 0, armed = TRUE,
                    gtwa = IdleGtwa, master = IdleMaster
             PROVE  Session
  OBVIOUS
<1>1. DaemonTypes
  <2>1. clients \in [Clients -> Requests]
    BY Records
  <2>2. backlog \in Seq(Clients) /\ canRx \in Seq(NodeAnswers)
    BY EmptySeq
  <2>3. gtwa \in Interpreters /\ master \in Masters
    BY Records
  <2> QED BY <2>1, <2>2, <2>3 DEF DaemonTypes
<1>2. \A c : ~ Listed(c)
  <2>1. DOMAIN backlog = {}
    OBVIOUS
  <2> QED BY <2>1, Zenon DEF Listed
<1>3. \A c \in Clients : clients[c] = Away /\ ~ Waiting(c)
  <2>1. Away.step = 0
    BY DEF Away
  <2>2. \A c \in Clients : clients[c] = Away
    OBVIOUS
  <2> QED BY <2>1, <2>2 DEF Waiting
<1>4. Queue
  BY <1>2, <1>3 DEF Queue
<1>5. ServesOwn
  BY <1>3 DEF ServesOwn, IdleGtwa, Away
<1>6. Commanded
  BY DEF Commanded, IdleGtwa, IdleMaster, NoFrame, Command
<1> QED BY <1>1, <1>4, <1>5, <1>6 DEF Session

LEMMA SessionReads ==
  ASSUME Session, NEW c \in Clients, read_gateway_reply(c)
  PROVE  Session'
<1>1. /\ Waiting(c) /\ clients[c].reply # NoReply
      /\ UNCHANGED <<backlog, client, taken, armed, gtwa, master, canRx>>
      /\ \/ clients' = [clients EXCEPT ![c] = Away]
         \/ ReplyFits(c) /\ clients[c].step # 4 /\
            clients' = [clients EXCEPT ![c] = [clients[c] EXCEPT !.step = clients[c].step + 1, !.reply = NoReply,
                 !.id = IF clients[c].step = 3 THEN clients[c].reply.id ELSE clients[c].id]]
  <2>1. Len(Commands) = 4
    BY DEF Commands
  <2>2. /\ Waiting(c) /\ clients[c].reply # NoReply /\ UNCHANGED daemonVars
        /\ clients' = [clients EXCEPT ![c] =
             IF ~ ReplyFits(c) \/ clients[c].step = Len(Commands) THEN Away
             ELSE [clients[c] EXCEPT !.step = clients[c].step + 1, !.reply = NoReply,
                     !.id = IF clients[c].step = 3 THEN clients[c].reply.id ELSE clients[c].id]]
    BY Zenon DEF read_gateway_reply
  <2>3. UNCHANGED <<backlog, client, taken, armed, gtwa, master, canRx>>
    BY <2>2 DEF daemonVars
  <2> DEFINE next == [clients[c] EXCEPT !.step = clients[c].step + 1, !.reply = NoReply,
                 !.id = IF clients[c].step = 3 THEN clients[c].reply.id ELSE clients[c].id]
             chosen == IF ~ ReplyFits(c) \/ clients[c].step = Len(Commands) THEN Away ELSE next
  <2>6. clients' = [clients EXCEPT ![c] = chosen]
    BY <2>2, Zenon
  <2> HIDE DEF next
  <2>7. chosen = IF ~ ReplyFits(c) \/ clients[c].step = 4 THEN Away ELSE next
    BY <2>1
  <2> HIDE DEF chosen
  <2>4. CASE ~ ReplyFits(c) \/ clients[c].step = 4
    <3>1. clients' = [clients EXCEPT ![c] = Away]
      BY <2>4, <2>6, <2>7
    <3> QED BY <2>2, <2>3, <3>1
  <2>5. CASE ReplyFits(c) /\ clients[c].step # 4
    <3>1. clients' = [clients EXCEPT ![c] = next]
      BY <2>5, <2>6, <2>7
    <3> QED BY <2>2, <2>3, <2>5, <3>1 DEF next
  <2> QED BY <2>4, <2>5
<1>2. client = c /\ gtwa.state = "IDLE" /\ clients[c].step = taken /\ gtwa.resp = NoReply
  BY <1>1, HeldIsWaiting
<1>3. clients \in [Clients -> Requests] /\ clients[c] \in Requests /\ taken \in 0 .. 4
      /\ client # NoClient
  BY <1>2, Constants DEF Session, DaemonTypes
<1>4. clients[c].step \in 0 .. 4 /\ clients[c].step # 0 /\ clients[c].id \in Ids
      /\ clients[c].reply.id \in Ids
  BY <1>1, <1>3 DEF Requests, Waiting, Replies
<1>5. /\ clients' \in [Clients -> Requests]
      /\ \A d \in Clients : d # c => clients'[d] = clients[d]
      /\ clients'[c] = Away \/ clients'[c].step = clients[c].step + 1
      /\ clients'[c].reply = NoReply
  <2>1. CASE clients' = [clients EXCEPT ![c] = Away]
    <3>1. Away.reply = NoReply
      BY DEF Away
    <3> QED BY <1>3, <2>1, <3>1, Records
  <2>2. CASE clients[c].step # 4 /\
             clients' = [clients EXCEPT ![c] = [clients[c] EXCEPT !.step = clients[c].step + 1, !.reply = NoReply,
                 !.id = IF clients[c].step = 3 THEN clients[c].reply.id ELSE clients[c].id]]
    <3> DEFINE step == clients[c].step + 1
               id == IF clients[c].step = 3 THEN clients[c].reply.id ELSE clients[c].id
               a == [clients[c] EXCEPT !.step = step]
               b == [a EXCEPT !.reply = NoReply]
               r == [b EXCEPT !.id = id]
    <3>1. step \in 0 .. 4 /\ id \in Ids
      BY <1>4, <2>2
    <3>2. clients' = [clients EXCEPT ![c] = r]
      BY <2>2
    <3> HIDE DEF step, id
    <3>3. a \in Requests /\ a.step = step
      BY <1>3, <3>1 DEF Requests
    <3> HIDE DEF a
    <3>4. b \in Requests /\ b.step = step /\ b.reply = NoReply
      BY <3>3, Records DEF Requests
    <3> HIDE DEF b
    <3>5. r \in Requests /\ r.step = step /\ r.reply = NoReply
      BY <3>1, <3>4 DEF Requests
    <3> HIDE DEF r
    <3>6. clients'[c] = r
      BY <1>3, <3>2
    <3> QED BY <1>3, <3>2, <3>5, <3>6 DEF step
  <2> QED BY <1>1, <2>1, <2>2
<1>6. DaemonTypes'
  BY <1>1, <1>5 DEF Session, DaemonTypes
<1>7. ~ Listed(c)
  BY <1>2 DEF Session, Queue
<1>8. Queue'
  <2>1. \A d : (Listed(d))' <=> Listed(d)
    BY <1>1 DEF Listed
  <2>2. ASSUME NEW d \in Clients
        PROVE  /\ ~ (Waiting(d))' => clients'[d] = Away
               /\ (Waiting(d))' => client' = d \/ (Listed(d))'
               /\ (Listed(d))' => clients'[d].step \in {0, 1} /\ clients'[d].reply = NoReply
    <3>1. CASE d = c
      BY <1>1, <1>2, <1>4, <1>5, <1>7, <2>1, <3>1 DEF Waiting
    <3>2. CASE d # c
      BY <1>1, <1>5, <2>1, <3>2 DEF Session, Queue, Waiting
    <3> QED BY <3>1, <3>2
  <2>3. \A i, j \in DOMAIN backlog' : i # j => backlog'[i] # backlog'[j]
    BY <1>1 DEF Session, Queue
  <2>4. ~ (Listed(client))' /\ (armed <=> client = NoClient)'
    BY <1>1, <2>1 DEF Session, Queue
  <2> QED BY <2>2, <2>3, <2>4 DEF Queue
<1>9. ServesOwn'
  <2>1. \A d \in Clients : clients'[d].reply = NoReply
    <3>1. \A d \in Clients \ {c} : clients[d].reply = NoReply
      BY <1>2, HeldIsWaiting
    <3> QED BY <1>5, <3>1
  <2>2. (Waiting(c))' => taken = clients'[c].step - 1
    BY <1>2, <1>3, <1>5 DEF Waiting, Away
  <2>3. gtwa.fifo = 0 /\ taken # 0
    BY <1>2, <1>4 DEF Session, ServesOwn
  <2> QED BY <1>1, <1>2, <1>3, <2>1, <2>2, <2>3 DEF ServesOwn
<1>10. Commanded'
  BY <1>1 DEF Session, Commanded
<1> QED BY <1>6, <1>8, <1>9, <1>10 DEF Session

LEMMA SessionDies ==
  ASSUME Session, NEW c \in Clients, Dies(c)
  PROVE  Session'
<1>1. /\ Waiting(c) /\ clients' = [clients EXCEPT ![c] = Away]
      /\ UNCHANGED <<backlog, client, taken, armed, gtwa, master, canRx>>
  BY DEF Dies, daemonVars
<1>2. clients \in [Clients -> Requests]
  BY DEF Session, DaemonTypes
<1>3. /\ clients' \in [Clients -> Requests]
      /\ \A d \in Clients : clients'[d] = IF d = c THEN Away ELSE clients[d]
  BY <1>1, <1>2, Records
<1>4. Away.step = 0 /\ Away.reply = NoReply
  BY DEF Away
<1>5. DaemonTypes'
  BY <1>1, <1>3 DEF Session, DaemonTypes
<1>6. \A d : (Listed(d))' <=> Listed(d)
  BY <1>1 DEF Listed
<1>7. Queue'
  <2>1. ASSUME NEW d \in Clients
        PROVE  /\ ~ (Waiting(d))' => clients'[d] = Away
               /\ (Waiting(d))' => client' = d \/ (Listed(d))'
               /\ (Listed(d))' => clients'[d].step \in {0, 1} /\ clients'[d].reply = NoReply
    <3>1. CASE d = c
      BY <1>3, <1>4, <3>1 DEF Waiting
    <3>2. CASE d # c
      BY <1>1, <1>3, <1>6, <3>2 DEF Session, Queue, Waiting
    <3> QED BY <3>1, <3>2
  <2>2. \A i, j \in DOMAIN backlog' : i # j => backlog'[i] # backlog'[j]
    BY <1>1 DEF Session, Queue
  <2>3. ~ (Listed(client))' /\ (armed <=> client = NoClient)'
    BY <1>1, <1>6 DEF Session, Queue
  <2> QED BY <2>1, <2>2, <2>3 DEF Queue
<1>8. ServesOwn'
  <2>1. client \in Clients \cup {NoClient} /\ NoClient \notin Clients
    BY Constants DEF Session, DaemonTypes
  <2>2. client # NoClient /\ (Waiting(client))' => client # c /\ Waiting(client)
        /\ clients'[client] = clients[client]
    BY <1>1, <1>3, <1>4, <2>1 DEF Waiting
  <2>3. \A d \in Clients : clients'[d].reply # NoReply => d # c /\ clients'[d] = clients[d]
    BY <1>3, <1>4
  <2>4. gtwa.resp # NoReply => client # NoClient /\ client \in Clients
    BY <2>1 DEF Session, ServesOwn
  <2>5. gtwa.state # "IDLE" => client # NoClient
    BY IdleOrNoReply
  <2> QED BY <1>1, <2>2, <2>3, <2>4, <2>5 DEF Session, ServesOwn
<1>9. Commanded'
  BY <1>1 DEF Session, Commanded
<1> QED BY <1>5, <1>7, <1>8, <1>9 DEF Session

LEMMA SessionConnects ==
  ASSUME Session, NEW c \in Clients, NEW address \in Addresses, Connects(c, address)
  PROVE  Session'
<1> DEFINE away == [[Away EXCEPT !.step = 1] EXCEPT !.address = address]
<1>1. /\ ~ Waiting(c) /\ client # c /\ ~ Listed(c)
      /\ backlog' = Append(backlog, c)
      /\ clients' = [clients EXCEPT ![c] = away]
      /\ UNCHANGED <<client, taken, armed, gtwa, master, canRx>>
  BY DEF Connects, Listed
<1>2. clients \in [Clients -> Requests] /\ backlog \in Seq(Clients)
  BY DEF Session, DaemonTypes
<1>3. away \in Requests /\ away.step = 1 /\ away.reply = NoReply
  <2>1. Away \in Requests /\ Away.reply = NoReply
    BY Records DEF Away
  <2>2. [Away EXCEPT !.step = 1] \in Requests /\ [Away EXCEPT !.step = 1].reply = NoReply
        /\ [Away EXCEPT !.step = 1].step = 1
    BY <2>1 DEF Requests
  <2> DEFINE a == [Away EXCEPT !.step = 1]
  <2> HIDE DEF a
  <2>3. a \in Requests /\ a.reply = NoReply /\ a.step = 1
    BY <2>2 DEF a
  <2>4. [a EXCEPT !.address = address] \in Requests /\ [a EXCEPT !.address = address].step = 1
        /\ [a EXCEPT !.address = address].reply = NoReply
    BY <2>3 DEF Requests
  <2> QED BY <2>4 DEF a
<1> HIDE DEF away
<1>4. /\ clients' \in [Clients -> Requests]
      /\ \A d \in Clients : clients'[d] = IF d = c THEN away ELSE clients[d]
  BY <1>1, <1>2, <1>3
<1>5. /\ backlog' \in Seq(Clients) /\ Len(backlog') = Len(backlog) + 1 /\ Len(backlog) \in Nat
      /\ \A i \in 1 .. Len(backlog) : backlog'[i] = backlog[i]
      /\ backlog'[Len(backlog) + 1] = c
  BY <1>1, <1>2, AppendProperties
<1>6. DOMAIN backlog = 1 .. Len(backlog) /\ DOMAIN backlog' = 1 .. Len(backlog) + 1
  BY <1>2, <1>5
<1>7. DaemonTypes'
  BY <1>1, <1>4, <1>5 DEF Session, DaemonTypes
<1>8. \A d : (Listed(d))' <=> (Listed(d) \/ d = c)
  <2>1. ASSUME NEW d, (Listed(d))', d # c
        PROVE  Listed(d)
    <3>1. PICK i \in DOMAIN backlog' : backlog'[i] = d
      BY <2>1 DEF Listed
    <3>2. i # Len(backlog) + 1
      BY <1>5, <2>1, <3>1
    <3>3. i \in DOMAIN backlog
      BY <1>5, <1>6, <3>1, <3>2
    <3> QED BY <1>5, <1>6, <3>1, <3>3 DEF Listed
  <2>2. ASSUME NEW d, Listed(d)
        PROVE  (Listed(d))'
    <3>1. PICK i \in DOMAIN backlog : backlog[i] = d
      BY <2>2 DEF Listed
    <3>2. i \in DOMAIN backlog' /\ backlog'[i] = d
      BY <1>5, <1>6, <3>1
    <3> QED BY <3>2 DEF Listed
  <2>3. (Listed(c))'
    <3>1. Len(backlog) + 1 \in DOMAIN backlog'
      BY <1>5, <1>6
    <3> QED BY <1>5, <3>1 DEF Listed
  <2> QED BY <2>1, <2>2, <2>3
<1>9. Queue'
  <2>1. ASSUME NEW d \in Clients
        PROVE  /\ ~ (Waiting(d))' => clients'[d] = Away
               /\ (Waiting(d))' => client' = d \/ (Listed(d))'
               /\ (Listed(d))' => clients'[d].step \in {0, 1} /\ clients'[d].reply = NoReply
    <3>1. CASE d = c
      BY <1>3, <1>4, <1>8, <3>1 DEF Waiting
    <3>2. CASE d # c
      BY <1>1, <1>4, <1>8, <3>2 DEF Session, Queue, Waiting
    <3> QED BY <3>1, <3>2
  <2>2. ASSUME NEW i \in DOMAIN backlog', NEW j \in DOMAIN backlog', i # j
        PROVE  backlog'[i] # backlog'[j]
    <3>1. \A k \in DOMAIN backlog : backlog[k] # c
      BY <1>1 DEF Listed
    <3>2. \A k, l \in DOMAIN backlog : k # l => backlog[k] # backlog[l]
      BY DEF Session, Queue
    <3>3. \A k \in DOMAIN backlog' :
            (k \in DOMAIN backlog /\ backlog'[k] = backlog[k]) \/ (k = Len(backlog) + 1 /\ backlog'[k] = c)
      BY <1>5, <1>6
    <3> QED BY <2>2, <3>1, <3>2, <3>3
  <2>3. ~ (Listed(client))' /\ (armed <=> client = NoClient)'
    BY <1>1, <1>8 DEF Session, Queue
  <2> QED BY <2>1, <2>2, <2>3 DEF Queue
<1>10. ServesOwn'
  <2>1. client \in Clients \cup {NoClient} /\ NoClient \notin Clients
    BY Constants DEF Session, DaemonTypes
  <2>2. client # NoClient => clients'[client] = clients[client]
    BY <1>1, <1>4, <2>1
  <2>3. \A d \in Clients : clients'[d].reply # NoReply => d # c /\ clients'[d] = clients[d]
    BY <1>3, <1>4
  <2>4. gtwa.resp # NoReply => client # NoClient
    BY <2>1 DEF Session, ServesOwn
  <2>5. gtwa.state # "IDLE" => client # NoClient
    BY IdleOrNoReply
  <2> QED BY <1>1, <2>2, <2>3, <2>4, <2>5 DEF Session, ServesOwn, Waiting
<1>11. Commanded'
  BY <1>1 DEF Session, Commanded
<1> QED BY <1>7, <1>9, <1>10, <1>11 DEF Session

----------------------------------------------------------------------------
(* The node *)

\* What the node was asked for, and what it writes to the flash.
Slave ==
  /\ lss.service = "SWITCH_STATE_GLOBAL" => lss.lssState = "WAITING"
  /\ lss.service \in {"CFG_NODE_ID", "CFG_STORE", "INQUIRE"} => lss.lssState = "CONFIGURATION"
  /\ mainThread.at \in {"erasing", "programming"} =>
       /\ lss.service = "CFG_STORE" /\ storedAs = BadNodeId
       /\ s_lss_storage_word = PackLssConfiguration(s_lss_pending_node_id)

Node == NodeTypes /\ Slave

LEMMA NodeIdIsValid == ASSUME NEW word PROVE ValidLssNodeId(StoredNodeId(word))
BY DEF StoredNodeId, UnpackAccepts, ValidLssNodeId

LEMMA FreshSlave ==
  ASSUME NEW id, ValidLssNodeId(id)
  PROVE  /\ CO_LSSslave_init(id) \in Slaves
         /\ CO_LSSslave_init(id).service = "none" /\ CO_LSSslave_init(id).lssState = "WAITING"
BY DEF CO_LSSslave_init, Slaves, ValidLssNodeId

LEMMA LoopFields == InLoop.at = "loop" /\ DOMAIN InLoop = {"at", "previous"}
BY DEF InLoop

\* What the interrupt does.
LEMMA HearFields ==
  ASSUME Node, NEW frame \in Frames, frame # NoFrame, Listens, Hear(frame)
  PROVE  /\ lss' \in Slaves
         /\ \/ /\ frame.cs = "DESELECT" /\ lss'.lssState = "WAITING"
               /\ lss'.service \in {"none", "SWITCH_STATE_GLOBAL"}
            \/ /\ frame.cs # "DESELECT" /\ lss.lssState = "CONFIGURATION"
               /\ lss'.lssState = "CONFIGURATION"
               /\ lss'.service = SlaveService(frame.cs) /\ lss'.nid = frame.value
            \/ /\ frame.cs = "SELECT" /\ lss.lssState = "WAITING"
               /\ lss'.lssState = "CONFIGURATION" /\ lss'.service = "SWITCH_STATE_SEL_SERIAL"
            \/ /\ frame.cs \notin {"DESELECT", "SELECT"} /\ lss.lssState = "WAITING"
               /\ lss'.service = "IDENT_FASTSCAN"
<1>1. lss \in Slaves /\ lss.service = "none"
  BY DEF Node, NodeTypes, Listens
<1>2. frame.cs \in FrameKinds /\ frame.value \in Nat \cup Addresses
  BY DEF Frames
<1>3. CASE frame.cs = "DESELECT"
  <2>1. SwitchToWaiting
    BY <1>3 DEF Hear
  <2>2. lss' = [[lss EXCEPT !.lssState = "WAITING"]
                EXCEPT !.service = IF TakesIdentifier THEN "SWITCH_STATE_GLOBAL" ELSE "none"]
    BY <1>1, <2>1 DEF SwitchToWaiting, Slaves
  <2> DEFINE service == IF TakesIdentifier THEN "SWITCH_STATE_GLOBAL" ELSE "none"
  <2>3. service \in {"none", "SWITCH_STATE_GLOBAL"}
    OBVIOUS
  <2> HIDE DEF service
  <2>4. lss' = [[lss EXCEPT !.lssState = "WAITING"] EXCEPT !.service = service]
    BY <2>2 DEF service
  <2>5. lss' \in Slaves /\ lss'.lssState = "WAITING" /\ lss'.service = service
    BY <1>1, <2>3, <2>4 DEF Slaves
  <2> QED BY <1>3, <2>3, <2>5
<1>4. CASE frame.cs # "DESELECT" /\ lss.lssState = "CONFIGURATION"
  <2>1. Configure(SlaveService(frame.cs), frame.value)
    BY <1>4 DEF Hear
  <2> DEFINE service == SlaveService(frame.cs)
  <2>2. service \in {"SWITCH_STATE_SEL_SERIAL", "IDENT_FASTSCAN", "CFG_NODE_ID", "CFG_STORE", "INQUIRE"}
    BY <1>2, <1>4 DEF SlaveService, FrameKinds
  <2> HIDE DEF service
  <2>3. lss' = [[lss EXCEPT !.service = service] EXCEPT !.nid = frame.value]
    BY <2>1 DEF Configure, service
  <2>4. lss' \in Slaves /\ lss'.lssState = lss.lssState /\ lss'.service = service
        /\ lss'.nid = frame.value
    BY <1>1, <1>2, <2>2, <2>3 DEF Slaves
  <2> QED BY <1>4, <2>4 DEF service
<1>5. CASE frame.cs = "SELECT" /\ lss.lssState # "CONFIGURATION"
  <2>1. lss.lssState = "WAITING"
    BY <1>1, <1>5 DEF Slaves
  <2>2. SelectSerial
    BY <1>5, <2>1 DEF Hear
  <2>3. lss' = [[lss EXCEPT !.lssState = "CONFIGURATION"] EXCEPT !.service = "SWITCH_STATE_SEL_SERIAL"]
    BY <2>2 DEF SelectSerial
  <2>4. lss' \in Slaves /\ lss'.lssState = "CONFIGURATION"
        /\ lss'.service = "SWITCH_STATE_SEL_SERIAL"
    BY <1>1, <2>3 DEF Slaves
  <2> QED BY <1>5, <2>1, <2>4
<1>6. CASE frame.cs \notin {"SELECT", "DESELECT"} /\ lss.lssState # "CONFIGURATION"
  <2>1. Fastscan(frame.cs = "VERIFY") /\ lss.lssState = "WAITING"
    BY <1>1, <1>6 DEF Hear, Slaves
  <2> DEFINE state == IF frame.cs = "VERIFY" THEN "CONFIGURATION" ELSE "WAITING"
  <2>2. state \in {"WAITING", "CONFIGURATION"}
    OBVIOUS
  <2>3. lss' = [[lss EXCEPT !.lssState = state] EXCEPT !.service = "IDENT_FASTSCAN"]
    BY <2>1 DEF Fastscan
  <2> HIDE DEF state
  <2>4. lss' \in Slaves /\ lss'.service = "IDENT_FASTSCAN"
    BY <1>1, <2>2, <2>3 DEF Slaves
  <2> QED BY <1>6, <2>1, <2>4
<1> QED BY <1>1, <1>3, <1>4, <1>5, <1>6

LEMMA FrameSteps ==
  ASSUME Session, Node, FrameArrives
  PROVE  /\ master.tx # NoFrame /\ master' \in Masters /\ master'.tx = NoFrame
         /\ master'.command = master.command /\ master'.state = master.state
            /\ master'.rx = master.rx
         /\ UNCHANGED <<clients, backlog, client, taken, armed, gtwa, canRx>>
         /\ UNCHANGED <<s_lss_pending_node_id, s_lss_storage_word, storage, mainThread, storedAs,
                        up, identity>>
         /\ \/ lss' = lss /\ ~ Concerned(master.tx)
            \/ Concerned(master.tx) /\ Hear(master.tx)
BY DEF FrameArrives, Session, DaemonTypes, Masters, Frames

LEMMA SessionFrame ==
  ASSUME Session, Node, FrameArrives
  PROVE  Session'
<1>1. /\ master' \in Masters /\ master'.tx = NoFrame
      /\ master'.command = master.command /\ master'.state = master.state /\ master'.rx = master.rx
      /\ UNCHANGED <<clients, backlog, client, taken, armed, gtwa, canRx>>
  BY FrameSteps
<1>2. DaemonTypes'
  BY <1>1 DEF Session, DaemonTypes
<1>3. Queue' /\ ServesOwn'
  BY <1>1 DEF Session, Queue, ServesOwn, Waiting, Listed
<1>4. Commanded'
  <2>1. NoFrame.cs = "none"
    BY DEF NoFrame
  <2> QED BY <1>1, <2>1 DEF Session, Commanded
<1> QED BY <1>2, <1>3, <1>4 DEF Session

LEMMA NodeFrame ==
  ASSUME Session, Node, FrameArrives
  PROVE  Node'
<1>1. /\ master.tx # NoFrame /\ master.tx \in Frames
      /\ UNCHANGED <<s_lss_pending_node_id, s_lss_storage_word, storage, mainThread, storedAs, up>>
      /\ \/ lss' = lss
         \/ Concerned(master.tx) /\ Hear(master.tx)
  BY FrameSteps DEF Session, DaemonTypes, Masters
<1>2. CASE lss' = lss
  BY <1>1, <1>2 DEF Node, NodeTypes, Slave
<1>3. CASE Concerned(master.tx) /\ Hear(master.tx)
  <2>1. Listens
    BY <1>3 DEF Concerned
  <2>2. lss' \in Slaves /\ (\/ lss'.lssState = "WAITING"
                               /\ lss'.service \in {"none", "SWITCH_STATE_GLOBAL"}
                            \/ lss'.lssState = "CONFIGURATION"
                               /\ lss'.service = SlaveService(master.tx.cs)
                               /\ master.tx.cs # "DESELECT"
                            \/ lss'.service \in {"SWITCH_STATE_SEL_SERIAL", "IDENT_FASTSCAN"})
    BY <1>1, <1>3, <2>1, HearFields
  <2>3. master.tx.cs # "DESELECT" => SlaveService(master.tx.cs) # "SWITCH_STATE_GLOBAL"
    BY <1>1 DEF SlaveService, Frames, FrameKinds
  <2>4. mainThread.at \notin {"erasing", "programming"}
    BY <2>1 DEF Listens, Node, Slave
  <2> QED BY <1>1, <2>2, <2>3, <2>4 DEF Node, NodeTypes, Slave
<1> QED BY <1>1, <1>2, <1>3

\* The answer a service of the node ends with.
Service(service) ==
  CASE service = "SWITCH_STATE_SEL_SERIAL" -> "SWITCH_STATE"
    [] service = "IDENT_FASTSCAN" -> "FASTSCAN"
    [] OTHER -> service

\* A step of the main thread answers the service it was asked for, restarts the communication
\* or is at work on the flash.
Replying ==
  /\ lss' \in Slaves /\ lss'.service = "none" /\ lss'.lssState = lss.lssState
  /\ lss.service \in {"SWITCH_STATE_SEL_SERIAL", "IDENT_FASTSCAN", "INQUIRE",
                    "CFG_NODE_ID", "CFG_STORE"}
  /\ mainThread'.at = "loop" /\ DOMAIN mainThread' = {"at", "previous"}
  /\ \E answer \in NodeAnswers :
       /\ canRx' = Append(canRx, answer) /\ answer # NoAnswer
       /\ answer.cs = Service(lss.service)
       /\ lss.service # "CFG_NODE_ID" => UNCHANGED s_lss_pending_node_id
       /\ lss.service = "CFG_NODE_ID" /\ answer.code = "OK" => s_lss_pending_node_id' = lss.nid
       /\ lss.service = "CFG_STORE" /\ answer.code = "OK" =>
            storage' = PackLssConfiguration(s_lss_pending_node_id)
  /\ ValidLssNodeId(s_lss_pending_node_id)'

Resetting ==
  /\ lss.service = "SWITCH_STATE_GLOBAL" /\ mainThread'.at = "reset"
  /\ DOMAIN mainThread' = {"at", "previous"}
  /\ lss' \in Slaves /\ lss'.service = "none" /\ lss'.lssState = lss.lssState
  /\ UNCHANGED <<s_lss_pending_node_id, s_lss_storage_word, storage, storedAs, canRx>>

Storing ==
  /\ lss.service = "CFG_STORE"
  /\ UNCHANGED <<lss, s_lss_pending_node_id, canRx>>
  /\ mainThread'.at \in {"erasing", "programming"} /\ DOMAIN mainThread' = {"at", "previous"}
  /\ storedAs' = BadNodeId
  /\ s_lss_storage_word' = PackLssConfiguration(s_lss_pending_node_id)

LEMMA AnsweredFields ==
  ASSUME Node, Answered
  PROVE  lss' \in Slaves /\ lss'.service = "none" /\ lss'.lssState = lss.lssState
<1>1. lss \in Slaves
  BY DEF Node, NodeTypes
<1>2. lss' = [[lss EXCEPT !.service = "none"] EXCEPT !.nid = BadNodeId]
  BY DEF Answered
<1> QED BY <1>1, <1>2 DEF Slaves

LEMMA AnswerTypes ==
  ASSUME NEW cs \in AnswerKinds \ {"none"}, NEW code \in Codes, NEW id \in Ids
  PROVE  /\ Answer(cs, code, id) \in NodeAnswers /\ Answer(cs, code, id) # NoAnswer
         /\ Answer(cs, code, id).cs = cs /\ Answer(cs, code, id).code = code
<1>1. Answer(cs, code, id).cs = cs /\ Answer(cs, code, id).code = code
  BY DEF Answer
<1>2. NoAnswer.cs = "none"
  BY DEF NoAnswer
<1> QED BY <1>1, <1>2 DEF Answer, NodeAnswers

LEMMA MainThreadSteps ==
  ASSUME Node, MainThread
  PROVE  /\ up
         /\ UNCHANGED <<clients, backlog, client, taken, armed, gtwa, master, up, identity>>
         /\ Replying \/ Resetting \/ Storing
<1>1. /\ up
      /\ UNCHANGED <<clients, backlog, client, taken, armed, gtwa, master, up, identity>>
  BY DEF MainThread
<1>2. lss \in Slaves /\ ValidLssNodeId(s_lss_pending_node_id)
      /\ DOMAIN mainThread = {"at", "previous"}
      /\ mainThread.at \in {"loop", "reset", "erasing", "programming"}
  BY DEF Node, NodeTypes
<1>3. s_lss_pending_node_id # BadNodeId
  BY <1>2, NodeIdentifiers DEF ValidLssNodeId
<1>4. lss.activeNodeID \in Ids /\ 0 \in Ids
  BY <1>2 DEF Slaves, Ids
<1>a. ASSUME storedAs' = BadNodeId \/ storage' = PackLssConfiguration(s_lss_pending_node_id),
             Answered, lss.service = "CFG_STORE",
             mainThread'.at = "loop", DOMAIN mainThread' = {"at", "previous"},
             UNCHANGED s_lss_pending_node_id,
             IF Listens' THEN Sends(Answer("CFG_STORE", IF storedAs' = BadNodeId THEN "ERROR" ELSE "OK", 0))
             ELSE UNCHANGED canRx
      PROVE  Replying
  <2>1. lss' \in Slaves /\ lss'.service = "none" /\ lss'.lssState = lss.lssState
    BY <1>a, AnsweredFields
  <2> DEFINE code == IF storedAs' = BadNodeId THEN "ERROR" ELSE "OK"
             answer == Answer("CFG_STORE", code, 0)
  <2>2. canRx' = Append(canRx, answer)
    BY <1>a, <2>1 DEF Listens, Sends
  <2>3. code \in Codes /\ (code = "OK" => storedAs' # BadNodeId)
    BY DEF Codes
  <2> HIDE DEF code
  <2>4. answer \in NodeAnswers /\ answer # NoAnswer /\ answer.cs = "CFG_STORE" /\ answer.code = code
    BY <1>4, <2>3, AnswerTypes DEF AnswerKinds
  <2>5. Service(lss.service) = "CFG_STORE"
    BY <1>a DEF Service
  <2>6. ValidLssNodeId(s_lss_pending_node_id)'
    BY <1>2, <1>a DEF ValidLssNodeId
  <2> HIDE DEF answer
  <2> QED BY <1>a, <2>1, <2>2, <2>3, <2>4, <2>5, <2>6 DEF Replying
<1>5. CASE Inquire /\ Sends(CASE lss.service = "SWITCH_STATE_SEL_SERIAL" -> Answer("SWITCH_STATE", "OK", 0)
                   [] lss.service = "IDENT_FASTSCAN" -> Answer("FASTSCAN", "OK", 0)
                   [] lss.service = "INQUIRE" -> Answer("INQUIRE", "OK", lss.activeNodeID))
  <2>1. /\ lss.service \in {"SWITCH_STATE_SEL_SERIAL", "IDENT_FASTSCAN", "INQUIRE"}
        /\ mainThread.at = "loop" /\ Answered
        /\ UNCHANGED <<s_lss_pending_node_id, s_lss_storage_word, storage, mainThread, storedAs>>
    BY <1>5 DEF Inquire
  <2>2. lss' \in Slaves /\ lss'.service = "none" /\ lss'.lssState = lss.lssState
    BY <2>1, AnsweredFields
  <2>3. "OK" \in Codes /\ {"SWITCH_STATE", "FASTSCAN", "INQUIRE"} \subseteq AnswerKinds \ {"none"}
    BY DEF Codes, AnswerKinds
  <2>4. \E cs \in {"SWITCH_STATE", "FASTSCAN", "INQUIRE"}, id \in Ids :
          canRx' = Append(canRx, Answer(cs, "OK", id)) /\ cs = Service(lss.service)
    <3>1. CASE lss.service = "SWITCH_STATE_SEL_SERIAL"
      <4>1. canRx' = Append(canRx, Answer("SWITCH_STATE", "OK", 0))
            /\ "SWITCH_STATE" = Service(lss.service)
        BY <1>5, <3>1 DEF Sends, Service
      <4> QED BY <1>4, <4>1, Zenon
    <3>2. CASE lss.service = "IDENT_FASTSCAN"
      <4>1. canRx' = Append(canRx, Answer("FASTSCAN", "OK", 0)) /\ "FASTSCAN" = Service(lss.service)
        BY <1>5, <3>2 DEF Sends, Service
      <4> QED BY <1>4, <4>1, Zenon
    <3>3. CASE lss.service = "INQUIRE"
      <4>1. canRx' = Append(canRx, Answer("INQUIRE", "OK", lss.activeNodeID))
            /\ "INQUIRE" = Service(lss.service)
        BY <1>5, <3>3 DEF Sends, Service
      <4> QED BY <1>4, <4>1, Zenon
    <3> QED BY <2>1, <3>1, <3>2, <3>3
  <2>5. PICK cs \in {"SWITCH_STATE", "FASTSCAN", "INQUIRE"}, id \in Ids :
          canRx' = Append(canRx, Answer(cs, "OK", id)) /\ cs = Service(lss.service)
    BY <2>4
  <2>6. Answer(cs, "OK", id) \in NodeAnswers /\ Answer(cs, "OK", id) # NoAnswer
        /\ Answer(cs, "OK", id).cs = cs
    BY <2>3, AnswerTypes
  <2>7. ValidLssNodeId(s_lss_pending_node_id)'
    BY <1>2, <2>1 DEF ValidLssNodeId
  <2>8. Replying
    BY <1>2, <2>1, <2>2, <2>5, <2>6, <2>7 DEF Replying
  <2> QED BY <1>1, <2>8
<1>6. CASE RequestResetCommunication /\ UNCHANGED canRx
  <2>1. /\ lss.service = "SWITCH_STATE_GLOBAL" /\ Answered
        /\ mainThread' = [mainThread EXCEPT !.at = "reset"]
        /\ UNCHANGED <<s_lss_pending_node_id, s_lss_storage_word, storage, storedAs>>
    BY <1>6 DEF RequestResetCommunication
  <2>2. mainThread'.at = "reset" /\ DOMAIN mainThread' = {"at", "previous"}
    BY <1>2, <2>1
  <2> QED BY <1>1, <1>6, <2>1, <2>2, AnsweredFields DEF Resetting
<1>7. CASE ConfigureNodeId
           /\ Sends(Answer("CFG_NODE_ID", IF ValidLssNodeId(lss.nid) THEN "OK" ELSE "ERROR", 0))
  <2>1. /\ mainThread.at = "loop" /\ lss.service = "CFG_NODE_ID" /\ Answered
        /\ s_lss_pending_node_id' = IF ValidLssNodeId(lss.nid) THEN lss.nid ELSE s_lss_pending_node_id
        /\ UNCHANGED <<s_lss_storage_word, storage, mainThread, storedAs>>
    BY <1>7 DEF ConfigureNodeId
  <2> DEFINE code == IF ValidLssNodeId(lss.nid) THEN "OK" ELSE "ERROR"
             answer == Answer("CFG_NODE_ID", code, 0)
  <2>2. canRx' = Append(canRx, answer)
    BY <1>7 DEF Sends
  <2>3. code \in Codes /\ (code = "OK" => ValidLssNodeId(lss.nid))
    BY DEF Codes
  <2> HIDE DEF code
  <2>4. answer \in NodeAnswers /\ answer # NoAnswer /\ answer.cs = "CFG_NODE_ID"
        /\ answer.code = code
    BY <1>4, <2>3, AnswerTypes DEF AnswerKinds
  <2>5. ValidLssNodeId(s_lss_pending_node_id)'
    BY <1>2, <2>1 DEF ValidLssNodeId
  <2>6. Service(lss.service) = "CFG_NODE_ID"
    BY <2>1 DEF Service
  <2> HIDE DEF answer
  <2> QED BY <1>1, <1>2, <2>1, <2>2, <2>3, <2>4, <2>5, <2>6, AnsweredFields DEF Replying
<1>8. CASE StoreLssConfiguration
           /\ IF Listens' THEN Sends(Answer("CFG_STORE", IF storedAs' = BadNodeId THEN "ERROR" ELSE "OK", 0))
              ELSE UNCHANGED canRx
  <2>1. /\ mainThread.at = "loop" /\ lss.service = "CFG_STORE"
        /\ s_lss_storage_word' = PackLssConfiguration(s_lss_pending_node_id)
        /\ UNCHANGED <<s_lss_pending_node_id, storage>>
        /\ \/ storage = s_lss_storage_word' /\ Answered /\ UNCHANGED mainThread
           \/ /\ mainThread' = [at |-> "erasing", previous |-> s_lss_storage_word]
              /\ storedAs' = BadNodeId /\ UNCHANGED lss
    BY <1>8 DEF StoreLssConfiguration
  <2>2. CASE storage = s_lss_storage_word' /\ Answered /\ UNCHANGED mainThread
    <3>1. storage' = PackLssConfiguration(s_lss_pending_node_id) /\ mainThread'.at = "loop"
          /\ DOMAIN mainThread' = {"at", "previous"}
      BY <1>2, <2>1, <2>2
    <3>2. Replying
      BY <1>a, <1>8, <2>1, <2>2, <3>1
    <3> QED BY <1>1, <3>2
  <2>3. CASE /\ mainThread' = [at |-> "erasing", previous |-> s_lss_storage_word]
             /\ storedAs' = BadNodeId /\ UNCHANGED lss
    <3>1. ~ Listens'
      BY <2>1, <2>3 DEF Listens
    <3>2. mainThread'.at = "erasing" /\ DOMAIN mainThread' = {"at", "previous"}
      BY <2>3
    <3> QED BY <1>1, <1>8, <2>1, <2>3, <3>1, <3>2 DEF Storing
  <2> QED BY <2>1, <2>2, <2>3
<1>9. CASE EraseStorage
           /\ IF Listens' THEN Sends(Answer("CFG_STORE", IF storedAs' = BadNodeId THEN "ERROR" ELSE "OK", 0))
              ELSE UNCHANGED canRx
  <2>1. /\ mainThread.at = "erasing" /\ UNCHANGED <<s_lss_pending_node_id, storedAs>>
        /\ \/ /\ mainThread' = [mainThread EXCEPT !.at = "programming"]
              /\ UNCHANGED <<lss, s_lss_storage_word>>
           \/ StoreFails
    BY <1>9 DEF EraseStorage
  <2>2. /\ lss.service = "CFG_STORE" /\ storedAs = BadNodeId
        /\ s_lss_storage_word = PackLssConfiguration(s_lss_pending_node_id)
    BY <2>1 DEF Node, Slave
  <2>3. CASE mainThread' = [mainThread EXCEPT !.at = "programming"] /\ UNCHANGED <<lss, s_lss_storage_word>>
    <3>1. ~ Listens'
      BY <2>2, <2>3 DEF Listens
    <3>2. mainThread'.at = "programming" /\ DOMAIN mainThread' = {"at", "previous"}
      BY <1>2, <2>3
    <3> QED BY <1>1, <1>9, <2>1, <2>2, <2>3, <3>1, <3>2 DEF Storing
  <2>4. CASE StoreFails
    <3>1. Answered /\ mainThread'.at = "loop" /\ DOMAIN mainThread' = {"at", "previous"}
      BY <2>4, LoopFields DEF StoreFails
    <3>2. Replying
      BY <1>a, <1>9, <2>1, <2>2, <3>1
    <3> QED BY <1>1, <3>2
  <2> QED BY <2>1, <2>3, <2>4
<1>10. CASE ProgramStorage
           /\ IF Listens' THEN Sends(Answer("CFG_STORE", IF storedAs' = BadNodeId THEN "ERROR" ELSE "OK", 0))
              ELSE UNCHANGED canRx
  <2>1. /\ mainThread.at = "programming" /\ UNCHANGED s_lss_pending_node_id
        /\ \/ storage' = s_lss_storage_word /\ mainThread' = InLoop /\ Answered
           \/ StoreFails /\ UNCHANGED storedAs
    BY <1>10 DEF ProgramStorage
  <2>2. /\ lss.service = "CFG_STORE" /\ storedAs = BadNodeId
        /\ s_lss_storage_word = PackLssConfiguration(s_lss_pending_node_id)
    BY <2>1 DEF Node, Slave
  <2>3. Answered /\ mainThread'.at = "loop" /\ DOMAIN mainThread' = {"at", "previous"}
    BY <2>1, LoopFields DEF StoreFails
  <2>4. storedAs' = BadNodeId \/ storage' = PackLssConfiguration(s_lss_pending_node_id)
    BY <2>1, <2>2
  <2>5. Replying
    BY <1>a, <1>10, <2>1, <2>2, <2>3, <2>4
  <2> QED BY <1>1, <2>5
<1> QED BY <1>5, <1>6, <1>7, <1>8, <1>9, <1>10 DEF MainThread

LEMMA AnswerQueued ==
  ASSUME Session, NEW answer \in NodeAnswers
  PROVE  Append(canRx, answer) \in Seq(NodeAnswers)
BY AppendProperties DEF Session, DaemonTypes

LEMMA MainThreadKeeps ==
  ASSUME Session, Node, MainThread
  PROVE  Session' /\ Node'
<1>1. /\ up
      /\ UNCHANGED <<clients, backlog, client, taken, armed, gtwa, master, up, identity>>
      /\ Replying \/ Resetting \/ Storing
  BY MainThreadSteps
<1>2. canRx' \in Seq(NodeAnswers)
  <2>1. CASE Replying
    BY <2>1, AnswerQueued DEF Replying
  <2>2. CASE Resetting \/ Storing
    BY <2>2 DEF Resetting, Storing, Session, DaemonTypes
  <2> QED BY <1>1, <2>1, <2>2
<1>3. Session'
  BY <1>1, <1>2, SessionKept
<1>4. lss \in Slaves /\ up \in BOOLEAN /\ ValidLssNodeId(s_lss_pending_node_id)
      /\ DOMAIN mainThread = {"at", "previous"} /\ Slave
  BY DEF Node, NodeTypes
<1>8. up' \in BOOLEAN
  BY <1>1, <1>4
<1>5. CASE Replying
  <2>1. /\ lss' \in Slaves /\ lss'.service = "none"
        /\ mainThread'.at = "loop" /\ DOMAIN mainThread' = {"at", "previous"}
        /\ ValidLssNodeId(s_lss_pending_node_id)'
    BY <1>5, Zenon DEF Replying
  <2>2. Slave'
    BY <2>1 DEF Slave
  <2>3. NodeTypes'
    BY <1>8, <2>1 DEF NodeTypes
  <2> QED BY <1>3, <2>2, <2>3 DEF Node
<1>6. CASE Resetting
  <2>1. ValidLssNodeId(s_lss_pending_node_id)'
    BY <1>4, <1>6 DEF Resetting, ValidLssNodeId
  <2>2. /\ lss' \in Slaves /\ lss'.service = "none"
        /\ mainThread'.at = "reset" /\ DOMAIN mainThread' = {"at", "previous"}
    BY <1>6 DEF Resetting
  <2>3. Slave'
    BY <2>2 DEF Slave
  <2>4. NodeTypes'
    BY <1>8, <2>1, <2>2 DEF NodeTypes
  <2> QED BY <1>3, <2>3, <2>4 DEF Node
<1>7. CASE Storing
  <2>1. ValidLssNodeId(s_lss_pending_node_id)'
    BY <1>4, <1>7 DEF Storing, ValidLssNodeId
  <2>2. /\ lss.service = "CFG_STORE" /\ UNCHANGED <<lss, s_lss_pending_node_id>>
        /\ mainThread'.at \in {"erasing", "programming"} /\ DOMAIN mainThread' = {"at", "previous"}
        /\ storedAs' = BadNodeId
        /\ s_lss_storage_word' = PackLssConfiguration(s_lss_pending_node_id)
    BY <1>7 DEF Storing
  <2>3. Slave'
    BY <1>4, <2>2 DEF Slave
  <2>4. NodeTypes'
    BY <1>4, <1>8, <2>1, <2>2 DEF NodeTypes
  <2> QED BY <1>3, <2>3, <2>4 DEF Node
<1> QED BY <1>1, <1>3, <1>5, <1>6, <1>7

LEMMA OtherNodeSteps ==
  ASSUME Session, Node, ResetCommunication \/ PowerFails \/ Restart
  PROVE  /\ Session' /\ Node'
         /\ UNCHANGED <<clients, backlog, client, taken, armed, gtwa, master, canRx, identity>>
<1>1. UNCHANGED <<clients, backlog, client, taken, armed, gtwa, master, canRx, identity>>
  BY DEF ResetCommunication, PowerFails, Restart, masterVars, daemonVars
<1>2. canRx' \in Seq(NodeAnswers)
  BY <1>1 DEF Session, DaemonTypes
<1>3. Session'
  BY <1>1, <1>2, SessionKept
<1>4. lss \in Slaves /\ up \in BOOLEAN /\ ValidLssNodeId(s_lss_pending_node_id) /\ Slave
  BY DEF Node, NodeTypes
<1>5. CASE ResetCommunication
  <2>1. /\ lss' = CO_LSSslave_init(s_lss_pending_node_id) /\ mainThread' = InLoop
        /\ UNCHANGED <<s_lss_pending_node_id, up>>
    BY <1>5 DEF ResetCommunication
  <2>2. lss' \in Slaves /\ lss'.service = "none"
    BY <1>4, <2>1, FreshSlave
  <2>3. ValidLssNodeId(s_lss_pending_node_id)'
    BY <1>4, <2>1 DEF ValidLssNodeId
  <2> QED BY <1>1, <1>3, <1>4, <2>1, <2>2, <2>3, LoopFields DEF Node, NodeTypes, Slave
<1>6. CASE PowerFails
  <2>1. mainThread' = InLoop /\ UNCHANGED <<lss, s_lss_pending_node_id>> /\ up' = FALSE
    BY <1>6 DEF PowerFails
  <2>2. ValidLssNodeId(s_lss_pending_node_id)'
    BY <1>4, <2>1 DEF ValidLssNodeId
  <2> QED BY <1>1, <1>3, <1>4, <2>1, <2>2, LoopFields DEF Node, NodeTypes, Slave
<1>7. CASE Restart
  <2>1. /\ lss' = CO_LSSslave_init(StoredNodeId(storage)) /\ mainThread' = InLoop
        /\ s_lss_pending_node_id' = StoredNodeId(storage) /\ up' = TRUE
    BY <1>7 DEF Restart, StartLss
  <2>2. ValidLssNodeId(StoredNodeId(storage))
    BY NodeIdIsValid
  <2>3. lss' \in Slaves /\ lss'.service = "none"
    BY <2>1, <2>2, FreshSlave
  <2>4. ValidLssNodeId(s_lss_pending_node_id)'
    BY <2>1, <2>2 DEF ValidLssNodeId
  <2> QED BY <1>1, <1>3, <2>1, <2>3, <2>4, LoopFields DEF Node, NodeTypes, Slave
<1> QED BY <1>5, <1>6, <1>7

LEMMA NodeKept ==
  ASSUME Node, UNCHANGED nodeVars
  PROVE  Node'
BY DEF Node, NodeTypes, Slave, nodeVars, lssVars, ValidLssNodeId

\* The primed form of FreshSession: nothing but the definitions is needed.
LEMMA SessionRestarts ==
  ASSUME DaemonRestarts
  PROVE  Session'
<1>1. (/\ clients = [c \in Clients |-> Away] /\ backlog = <<>> /\ canRx = <<>>
       /\ client = NoClient /\ taken = 0 /\ armed = TRUE
       /\ gtwa = IdleGtwa /\ master = IdleMaster
       => Session)'
  BY FreshSession, PTL
<1>2. (/\ clients = [c \in Clients |-> Away] /\ backlog = <<>> /\ canRx = <<>>
       /\ client = NoClient /\ taken = 0 /\ armed = TRUE
       /\ gtwa = IdleGtwa /\ master = IdleMaster)'
  BY DEF DaemonRestarts
<1> QED BY <1>1, <1>2

LEMMA SessionInit == Init => Session /\ Node
<1> SUFFICES ASSUME Init PROVE Session /\ Node
  OBVIOUS
<1>1. Session
  BY FreshSession DEF Init, InitMaster
<1>2. /\ lss = CO_LSSslave_init(StoredNodeId(storage))
         /\ s_lss_pending_node_id = StoredNodeId(storage)
      /\ mainThread = InLoop /\ up = TRUE
  BY DEF Init, InitLss
<1>3. ValidLssNodeId(StoredNodeId(storage))
  BY NodeIdIsValid
<1>4. lss \in Slaves /\ lss.service = "none"
  BY <1>2, <1>3, FreshSlave
<1> QED BY <1>1, <1>2, <1>3, <1>4, LoopFields DEF Node, NodeTypes, Slave

LEMMA GatewaySteps ==
  ASSUME Session, Gateway
  PROVE  /\ UNCHANGED nodeVars
         /\ \/ CO_LSSmaster_receive \/ TimerExpires(FALSE) \/ AcceptsClient \/ ReadsCommand
            \/ ClientCloses
            \/ NodeQuiet /\ TimerExpires(TRUE)
BY DEF Gateway

LEMMA SessionGateway ==
  ASSUME Session, Gateway
  PROVE  Session'
<1>1. canRx \in Seq(NodeAnswers)
  BY DEF Session, DaemonTypes
<1>2. CASE CO_LSSmaster_receive
  <2>1. canRx # <<>> /\ canRx' = Tail(canRx) /\ UNCHANGED <<backlog, client, armed, taken>>
        /\ (Turning(gtwa, Heard, FALSE) \/ UNCHANGED <<gtwa, master, clients>>)
    BY <1>2, ReceiveTurns
  <2>2. canRx' \in Seq(NodeAnswers)
    BY <1>1, <2>1, HeadTailProperties
  <2>3. CASE Turning(gtwa, Heard, FALSE)
    BY <2>2, <2>3, SessionTurn
  <2>4. CASE UNCHANGED <<gtwa, master, clients>>
    BY <2>1, <2>2, <2>4, SessionKept
  <2> QED BY <2>1, <2>3, <2>4
<1>3. ASSUME NEW late \in BOOLEAN, TimerExpires(late)
      PROVE  Session'
  <2>1. canRx' = canRx /\ UNCHANGED <<backlog, client, armed, taken>>
        /\ (Turning(gtwa, master, late) \/ UNCHANGED <<gtwa, master, clients>>)
    BY <1>3, TimerTurns
  <2>2. CASE Turning(gtwa, master, late)
    BY <1>1, <2>1, <2>2, SessionTurn
  <2>3. CASE UNCHANGED <<gtwa, master, clients>>
    BY <1>1, <2>1, <2>3, SessionKept
  <2> QED BY <2>1, <2>2, <2>3
<1>4. CASE ReadsCommand
  <2>1. canRx' = canRx /\ \E p \in Interpreters : Begun(p) /\ Turning(p, master, FALSE)
    BY <1>4, ReadTurns
  <2>2. PICK p \in Interpreters : Turning(p, master, FALSE)
    BY <2>1
  <2>3. canRx' \in Seq(NodeAnswers)
    BY <1>1, <2>1
  <2> QED BY <2>2, <2>3, SessionTurn
<1>5. TimerExpires(FALSE) => Session'
  BY <1>3
<1>6. TimerExpires(TRUE) => Session'
  BY <1>3
<1> QED BY <1>2, <1>4, <1>5, <1>6, SessionAccept, SessionClose, GatewaySteps

----------------------------------------------------------------------------
(* A reply is never for another client *)

LEMMA SessionNext ==
  ASSUME Session, Node, [Next]_vars
  PROVE  Session' /\ Node'
<1>1. CASE Gateway
  BY <1>1, SessionGateway, NodeKept, GatewaySteps
<1>2. CASE DaemonRestarts /\ UNCHANGED nodeVars
  BY <1>2, SessionRestarts, NodeKept
<1>3. ASSUME NEW c \in Clients, UpdaterReads(c)
      PROVE  Session' /\ Node'
  BY <1>3, SessionReads, NodeKept DEF UpdaterReads
<1>4. ASSUME NEW c \in Clients, UpdaterConnects(c), UNCHANGED nodeVars
      PROVE  Session' /\ Node'
  <2>1. PICK address \in Addresses : Connects(c, address)
    BY <1>4 DEF UpdaterConnects
  <2>2. Session'
    BY <2>1, SessionConnects
  <2> QED BY <1>4, <2>2, NodeKept
<1>5. ASSUME NEW c \in Clients, Dies(c), UNCHANGED nodeVars
      PROVE  Session' /\ Node'
  BY <1>5, SessionDies, NodeKept
<1>6. CASE FrameArrives
  BY <1>6, SessionFrame, NodeFrame
<1>7. CASE MainThread
  BY <1>7, MainThreadKeeps
<1>8. CASE ResetCommunication \/ PowerFails \/ Restart
  BY <1>8, OtherNodeSteps
<1>9. CASE UNCHANGED vars
  <2>1. UNCHANGED <<clients, backlog, client, taken, armed, gtwa, master, canRx>>
        /\ UNCHANGED nodeVars
    BY <1>9 DEF vars, masterVars, daemonVars
  <2>2. canRx' \in Seq(NodeAnswers)
    BY <2>1 DEF Session, DaemonTypes
  <2> QED BY <2>1, <2>2, SessionKept, NodeKept
<1> QED BY <1>1, <1>2, <1>3, <1>4, <1>5, <1>6, <1>7, <1>8, <1>9 DEF Next

\* The invariant of the session holds whoever the clients are, and whatever becomes of them.
THEOREM Sessions == Spec => [](Session /\ Node)
<1>1. Init => Session /\ Node
  BY SessionInit
<1>2. Session /\ Node /\ [Next]_vars => (Session /\ Node)'
  BY SessionNext
<1> QED BY <1>1, <1>2, PTL DEF Spec

\* A client never reads a reply made for another one or for another of its commands
\* (write_response, close_client, read_gateway_reply): also with several at a time.
THEOREM ReplyOwn == Spec => []ReplyIsOwn
<1>1. Session => ReplyIsOwn
  BY DEF Session, ServesOwn, ReplyIsOwn
<1> QED BY <1>1, Sessions, PTL

----------------------------------------------------------------------------
(* One updater: what is under way on the bus *)

\* While an answer is awaited and the timeout has not passed, the timer changes nothing.
LEMMA QuietTimer ==
  ASSUME Session, NEW late \in BOOLEAN, ~ late, TimerExpires(late), master.command # "WAITING"
  PROVE  UNCHANGED <<gtwa, master, clients>>
<1>1. gtwa \in Interpreters /\ master \in Masters /\ gtwa.fifo = 0 /\ gtwa.resp = NoReply
      /\ client # NoClient /\ gtwa.state # "IDLE"
  BY IdleOrNoReply DEF Session, DaemonTypes, ServesOwn
<1>2. gtwa.lssSubState \in 0 .. 2 /\ taken \in 1 .. 3
      /\ gtwa.state = Commands[taken]
  BY <1>1 DEF Session, Commanded, Interpreters
<1>3. gtwa.state \in {"ALLNODES", "SWITCH_SEL", "INQUIRE"}
  BY <1>2, NamedCommands
<1>4. CO_GTWA_process(gtwa, master, late) /\ client' = client
  BY DEF TimerExpires
<1>5. Parsed(gtwa) = gtwa
  BY <1>1 DEF Parsed
<1>6. Transfer(Execute(gtwa, master, late).g) /\ master' = Execute(gtwa, master, late).m
  BY <1>1, <1>4, <1>5 DEF CO_GTWA_process
<1>7. ASSUME NEW cs \in {"SWITCH_STATE", "INQUIRE", "CFG_NODE_ID", "CFG_STORE"}, master.command = cs
      PROVE  CheckWait(master, cs, late) = [ret |-> "WAIT", id |-> 0, m |-> master]
  <2>1. master.rx = NoAnswer /\ NoAnswer.cs = "none"
    BY <1>7 DEF Session, Commanded, NoAnswer
  <2>2. [master EXCEPT !.rx = NoAnswer] = master
    BY <1>1, <2>1 DEF Masters
  <2>3. ~ Answers(master, cs)
    BY <1>7, <2>1 DEF Answers
  <2> QED BY <2>2, <2>3 DEF CheckWait, Ret
<1>8. ASSUME NEW command \in {"INQUIRE", "CFG_NODE_ID", "CFG_STORE"}, NEW value,
             master.command = command
      PROVE  AskSelected(master, command, value, late) = [ret |-> "WAIT", id |-> 0, m |-> master]
  BY <1>7, <1>8 DEF AskSelected, Ready
<1>9. Execute(gtwa, master, late) = Both(gtwa, master)
  <2>1. CASE gtwa.state = "SWITCH_SEL"
    <3> DEFINE r == CO_LSSmaster_swStateSelect(master, gtwa.address, late)
    <3>1. master.command = "SWITCH_STATE"
      BY <2>1 DEF Session, Commanded
    <3>2. CheckWait(master, "SWITCH_STATE", late) = [ret |-> "WAIT", id |-> 0, m |-> master]
      BY <1>7, <3>1
    <3>3. r.ret = "WAIT" /\ r.m = master
      BY <3>1, <3>2 DEF CO_LSSmaster_swStateSelect, Ready
    <3>4. Execute(gtwa, master, late) = OneService(gtwa, r)
      BY <2>1 DEF Execute
    <3> HIDE DEF r
    <3>5. OneService(gtwa, r) = Both(gtwa, r.m)
      BY <3>3 DEF OneService
    <3> QED BY <3>3, <3>4, <3>5
  <2>2. CASE gtwa.state = "INQUIRE"
    <3> DEFINE r == AskSelected(master, "INQUIRE", 0, late)
    <3>1. master.command = "INQUIRE"
      BY <2>2 DEF Session, Commanded
    <3>2. r.ret = "WAIT" /\ r.m = master
      BY <1>8, <3>1
    <3>3. Execute(gtwa, master, late) = OneService(gtwa, r)
      BY <2>2 DEF Execute
    <3> HIDE DEF r
    <3>4. OneService(gtwa, r) = Both(gtwa, r.m)
      BY <3>2 DEF OneService
    <3> QED BY <3>2, <3>3, <3>4
  <2>3. CASE gtwa.state = "ALLNODES" /\ gtwa.lssSubState = 0
    <3> DEFINE r == CO_LSSmaster_IdentifyFastscan(master, late)
               d == AllNodes(gtwa, master, late)
    <3>1. master.command = "FASTSCAN" /\ master.state = "WAITING"
      BY <2>3 DEF Session, Commanded
    <3>2. r.ret = "WAIT" /\ r.m = master
      BY <3>1 DEF CO_LSSmaster_IdentifyFastscan, Ready, Ret
    <3>3. d = CASE r.ret = "WAIT"     -> Both(gtwa, r.m)
                [] r.ret = "FINISHED" -> SetNode(gtwa, r.m, late)
                [] r.ret = "NOACK"    -> Both(Respond(gtwa, "OK", 0), r.m)
                [] OTHER              -> Both(Respond(gtwa, "ERROR", 0), r.m)
      BY <2>3 DEF AllNodes
    <3>4. Execute(gtwa, master, late) = d
      BY <2>3 DEF Execute
    <3> HIDE DEF r, d
    <3>5. d = Both(gtwa, r.m)
      BY <3>2, <3>3
    <3> QED BY <3>2, <3>4, <3>5
  <2>4. CASE gtwa.state = "ALLNODES" /\ gtwa.lssSubState = 1
    <3> DEFINE r == AskSelected(master, "CFG_NODE_ID", gtwa.lssNID, late)
               same == [gtwa EXCEPT !.lssSubState = 1]
               d == SetNode(gtwa, master, late)
    <3>1. master.command = "CFG_NODE_ID"
      BY <2>4 DEF Session, Commanded
    <3>2. r.ret = "WAIT" /\ r.m = master
      BY <1>8, <3>1
    <3>3. same = gtwa
      BY <1>1, <2>4 DEF Interpreters
    <3>4. d = CASE r.ret = "WAIT" -> Both(same, r.m)
                [] r.ret = "OK"   -> Store(gtwa, r.m, late)
                [] OTHER          -> Both(Respond(gtwa, "ERROR", 0), r.m)
      BY DEF SetNode
    <3>5. Execute(gtwa, master, late) = AllNodes(gtwa, master, late)
      BY <2>4 DEF Execute
    <3>6. AllNodes(gtwa, master, late) = d
      BY <2>4 DEF AllNodes
    <3> HIDE DEF r, same, d
    <3>7. d = Both(same, r.m)
      BY <3>2, <3>4
    <3> QED BY <3>2, <3>3, <3>5, <3>6, <3>7
  <2>5. CASE gtwa.state = "ALLNODES" /\ gtwa.lssSubState = 2
    <3> DEFINE r == AskSelected(master, "CFG_STORE", 0, late)
               same == [gtwa EXCEPT !.lssSubState = 2]
               d == Store(gtwa, master, late)
    <3>1. master.command = "CFG_STORE"
      BY <2>5 DEF Session, Commanded
    <3>2. r.ret = "WAIT" /\ r.m = master
      BY <1>8, <3>1
    <3>3. same = gtwa
      BY <1>1, <2>5 DEF Interpreters
    <3>4. d = CASE r.ret = "WAIT" -> Both(same, r.m)
                [] r.ret = "OK"   -> Deselected(gtwa, r.m)
                [] OTHER          -> Both(Respond(gtwa, "ERROR", 0), r.m)
      BY DEF Store
    <3>5. Execute(gtwa, master, late) = AllNodes(gtwa, master, late)
      BY <2>5 DEF Execute
    <3>6. AllNodes(gtwa, master, late) = d
      BY <2>5 DEF AllNodes
    <3> HIDE DEF r, same, d
    <3>7. d = Both(same, r.m)
      BY <3>2, <3>4
    <3> QED BY <3>2, <3>3, <3>5, <3>6, <3>7
  <2> QED BY <1>2, <1>3, <2>1, <2>2, <2>3, <2>4, <2>5
<1> QED BY <1>1, <1>6, <1>9 DEF Both, Transfer

\* Between two updaters.
Free == client = NoClient /\ backlog = <<>>

\* The node owes an answer.
Answering == up /\ lss.service \notin {"none", "SWITCH_STATE_GLOBAL"}
Clear == canRx = <<>> /\ ~ Answering
InConfiguration == up /\ lss.lssState = "CONFIGURATION"

\* One request or answer is under way at a time: on its way to the node, in the node, in the
\* socket, or taken.  Only an answer to the fastscan stays in the master.
Pipe ==
  /\ master.tx # NoFrame \/ master.command = "WAITING" => Clear
  /\ Answering => /\ canRx = <<>> /\ master.rx = NoAnswer
                  /\ Service(lss.service) = master.command
  /\ canRx # <<>> => /\ Len(canRx) = 1 /\ ~ Answering /\ master.rx = NoAnswer
                     /\ canRx[1].cs = master.command
  /\ master.rx # NoAnswer => master.rx.cs = "FASTSCAN"

\* What the answers to CFG_NODE_ID and CFG_STORE say is true of the node.
Configured ==
  /\ master.command = "CFG_NODE_ID" =>
       /\ Answering => lss.nid = gtwa.lssNID
       /\ canRx # <<>> /\ canRx[1].code = "OK" /\ InConfiguration =>
            s_lss_pending_node_id = gtwa.lssNID
  /\ master.command = "CFG_STORE" =>
       /\ InConfiguration => s_lss_pending_node_id = gtwa.lssNID
       /\ canRx # <<>> /\ canRx[1].code = "OK" => storage = PackLssConfiguration(gtwa.lssNID)

\* A fastscan has no answer only when the node is not in configuration.
Scanned ==
  master.command = "FASTSCAN" =>
    master.tx # NoFrame \/ ~ Clear \/ master.rx # NoAnswer \/ ~ InConfiguration

Link == Pipe /\ Configured /\ Scanned

\* A turn while the bus and the node are clear.
Fed(p, m, late) ==
  /\ Turning(p, m, late) /\ UNCHANGED nodeVars
  /\ canRx' = <<>> /\ ~ Answering
  /\ m.command = master.command
  /\ late => NodeQuiet
  /\ (p = gtwa /\ taken' = taken) \/ Begun(p)
  /\ \/ m = master /\ canRx = <<>>
     \/ /\ p = gtwa /\ ~ late /\ m.command # "WAITING"
        /\ canRx # <<>> /\ m.rx = canRx[1] /\ m.rx.cs = m.command

LEMMA IsClear ==
  ASSUME Node, NodeQuiet
  PROVE  Clear
BY DEF Node, NodeTypes, NodeQuiet, Listens, Clear, Answering

LEMMA TimerFeeds ==
  ASSUME Session, Node, Pipe, NEW late \in BOOLEAN, TimerExpires(late), UNCHANGED nodeVars,
         late => NodeQuiet
  PROVE  \/ UNCHANGED <<clients, backlog, client, taken, armed, gtwa, master, canRx>>
         \/ Fed(gtwa, master, late)
<1>1. /\ canRx' = canRx /\ UNCHANGED <<backlog, client, armed, taken>>
      /\ Turning(gtwa, master, late) \/ UNCHANGED <<gtwa, master, clients>>
  BY TimerTurns
<1>2. CASE ~ late /\ master.command # "WAITING"
  BY <1>1, <1>2, QuietTimer
<1>3. CASE late \/ master.command = "WAITING"
  <2>1. Clear
    BY <1>3, IsClear DEF Pipe
  <2> QED BY <1>1, <2>1 DEF Clear, Fed
<1> QED BY <1>2, <1>3

LEMMA ReceiveFeeds ==
  ASSUME Session, Node, Pipe, CO_LSSmaster_receive, UNCHANGED nodeVars
  PROVE  Fed(gtwa, Heard, FALSE)
<1>1. /\ canRx # <<>> /\ canRx' = Tail(canRx) /\ UNCHANGED <<backlog, client, armed, taken>>
      /\ Turning(gtwa, Heard, FALSE) \/ gtwa.resp # NoReply
  BY ReceiveTurns
<1>2. Len(canRx) = 1 /\ ~ Answering /\ master.rx = NoAnswer /\ canRx[1].cs = master.command
      /\ master.command # "WAITING" /\ canRx \in Seq(NodeAnswers)
  BY <1>1 DEF Pipe, Clear, Session, DaemonTypes
<1>3. Turning(gtwa, Heard, FALSE)
  BY <1>1, <1>2, IdleOrNoReply
<1>4. canRx' = <<>>
  <2>1. canRx' \in Seq(NodeAnswers) /\ Len(canRx') = 0
    BY <1>1, <1>2, HeadTailProperties
  <2> QED BY <2>1, EmptySeq
<1>5. Heard.command = master.command /\ Heard.rx = canRx[1]
  <2>1. Heard = [master EXCEPT !.rx = Head(canRx)]
    BY <1>2 DEF Heard, Ready
  <2>2. Head(canRx) = canRx[1]
    BY <1>1, <1>2
  <2> QED BY <2>1, <2>2 DEF Session, DaemonTypes, Masters
<1> HIDE DEF Heard
<1> QED BY <1>1, <1>2, <1>3, <1>4, <1>5 DEF Fed

LEMMA ReadFeeds ==
  ASSUME Session, Node, Pipe, ReadsCommand, UNCHANGED nodeVars
  PROVE  \E p \in Interpreters : Fed(p, master, FALSE)
<1>1. PICK p \in Interpreters : Begun(p) /\ Turning(p, master, FALSE)
  BY ReadTurns
<1>2. master.command = "WAITING"
  BY <1>1, IdleOrNoReply DEF Begun
<1>3. Clear
  BY <1>2 DEF Pipe
<1>4. canRx' = canRx
  BY ReadTurns
<1> QED BY <1>1, <1>3, <1>4 DEF Clear, Fed

LEMMA GatewayFeeds ==
  ASSUME Session, Node, Pipe, Gateway
  PROVE  /\ UNCHANGED nodeVars
         /\ \/ UNCHANGED <<clients, backlog, client, taken, armed, gtwa, master, canRx>>
            \/ AcceptsClient \/ ClientCloses
            \/ \E p \in Interpreters, m \in Masters, late \in BOOLEAN : Fed(p, m, late)
<1>1. gtwa \in Interpreters /\ master \in Masters
  BY DEF Session, DaemonTypes
<1>2. UNCHANGED nodeVars
  BY GatewaySteps
<1>3. CASE CO_LSSmaster_receive
  <2>1. Heard \in Masters
    BY <1>3, HeardFits, ReceiveTurns
  <2>2. Fed(gtwa, Heard, FALSE)
    BY <1>2, <1>3, ReceiveFeeds
  <2> QED BY <1>1, <1>2, <2>1, <2>2
<1>4. ASSUME NEW late \in BOOLEAN, TimerExpires(late), late => NodeQuiet
      PROVE  \/ UNCHANGED <<clients, backlog, client, taken, armed, gtwa, master, canRx>>
             \/ \E p \in Interpreters, m \in Masters, l \in BOOLEAN : Fed(p, m, l)
  BY <1>1, <1>2, <1>4, TimerFeeds
<1>5. CASE ReadsCommand
  <2>1. \E p \in Interpreters : Fed(p, master, FALSE)
    BY <1>2, <1>5, ReadFeeds
  <2> QED BY <1>1, <1>2, <2>1
<1>6. CASE TimerExpires(FALSE)
  BY <1>2, <1>4, <1>6
<1>7. CASE NodeQuiet /\ TimerExpires(TRUE)
  BY <1>2, <1>4, <1>7
<1> QED BY <1>2, <1>3, <1>5, <1>6, <1>7, GatewaySteps

----------------------------------------------------------------------------
(* Turns while the bus is clear *)

\* What is needed of each turn.
LEMMA FedTurn ==
  ASSUME Session, NEW p, NEW m, NEW late \in BOOLEAN, Fed(p, m, late)
  PROVE  /\ Fits(p, m) /\ m.tx = NoFrame /\ TurnsTo(p, m, late)
         /\ p.state = "IDLE" => p = gtwa /\ m = master /\ taken' = taken
         /\ p.state # "IDLE" => client # NoClient
         /\ p.state # "IDLE" => p.state = Commands[taken'] /\ taken' # 0
         /\ taken' \in 0 .. 4
         /\ UNCHANGED <<backlog, client, armed>>
         /\ m.command # "WAITING" => p = gtwa
         /\ canRx' = <<>> /\ Clear'
         /\ (InConfiguration' <=> InConfiguration)
         /\ UNCHANGED <<s_lss_pending_node_id, storage, identity>>
<1>1. Turning(p, m, late) /\ UNCHANGED nodeVars /\ canRx' = <<>> /\ ~ Answering
      /\ m.command = master.command
  BY DEF Fed
<1>2. /\ Fits(p, m) /\ m.tx = NoFrame /\ TurnsTo(p, m, late)
      /\ p.state = "IDLE" => p = gtwa /\ m = master /\ taken' = taken
      /\ p.state # "IDLE" => client # NoClient
      /\ p.state # "IDLE" => p.state = Commands[taken'] /\ taken' # 0
      /\ taken' \in 0 .. 4
      /\ UNCHANGED <<backlog, client, armed>>
  BY <1>1 DEF Turning
<1>3. UNCHANGED <<lss, up, s_lss_pending_node_id, storage, identity>>
  BY <1>1 DEF nodeVars, lssVars
<1>4. ~ Answering'
  BY <1>1, <1>3 DEF Answering
<1>5. InConfiguration' <=> InConfiguration
  BY <1>3 DEF InConfiguration
<1>6. m.command # "WAITING" => p = gtwa
  <2>1. Begun(p) => master.command = "WAITING"
    BY IdleOrNoReply DEF Begun
  <2> QED BY <1>1, <2>1 DEF Fed
<1> QED BY <1>1, <1>2, <1>3, <1>4, <1>5, <1>6 DEF Clear

LEMMA TurnPipe ==
  ASSUME Session, Pipe, NEW p, NEW m, NEW late \in BOOLEAN, Fed(p, m, late)
  PROVE  Pipe'
<1>1. Clear' /\ canRx' = <<>> /\ TurnsTo(p, m, late)
      /\ (p.state = "IDLE" => p = gtwa /\ m = master)
  BY FedTurn
<1>2. ~ Answering'
  BY <1>1 DEF Clear
<1>3. m.rx # NoAnswer => m.rx.cs = "FASTSCAN" \/ m.rx.cs = m.command
  BY DEF Fed, Pipe
<1>4. master'.rx # NoAnswer => master'.rx.cs = "FASTSCAN"
  <2>1. CASE StaysIdle(p, m)
    <3>1. master' = master
      BY <1>1, <2>1 DEF StaysIdle
    <3> QED BY <3>1 DEF Pipe
  <2>2. CASE StillWaits(p, m, late)
    BY <1>3, <2>2 DEF StillWaits
  <2>3. CASE Starts(p, m, late)
    BY <2>3 DEF Starts, Sent
  <2>4. CASE IsStored(p, m)
    BY <2>4 DEF IsStored, Deselects
  <2>5. CASE IsOver(p, m, late)
    BY <2>5 DEF IsOver, Freed
  <2>6. CASE IsGlobal(p)
    BY <2>6 DEF IsGlobal, Deselects
  <2> QED BY <1>1, <2>1, <2>2, <2>3, <2>4, <2>5, <2>6 DEF TurnsTo
<1> QED BY <1>1, <1>2, <1>4 DEF Pipe

\* An answer that a turn takes is the first one in the socket.
LEMMA TakenAnswer ==
  ASSUME Session, NEW p, NEW m, NEW late \in BOOLEAN, Fed(p, m, late),
         m.command # "FASTSCAN", m.rx # NoAnswer
  PROVE  p = gtwa /\ canRx # <<>> /\ m.rx = canRx[1] /\ ~ late
BY DEF Fed, Session, Commanded

LEMMA TurnConfigured ==
  ASSUME Session, Pipe, Configured, NEW p, NEW m, NEW late \in BOOLEAN, Fed(p, m, late)
  PROVE  Configured'
<1>1. canRx' = <<>> /\ TurnsTo(p, m, late) /\ (InConfiguration' <=> InConfiguration)
      /\ (p.state = "IDLE" => p = gtwa /\ m = master)
      /\ (m.command # "WAITING" => p = gtwa)
      /\ UNCHANGED s_lss_pending_node_id
  BY FedTurn
<1>2. ~ Answering' /\ m.command = master.command
  BY FedTurn DEF Clear, Fed
<1>3. ASSUME master'.command = "CFG_STORE", InConfiguration'
      PROVE  s_lss_pending_node_id' = gtwa'.lssNID
  <2>1. CASE StaysIdle(p, m)
    <3>1. master' = master /\ gtwa' = gtwa
      BY <1>1, <2>1 DEF StaysIdle
    <3> QED BY <1>1, <1>3, <3>1 DEF Configured
  <2>2. CASE StillWaits(p, m, late)
    <3>1. m.command = "CFG_STORE" /\ gtwa'.lssNID = p.lssNID
      BY <1>3, <2>2 DEF StillWaits, Kept
    <3>2. p = gtwa
      BY <1>1, <3>1
    <3> QED BY <1>1, <1>2, <1>3, <3>1, <3>2 DEF Configured
  <2>3. CASE Starts(p, m, late)
    <3>1. PICK cs \in FrameKinds \ {"DESELECT"}, value \in Nat \cup Addresses :
            /\ Sent(master', Command(cs), Frame(cs, value))
            /\ Commanding(p, m, late, cs, value)
      BY <2>3 DEF Starts
    <3>2. Command(cs) = "CFG_STORE"
      BY <1>3, <3>1 DEF Sent
    <3>3. cs = "CFG_STORE"
      BY <3>2 DEF Command, FrameKinds
    <3>4. m.command = "CFG_NODE_ID" /\ m.rx.cs = "CFG_NODE_ID" /\ m.rx.code = "OK"
      BY <3>1, <3>3 DEF Commanding
    <3>5. m.rx # NoAnswer
      BY <3>4 DEF NoAnswer
    <3>6. p = gtwa /\ canRx # <<>> /\ m.rx = canRx[1]
      BY <3>4, <3>5, TakenAnswer
    <3>7. gtwa'.lssNID = gtwa.lssNID
      BY <2>3, <3>6 DEF Starts
    <3> QED BY <1>1, <1>2, <1>3, <3>4, <3>6, <3>7 DEF Configured
  <2>4. CASE IsStored(p, m) \/ IsOver(p, m, late) \/ IsGlobal(p)
    BY <1>3, <2>4 DEF IsStored, IsOver, IsGlobal, Deselects, Freed
  <2> QED BY <1>1, <2>1, <2>2, <2>3, <2>4 DEF TurnsTo
<1> QED BY <1>1, <1>2, <1>3 DEF Configured

LEMMA TurnScanned ==
  ASSUME Session, Pipe, Scanned, NEW p, NEW m, NEW late \in BOOLEAN, Fed(p, m, late)
  PROVE  Scanned'
<1>1. TurnsTo(p, m, late) /\ (InConfiguration' <=> InConfiguration) /\ Clear'
      /\ (p.state = "IDLE" => p = gtwa /\ m = master) /\ m.tx = NoFrame
  BY FedTurn
<1>2. ~ Answering
  BY DEF Fed
<1>3. CASE StaysIdle(p, m)
  <2>1. master' = master /\ master.command = "WAITING"
    BY <1>1, <1>3, IdleOrNoReply DEF StaysIdle
  <2> QED BY <2>1 DEF Scanned
<1>4. CASE StillWaits(p, m, late) /\ m.command = "FASTSCAN"
  <2>1. master' = m /\ ~ late
    BY <1>4 DEF StillWaits
  <2>2. CASE m = master /\ canRx = <<>>
    BY <1>1, <1>2, <1>4, <2>1, <2>2 DEF Scanned, Clear
  <2>3. CASE m.rx.cs = m.command
    <3>1. m.rx # NoAnswer
      BY <1>4, <2>3 DEF NoAnswer
    <3> QED BY <2>1, <3>1 DEF Scanned
  <2> QED BY <2>2, <2>3 DEF Fed
<1>5. CASE StillWaits(p, m, late) /\ m.command # "FASTSCAN"
  BY <1>5 DEF StillWaits, Kept, Scanned
<1>6. CASE Starts(p, m, late)
  <2>1. PICK cs \in FrameKinds \ {"DESELECT"}, value \in Nat \cup Addresses :
          Sent(master', Command(cs), Frame(cs, value))
    BY <1>6 DEF Starts
  <2>2. master'.tx.cs = cs /\ NoFrame.cs = "none" /\ cs # "none"
    BY <2>1, FrameFields DEF Sent, FrameKinds, NoFrame
  <2> QED BY <2>2 DEF Scanned
<1>7. CASE IsStored(p, m) \/ IsOver(p, m, late) \/ IsGlobal(p)
  BY <1>7 DEF IsStored, IsOver, IsGlobal, Deselects, Freed, Scanned
<1> QED BY <1>1, <1>3, <1>4, <1>5, <1>6, <1>7 DEF TurnsTo

\* What a turn reports as assigned is in the flash.
LEMMA TurnAssigns ==
  ASSUME Session, Pipe, Configured, NEW p, NEW m, NEW late \in BOOLEAN, Fed(p, m, late)
  PROVE  gtwa'.assigned \notin {0, gtwa.assigned} => storage = PackLssConfiguration(gtwa'.assigned)
<1>1. TurnsTo(p, m, late) /\ m.command = master.command
  BY FedTurn DEF Fed
<1>2. p = gtwa \/ p.assigned = 0
  BY DEF Fed, Begun
<1>3. CASE IsStored(p, m)
  <2>1. m.command = "CFG_STORE" /\ m.rx.cs = "CFG_STORE" /\ m.rx.code = "OK"
        /\ gtwa'.assigned = p.lssNID
    BY <1>3 DEF IsStored
  <2>2. m.rx # NoAnswer
    BY <2>1 DEF NoAnswer
  <2>3. p = gtwa /\ canRx # <<>> /\ m.rx = canRx[1]
    BY <2>1, <2>2, TakenAnswer
  <2> QED BY <1>1, <2>1, <2>3 DEF Configured
<1>4. CASE ~ IsStored(p, m)
  <2>1. gtwa'.assigned = p.assigned
    BY <1>1, <1>4 DEF TurnsTo, StaysIdle, StillWaits, Starts, IsOver, IsGlobal
  <2> QED BY <1>2, <2>1
<1> QED BY <1>3, <1>4

----------------------------------------------------------------------------
(* Which node the answers are about *)

\* Nobody waits in the queue behind a client that waits.
InOrder ==
  /\ \A i, j \in DOMAIN backlog : i < j => ~ Waiting(backlog[i])
  /\ taken # 0 => backlog = <<>>
  /\ client # NoClient /\ Waiting(client) => backlog = <<>>

\* While a client is served, only the node its package names is in configuration by the time the
\* answers count.
Selected ==
  client # NoClient /\ Waiting(client) =>
    /\ taken # 0 => gtwa.address = clients[client].address
    /\ taken = 1 /\ gtwa.state = "IDLE" /\ clients[client].reply.code = "OK" =>
         ~ InConfiguration \/ master.tx.cs = "DESELECT"
    /\ taken = 2 /\ master.tx # NoFrame => ~ InConfiguration
    /\ taken \in {2, 3} /\ InConfiguration => gtwa.address = identity
    /\ taken = 3 /\ canRx # <<>> => gtwa.address = identity
    /\ clients[client].step = 3 /\ clients[client].reply # NoReply
       /\ clients[client].reply.code = "OK" =>
         clients[client].address = identity

LEMMA TurnInOrder ==
  ASSUME Session, InOrder, NEW p, NEW m, NEW late \in BOOLEAN, Fed(p, m, late)
  PROVE  InOrder'
<1>1. /\ UNCHANGED <<backlog, client>>
      /\ \A c \in Clients : clients'[c].step = clients[c].step
  BY TurnTypes DEF Fed
<1>2. \A c \in Clients : (Waiting(c))' <=> Waiting(c)
  BY <1>1 DEF Waiting
<1>3. taken' = taken \/ (client # NoClient /\ Waiting(client))
  BY DEF Fed, Begun
<1>4. client \in Clients \cup {NoClient} /\ \A i \in DOMAIN backlog : backlog[i] \in Clients
  BY ElementOfSeq DEF Session, DaemonTypes
<1> QED BY <1>1, <1>2, <1>3, <1>4 DEF InOrder

\* The reply a turn gives the client.
LEMMA TurnReplies ==
  ASSUME Session, NEW p, NEW m, NEW late \in BOOLEAN, Fed(p, m, late),
         client # NoClient, Waiting(client)
  PROVE  /\ (Waiting(client))' /\ client' = client /\ client \in Clients
         /\ clients'[client].step = clients[client].step
         /\ clients'[client].address = clients[client].address
         /\ gtwa'.address = p.address
         /\ \/ clients' = clients
            \/ /\ p.state # "IDLE" /\ gtwa'.state = "IDLE" /\ clients[client].step = taken'
               /\ \/ IsGlobal(p)
                  \/ IsStored(p, m)
                  \/ \E code \in Codes :
                       /\ clients'[client].reply.code = code
                       /\ code = "OK" /\ p.state = "ALLNODES" =>
                            late /\ m.command = "FASTSCAN" /\ m.rx.cs # "FASTSCAN"
                       /\ code = "OK" /\ p.state = "INQUIRE" =>
                            m.command = "INQUIRE" /\ m.rx.cs = "INQUIRE"
<1>1. /\ UNCHANGED client /\ client \in Clients
      /\ clients'[client].step = clients[client].step
      /\ clients'[client].address = clients[client].address
      /\ clients \in [Clients -> Requests]
  <2>1. client \in Clients
    BY DEF Session, DaemonTypes
  <2>2. Turning(p, m, late)
    BY DEF Fed
  <2> QED BY <2>1, <2>2, TurnTypes DEF Session, DaemonTypes
<1>2. (Waiting(client))'
  BY <1>1 DEF Waiting
<1>3. TurnsTo(p, m, late) /\ (p.state # "IDLE" => clients[client].step = taken')
  BY DEF Fed, Turning
<1>4. ASSUME NEW code, Handed(p, code)
      PROVE  /\ gtwa'.state = "IDLE" /\ gtwa'.address = p.address
             /\ clients'[client].reply.code = code
  <2>1. /\ gtwa'.state = "IDLE" /\ gtwa'.address = p.address
        /\ \E reply \in Replies : reply.code = code
           /\ clients' = [clients EXCEPT ![client].reply = reply]
    BY <1>1, <1>2, <1>4 DEF Handed
  <2> QED BY <1>1, <2>1
<1>5. CASE StaysIdle(p, m)
  BY <1>1, <1>2, <1>5 DEF StaysIdle
<1>6. CASE StillWaits(p, m, late)
  BY <1>1, <1>2, <1>6 DEF StillWaits, GoesOn, Continues
<1>7. CASE Starts(p, m, late)
  BY <1>1, <1>2, <1>7 DEF Starts, GoesOn, Continues
<1>8. CASE IsStored(p, m)
  <2>1. CASE GoesOn(p)
    BY <1>1, <1>2, <2>1 DEF GoesOn, Continues
  <2>2. CASE Handed(p, "OK")
    BY <1>1, <1>2, <1>3, <1>4, <1>8, <2>2 DEF IsStored
  <2> QED BY <1>8, <2>1, <2>2 DEF IsStored
<1>9. CASE IsOver(p, m, late)
  <2>1. PICK code \in Codes :
          /\ Handed(p, code)
          /\ code = "OK" /\ p.state = "ALLNODES" => late /\ m.command = "FASTSCAN"
             /\ m.rx.cs # "FASTSCAN"
          /\ code = "OK" /\ p.state = "INQUIRE" => m.command = "INQUIRE" /\ m.rx.cs = "INQUIRE"
    BY <1>9 DEF IsOver
  <2>2. gtwa'.state = "IDLE" /\ gtwa'.address = p.address /\ clients'[client].reply.code = code
    BY <1>4, <2>1
  <2>3. p.state # "IDLE"
    BY <1>9 DEF IsOver
  <2> QED BY <1>1, <1>2, <1>3, <2>1, <2>2, <2>3
<1>10. CASE IsGlobal(p)
  <2>1. gtwa'.state = "IDLE" /\ gtwa'.address = p.address /\ p.state # "IDLE"
    BY <1>4, <1>10 DEF IsGlobal
  <2> QED BY <1>1, <1>2, <1>3, <1>10, <2>1
<1> QED BY <1>3, <1>5, <1>6, <1>7, <1>8, <1>9, <1>10 DEF TurnsTo

LEMMA TurnSelected ==
  ASSUME Session, Pipe, Scanned, Selected, NEW p, NEW m, NEW late \in BOOLEAN, Fed(p, m, late)
  PROVE  Selected'
<1>0. CASE ~ (client # NoClient /\ Waiting(client))
  <2>1. client' = client /\ ((client # NoClient) => ~ (Waiting(client))')
    <3>1. UNCHANGED client /\ \A c \in Clients : clients'[c].step = clients[c].step
      BY TurnTypes DEF Fed
    <3> QED BY <1>0, <3>1 DEF Waiting, Session, DaemonTypes
  <2> QED BY <2>1 DEF Selected
<1> SUFFICES ASSUME client # NoClient, Waiting(client)
             PROVE  Selected'
  BY <1>0
<1>1. /\ (Waiting(client))' /\ client' = client /\ client \in Clients
      /\ clients'[client].step = clients[client].step
      /\ clients'[client].address = clients[client].address
      /\ gtwa'.address = p.address
  BY TurnReplies
<1>2. /\ Fits(p, m) /\ m.tx = NoFrame /\ TurnsTo(p, m, late)
      /\ p.state = "IDLE" => p = gtwa /\ m = master /\ taken' = taken
      /\ p.state # "IDLE" => p.state = Commands[taken'] /\ taken' # 0
      /\ taken' \in 0 .. 4
      /\ m.command # "WAITING" => p = gtwa
      /\ canRx' = <<>>
      /\ InConfiguration' <=> InConfiguration
      /\ UNCHANGED identity
  BY FedTurn
<1>3. (p = gtwa /\ taken' = taken) \/ Begun(p)
  BY DEF Fed
<1>4. Begun(p) => /\ taken' = taken + 1 /\ clients[client].step = taken' /\ gtwa.state = "IDLE"
                  /\ clients[client].reply = NoReply /\ p.address = clients[client].address
                  /\ m = master /\ master.command = "WAITING"
  BY IdleOrNoReply DEF Begun, Fed
<1>5. taken \in 0 .. 4
  BY DEF Session, DaemonTypes
<1>6. taken # 0 => gtwa.address = clients[client].address
  BY DEF Selected
<1>7. taken' # 0 => gtwa'.address = clients'[client].address
  BY <1>1, <1>3, <1>4, <1>6
<1>a. taken' = 2 /\ Begun(p) => ~ InConfiguration
  <2>1. SUFFICES ASSUME taken' = 2, Begun(p)
                 PROVE  ~ InConfiguration
    OBVIOUS
  <2>2. taken = 1 /\ master.tx = NoFrame
    BY <1>2, <1>4, <1>5, <2>1
  <2>3. NoReply.code = "OK" /\ NoFrame.cs = "none"
    BY DEF NoReply, NoFrame
  <2> QED BY <1>4, <2>1, <2>2, <2>3 DEF Selected
<1>8. ASSUME taken' = 1, gtwa'.state = "IDLE", clients'[client].reply.code = "OK", InConfiguration
      PROVE  master'.tx.cs = "DESELECT"
  <2>1. CASE StaysIdle(p, m)
    <3>1. gtwa' = gtwa /\ master' = master /\ clients' = clients /\ taken' = taken
      BY <1>2, <2>1 DEF StaysIdle
    <3> QED BY <1>8, <3>1 DEF Selected
  <2>2. CASE StillWaits(p, m, late) \/ Starts(p, m, late)
    <3>1. gtwa'.state = p.state /\ p.state # "IDLE"
      BY <2>2 DEF StillWaits, Starts, Commanding, GoesOn, Continues
    <3> QED BY <1>8, <3>1
  <2>3. CASE IsStored(p, m) \/ IsGlobal(p)
    BY <2>3, FrameFields DEF IsStored, IsGlobal, Deselects
  <2>4. CASE IsOver(p, m, late)
    <3>1. p.state = "ALLNODES"
      BY <1>2, <1>8, <2>4, NamedCommands DEF IsOver
    <3>2. PICK code \in Codes :
            /\ Handed(p, code)
            /\ code = "OK" => late /\ m.command = "FASTSCAN" /\ m.rx.cs # "FASTSCAN"
      BY <2>4, <3>1 DEF IsOver
    <3>3. clients'[client].reply.code = code
      <4>1. \E reply \in Replies : reply.code = code
            /\ clients' = [clients EXCEPT ![client].reply = reply]
        BY <1>1, <3>2 DEF Handed
      <4> QED BY <1>1, <4>1 DEF Session, DaemonTypes
    <3>4. late /\ m.command = "FASTSCAN" /\ m.rx.cs # "FASTSCAN"
      BY <1>8, <3>2, <3>3
    <3>5. m = master
      BY <3>4 DEF Fed
    <3>6. Clear
      BY <3>4, <3>5 DEF Fed, Clear
    <3>7. master.rx = NoAnswer
      BY <3>4, <3>5 DEF Pipe
    <3> QED BY <1>2, <1>8, <3>4, <3>5, <3>6, <3>7 DEF Scanned
  <2> QED BY <1>2, <2>1, <2>2, <2>3, <2>4 DEF TurnsTo
<1>9. ASSUME taken' = 2, InConfiguration
      PROVE  master'.tx = NoFrame
  <2>1. p = gtwa /\ taken = 2
    BY <1>3, <1>9, <1>a
  <2>2. p.state = "IDLE" \/ p.state = "SWITCH_SEL"
    BY <1>2, <1>9, NamedCommands
  <2>3. CASE StaysIdle(p, m)
    <3>1. master' = m /\ m.tx = NoFrame
      BY <1>2, <2>3 DEF StaysIdle
    <3> QED BY <3>1
  <2>4. CASE StillWaits(p, m, late)
    BY <1>2, <2>4 DEF StillWaits, Kept
  <2>5. CASE Starts(p, m, late)
    <3>1. p.state = "SWITCH_SEL" /\ m.command = "WAITING"
      BY <2>2, <2>5 DEF Starts, Commanding
    <3>2. master.command = "SWITCH_STATE" /\ m.command = master.command
      BY <2>1, <3>1 DEF Session, Commanded, Fed
    <3> QED BY <3>1, <3>2
  <2>6. CASE IsStored(p, m) \/ IsGlobal(p)
    BY <2>2, <2>6 DEF IsStored, IsGlobal
  <2>7. CASE IsOver(p, m, late)
    BY <1>2, <2>7 DEF IsOver, Freed
  <2> QED BY <1>2, <2>3, <2>4, <2>5, <2>6, <2>7 DEF TurnsTo
<1>10. ASSUME taken' \in {2, 3}, InConfiguration
       PROVE  gtwa'.address = identity
  <2>1. CASE p = gtwa /\ taken' = taken
    <3>1. gtwa.address = identity
      BY <1>10, <2>1 DEF Selected
    <3> QED BY <1>1, <2>1, <3>1
  <2>2. CASE Begun(p)
    <3>1. taken' = 3
      BY <1>10, <1>a, <2>2
    <3>2. taken = 2
      BY <1>4, <1>5, <2>2, <3>1
    <3>3. gtwa.address = identity /\ gtwa.address = clients[client].address
      BY <1>6, <1>10, <3>2 DEF Selected
    <3> QED BY <1>1, <1>4, <2>2, <3>3
  <2> QED BY <1>3, <2>1, <2>2
<1>11. ASSUME clients'[client].step = 3, clients'[client].reply # NoReply,
              clients'[client].reply.code = "OK"
       PROVE  clients'[client].address = identity
  <2>1. CASE clients' = clients
    BY <1>1, <1>11, <2>1 DEF Selected
  <2>2. CASE clients' # clients
    <3>1. p.state # "IDLE" /\ taken' = 3
      BY <1>1, <1>11, <2>2, TurnReplies
    <3>2. p.state = "INQUIRE"
      BY <1>2, <3>1, NamedCommands
    <3>3. m.command = "INQUIRE" /\ m.rx.cs = "INQUIRE"
      <4>1. \/ IsGlobal(p)
            \/ IsStored(p, m)
            \/ \E code \in Codes :
                 /\ clients'[client].reply.code = code
                 /\ code = "OK" /\ p.state = "INQUIRE" => m.command = "INQUIRE"
                    /\ m.rx.cs = "INQUIRE"
        BY <2>2, TurnReplies
      <4>2. ~ IsGlobal(p) /\ ~ IsStored(p, m)
        BY <3>2 DEF IsGlobal, IsStored
      <4> QED BY <1>11, <3>2, <4>1, <4>2
    <3>4. m.rx # NoAnswer
      BY <3>3 DEF NoAnswer
    <3>5. p = gtwa /\ canRx # <<>>
      BY <3>3, <3>4, TakenAnswer
    <3>6. taken = 3
      BY <1>3, <1>4, <3>1, <3>3
    <3>7. gtwa.address = identity
      BY <3>5, <3>6 DEF Selected
    <3> QED BY <1>1, <1>6, <3>6, <3>7
  <2> QED BY <2>1, <2>2
<1>12. canRx' = <<>> /\ identity' = identity /\ (InConfiguration' <=> InConfiguration)
  BY <1>2
<1> QED BY <1>1, <1>7, <1>8, <1>9, <1>10, <1>11, <1>12 DEF Selected

----------------------------------------------------------------------------
(* Frames, and the steps of the node *)

\* What a frame does to a node that is clear: only one that is selected, or answers, is busy then.
LEMMA FrameHeard ==
  ASSUME Session, Node, Pipe, FrameArrives
  PROVE  /\ master.tx # NoFrame /\ master.tx.cs \in FrameKinds
         /\ master'.tx = NoFrame /\ UNCHANGED <<master.command, master.rx>>
         /\ UNCHANGED <<clients, backlog, client, taken, armed, gtwa, canRx>>
         /\ UNCHANGED <<s_lss_pending_node_id, storage, up, identity>>
         /\ canRx = <<>> /\ ~ Answering
         /\ master.tx.cs # "DESELECT" =>
              master.rx = NoAnswer /\ master.command = Command(master.tx.cs)
         /\ \/ lss' = lss /\ ~ InConfiguration
            \/ /\ master.tx.cs = "DESELECT" /\ ~ InConfiguration' /\ ~ Answering'
            \/ /\ InConfiguration /\ InConfiguration' /\ master.tx.cs # "DESELECT"
               /\ lss'.service = SlaveService(master.tx.cs) /\ lss'.nid = master.tx.value
            \/ /\ ~ InConfiguration /\ InConfiguration' /\ lss'.service = "SWITCH_STATE_SEL_SERIAL"
               /\ master.tx.cs = "SELECT" /\ master.tx.value = identity /\ up
            \/ /\ ~ InConfiguration /\ lss'.service = "IDENT_FASTSCAN" /\ up
               /\ master.tx.cs \in {"CHECK", "SCAN", "VERIFY"}
<1>1. /\ master.tx # NoFrame /\ master.tx \in Frames /\ master.tx.cs \in FrameKinds
      /\ master'.tx = NoFrame /\ UNCHANGED <<master.command, master.rx>>
      /\ UNCHANGED <<clients, backlog, client, taken, armed, gtwa, canRx>>
      /\ UNCHANGED <<s_lss_pending_node_id, storage, up, identity>>
      /\ \/ lss' = lss /\ ~ Concerned(master.tx)
         \/ Concerned(master.tx) /\ Hear(master.tx)
  BY FrameSteps DEF Session, DaemonTypes, Masters, Frames
<1>2. canRx = <<>> /\ ~ Answering
  BY <1>1 DEF Pipe, Clear
<1>3. master.tx.cs # "DESELECT" => master.rx = NoAnswer /\ master.command = Command(master.tx.cs)
  BY <1>1 DEF Session, Commanded, FrameKinds
<1>4. lss \in Slaves /\ up \in BOOLEAN /\ Slave
  BY DEF Node, NodeTypes
<1>5. CASE lss' = lss /\ ~ Concerned(master.tx)
  <2>1. ~ InConfiguration
    <3>1. SUFFICES ASSUME up, lss.lssState = "CONFIGURATION"
                   PROVE  FALSE
      BY DEF InConfiguration
    <3>2. ~ Listens
      BY <1>5, <3>1 DEF Concerned
    <3>3. lss.service = "SWITCH_STATE_GLOBAL"
      BY <1>2, <3>1, <3>2 DEF Listens, Answering
    <3> QED BY <1>4, <3>1, <3>3 DEF Slave
  <2> QED BY <1>1, <1>2, <1>3, <1>5, <2>1
<1>6. CASE Concerned(master.tx) /\ Hear(master.tx)
  <2>1. up /\ Listens /\ (\/ master.tx.cs = "DESELECT" \/ lss.lssState = "CONFIGURATION"
                          \/ master.tx.cs = "SELECT" /\ master.tx.value = identity
                          \/ master.tx.cs \in {"CHECK", "SCAN", "VERIFY"})
    BY <1>6 DEF Concerned, FastscanAnswered
  <2>2. \/ /\ master.tx.cs = "DESELECT" /\ lss'.lssState = "WAITING"
           /\ lss'.service \in {"none", "SWITCH_STATE_GLOBAL"}
        \/ /\ master.tx.cs # "DESELECT" /\ lss.lssState = "CONFIGURATION"
           /\ lss'.lssState = "CONFIGURATION"
           /\ lss'.service = SlaveService(master.tx.cs) /\ lss'.nid = master.tx.value
        \/ /\ master.tx.cs = "SELECT" /\ lss.lssState = "WAITING"
           /\ lss'.lssState = "CONFIGURATION" /\ lss'.service = "SWITCH_STATE_SEL_SERIAL"
        \/ /\ master.tx.cs \notin {"DESELECT", "SELECT"} /\ lss.lssState = "WAITING"
           /\ lss'.service = "IDENT_FASTSCAN"
    BY <1>1, <1>6, <2>1, HearFields
  <2>3. CASE /\ master.tx.cs = "DESELECT" /\ lss'.lssState = "WAITING"
             /\ lss'.service \in {"none", "SWITCH_STATE_GLOBAL"}
    <3>1. ~ InConfiguration' /\ ~ Answering'
      BY <2>3 DEF InConfiguration, Answering
    <3> QED BY <1>1, <1>2, <1>3, <2>3, <3>1
  <2>4. CASE /\ master.tx.cs # "DESELECT" /\ lss.lssState = "CONFIGURATION"
             /\ lss'.lssState = "CONFIGURATION"
             /\ lss'.service = SlaveService(master.tx.cs) /\ lss'.nid = master.tx.value
    <3>1. InConfiguration /\ InConfiguration'
      BY <1>1, <2>1, <2>4 DEF InConfiguration
    <3> QED BY <1>1, <1>2, <1>3, <2>4, <3>1
  <2>5. CASE /\ master.tx.cs = "SELECT" /\ lss.lssState = "WAITING"
             /\ lss'.lssState = "CONFIGURATION" /\ lss'.service = "SWITCH_STATE_SEL_SERIAL"
    <3>1. ~ InConfiguration /\ InConfiguration' /\ master.tx.value = identity
      BY <1>1, <2>1, <2>5 DEF InConfiguration
    <3> QED BY <1>1, <1>2, <1>3, <2>1, <2>5, <3>1
  <2>6. CASE /\ master.tx.cs \notin {"DESELECT", "SELECT"} /\ lss.lssState = "WAITING"
             /\ lss'.service = "IDENT_FASTSCAN"
    <3>1. ~ InConfiguration /\ master.tx.cs \in {"CHECK", "SCAN", "VERIFY"}
      BY <2>1, <2>6 DEF InConfiguration
    <3> QED BY <1>1, <1>2, <1>3, <2>1, <2>6, <3>1
  <2> QED BY <2>2, <2>3, <2>4, <2>5, <2>6
<1> QED BY <1>1, <1>5, <1>6

LEMMA SameService ==
  ASSUME NEW cs \in FrameKinds \ {"DESELECT"}
  PROVE  Service(SlaveService(cs)) = Command(cs)
BY DEF FrameKinds, Service, SlaveService, Command

LEMMA FrameLink ==
  ASSUME Session, Node, Link, FrameArrives
  PROVE  Link'
<1>0. Pipe /\ Configured /\ Scanned
  BY DEF Link
<1> DEFINE frame == master.tx
<1>1. /\ frame # NoFrame /\ frame.cs \in FrameKinds
      /\ master'.tx = NoFrame /\ master'.command = master.command /\ master'.rx = master.rx
      /\ UNCHANGED <<gtwa, canRx, s_lss_pending_node_id, storage, up>>
      /\ canRx = <<>> /\ ~ Answering
      /\ frame.cs # "DESELECT" => master.rx = NoAnswer /\ master.command = Command(frame.cs)
  BY <1>0, FrameHeard
<1>2. canRx' = <<>>
  BY <1>1
<1>3. CASE lss' = lss /\ ~ InConfiguration
  <2>1. ~ Answering' /\ ~ InConfiguration'
    BY <1>1, <1>3 DEF Answering, InConfiguration
  <2> QED BY <1>0, <1>1, <1>2, <2>1 DEF Link, Pipe, Clear, Configured, Scanned
<1>4. CASE frame.cs = "DESELECT" /\ ~ InConfiguration' /\ ~ Answering'
  BY <1>0, <1>1, <1>2, <1>4 DEF Link, Pipe, Clear, Configured, Scanned
<1>5. CASE frame.cs # "DESELECT" /\ lss'.service = SlaveService(frame.cs) /\ lss'.nid = frame.value
           /\ InConfiguration /\ InConfiguration'
  <2>1. Service(SlaveService(frame.cs)) = master.command
    BY <1>1, <1>5, SameService
  <2>2. SlaveService(frame.cs) \notin {"none", "SWITCH_STATE_GLOBAL"} /\ master.command # "WAITING"
    BY <1>1, <1>5 DEF SlaveService, Command, FrameKinds
  <2>3. Answering'
    BY <1>5, <2>2 DEF Answering, InConfiguration
  <2>4. Pipe'
    BY <1>0, <1>1, <1>2, <1>5, <2>1, <2>2 DEF Pipe
  <2>5. Configured'
    <3>1. master.command = "CFG_NODE_ID" => frame.cs = "CFG_NODE_ID"
      BY <1>1, <1>5 DEF Command, FrameKinds
    <3>2. frame.cs = "CFG_NODE_ID" => frame.value = gtwa.lssNID
      BY DEF Session, Commanded
    <3> QED BY <1>0, <1>1, <1>2, <1>5, <3>1, <3>2 DEF Configured
  <2>6. Scanned'
    BY <2>3 DEF Scanned, Clear
  <2> QED BY <2>4, <2>5, <2>6 DEF Link
<1>6. CASE /\ ~ InConfiguration /\ up
           /\ \/ lss'.service = "SWITCH_STATE_SEL_SERIAL" /\ frame.cs = "SELECT"
              \/ lss'.service = "IDENT_FASTSCAN" /\ frame.cs \in {"CHECK", "SCAN", "VERIFY"}
  <2>1. Service(lss'.service) = master.command /\ master.command \in {"SWITCH_STATE", "FASTSCAN"}
    BY <1>1, <1>6 DEF Service, Command
  <2>2. Answering'
    BY <1>1, <1>6 DEF Answering
  <2>3. Pipe'
    BY <1>0, <1>1, <1>2, <1>6, <2>1 DEF Pipe
  <2>4. Configured'
    BY <1>1, <2>1 DEF Configured
  <2>5. Scanned'
    BY <2>2 DEF Scanned, Clear
  <2> QED BY <2>3, <2>4, <2>5 DEF Link
<1> QED BY <1>0, <1>3, <1>4, <1>5, <1>6, FrameHeard

LEMMA FrameSelected ==
  ASSUME Session, Node, Pipe, Selected, FrameArrives
  PROVE  Selected'
<1>1. /\ UNCHANGED <<clients, client, taken, gtwa, canRx, identity>> /\ canRx = <<>>
      /\ master'.tx = NoFrame /\ master.tx # NoFrame /\ master.tx.cs \in FrameKinds
      /\ master.tx.cs # "DESELECT" => master.command = Command(master.tx.cs)
  BY FrameHeard
<1>2. SUFFICES ASSUME client # NoClient, Waiting(client)
               PROVE  Selected'
  BY <1>1 DEF Selected, Waiting
<1>3. \/ ~ InConfiguration'
      \/ InConfiguration /\ master.tx.cs # "DESELECT"
      \/ ~ InConfiguration /\ master.tx.cs \in {"SELECT", "CHECK", "SCAN", "VERIFY"}
         /\ (master.tx.cs = "SELECT" => master.tx.value = identity)
  <2>1. \/ lss' = lss /\ ~ InConfiguration
        \/ ~ InConfiguration'
        \/ InConfiguration /\ master.tx.cs # "DESELECT"
        \/ ~ InConfiguration /\ master.tx.cs \in {"SELECT", "CHECK", "SCAN", "VERIFY"}
           /\ (master.tx.cs = "SELECT" => master.tx.value = identity)
    BY FrameHeard
  <2>2. up' = up
    BY FrameHeard
  <2> QED BY <2>1, <2>2 DEF InConfiguration
<1>4. ASSUME taken = 1, gtwa.state = "IDLE", clients[client].reply.code = "OK"
      PROVE  ~ InConfiguration'
  <2>1. ~ InConfiguration \/ master.tx.cs = "DESELECT"
    BY <1>2, <1>4 DEF Selected
  <2>2. master.command = "WAITING"
    BY <1>4, IdleOrNoReply
  <2>3. master.tx.cs = "DESELECT"
    BY <1>1, <2>2 DEF Command, FrameKinds
  <2> QED BY <1>3, <2>3
<1>5. ASSUME taken \in {2, 3}, InConfiguration'
      PROVE  gtwa.address = identity
  <2>1. CASE InConfiguration
    BY <1>2, <1>5, <2>1 DEF Selected
  <2>2. CASE ~ InConfiguration
    <3>1. master.tx.cs \in {"SELECT", "CHECK", "SCAN", "VERIFY"}
          /\ (master.tx.cs = "SELECT" => master.tx.value = identity)
      BY <1>3, <1>5, <2>2
    <3>2. master.command \in {"SWITCH_STATE", "FASTSCAN"}
          /\ (master.command = "SWITCH_STATE" => master.tx.cs = "SELECT")
      BY <1>1, <3>1 DEF Command
    <3>3. gtwa.state \in {"SWITCH_SEL", "INQUIRE"}
      <4>1. gtwa.state # "IDLE"
        BY <3>2, IdleOrNoReply
      <4> QED BY <1>5, <4>1, NamedCommands DEF Session, Commanded
    <3>4. master.tx.cs = "SELECT"
      BY <3>2, <3>3 DEF Session, Commanded
    <3>5. master.tx.value = gtwa.address
      BY <3>4 DEF Session, Commanded
    <3> QED BY <3>1, <3>4, <3>5
  <2> QED BY <2>1, <2>2
<1> QED BY <1>1, <1>2, <1>4, <1>5 DEF Selected

LEMMA ReplyingLinks ==
  ASSUME Session, Node, Link, MainThread, Replying
  PROVE  Link'
<1>0. Pipe /\ Configured /\ Scanned
  BY DEF Link
<1>1. up /\ UNCHANGED <<gtwa, master, up, identity>>
  BY MainThreadSteps
<1>2. /\ lss'.service = "none" /\ lss'.lssState = lss.lssState
      /\ lss.service \in {"SWITCH_STATE_SEL_SERIAL", "IDENT_FASTSCAN", "INQUIRE", "CFG_NODE_ID", "CFG_STORE"}
  BY DEF Replying
<1>3. PICK answer \in NodeAnswers :
        /\ canRx' = Append(canRx, answer) /\ answer # NoAnswer
        /\ answer.cs = Service(lss.service)
        /\ lss.service # "CFG_NODE_ID" => UNCHANGED s_lss_pending_node_id
        /\ lss.service = "CFG_NODE_ID" /\ answer.code = "OK" => s_lss_pending_node_id' = lss.nid
        /\ lss.service = "CFG_STORE" /\ answer.code = "OK" =>
             storage' = PackLssConfiguration(s_lss_pending_node_id)
  BY DEF Replying
<1>4. Answering
  BY <1>1, <1>2 DEF Answering
<1>5. canRx = <<>> /\ master.rx = NoAnswer /\ Service(lss.service) = master.command
      /\ master.tx = NoFrame /\ master.command # "WAITING"
  BY <1>0, <1>4 DEF Pipe, Clear
<1>6. canRx' = <<answer>> /\ canRx' # <<>> /\ Len(canRx') = 1 /\ canRx'[1] = answer
  BY <1>3, <1>5
<1>7. ~ Answering' /\ (InConfiguration' <=> InConfiguration)
  BY <1>1, <1>2 DEF Answering, InConfiguration
<1>8. Pipe'
  BY <1>1, <1>3, <1>5, <1>6, <1>7 DEF Pipe
<1>9. Scanned'
  BY <1>6 DEF Scanned, Clear
<1>10. Configured'
  <2>1. master.command = "CFG_NODE_ID" => lss.service = "CFG_NODE_ID"
    BY <1>2, <1>5 DEF Service
  <2>2. master.command = "CFG_STORE" => lss.service = "CFG_STORE"
    BY <1>2, <1>5 DEF Service
  <2>3. lss.service = "CFG_STORE" => InConfiguration
    BY <1>1 DEF Node, Slave, InConfiguration
  <2> QED BY <1>0, <1>1, <1>3, <1>4, <1>6, <1>7, <2>1, <2>2, <2>3 DEF Configured
<1> QED BY <1>8, <1>9, <1>10 DEF Link

\* The steps of the node that send nothing leave it less in configuration than it was.
LEMMA SilentLinks ==
  ASSUME Session, Node, Link, UNCHANGED <<gtwa, master, canRx>>,
         UNCHANGED s_lss_pending_node_id \/ ~ InConfiguration',
         InConfiguration' => InConfiguration, ~ Answering',
         canRx # <<>> => storage' = storage, ~ Answering \/ ~ InConfiguration'
  PROVE  Link'
<1>0. Pipe /\ Configured /\ Scanned
  BY DEF Link
<1>1. Pipe'
  BY <1>0 DEF Pipe, Clear
<1>2. Configured'
  BY <1>0 DEF Configured
<1>3. Scanned'
  BY <1>0 DEF Scanned, Clear
<1> QED BY <1>1, <1>2, <1>3 DEF Link

LEMMA MainThreadLink ==
  ASSUME Session, Node, Link, MainThread
  PROVE  Link'
<1>0. Pipe /\ Configured /\ Scanned
  BY DEF Link
<1>1. up /\ UNCHANGED <<gtwa, master, up, identity>> /\ (Replying \/ Resetting \/ Storing)
  BY MainThreadSteps
<1>2. CASE Resetting
  <2>1. lss.service = "SWITCH_STATE_GLOBAL" /\ lss'.service = "none" /\ lss'.lssState = lss.lssState
        /\ UNCHANGED <<s_lss_pending_node_id, storage, canRx>>
    BY <1>2 DEF Resetting
  <2>2. ~ Answering /\ ~ Answering' /\ (InConfiguration' => InConfiguration)
    BY <1>1, <2>1 DEF Answering, InConfiguration
  <2> QED BY <1>1, <2>1, <2>2, SilentLinks
<1>3. CASE Storing
  <2>1. lss.service = "CFG_STORE" /\ UNCHANGED <<lss, s_lss_pending_node_id, canRx>>
    BY <1>3 DEF Storing
  <2>2. Answering /\ Answering' /\ (InConfiguration' <=> InConfiguration)
    BY <1>1, <2>1 DEF Answering, InConfiguration
  <2>3. canRx = <<>> /\ canRx' = <<>>
    BY <1>0, <2>1, <2>2 DEF Pipe
  <2>4. Pipe'
    BY <1>0, <1>1, <2>1, <2>2, <2>3 DEF Pipe, Clear
  <2>5. Configured'
    BY <1>0, <1>1, <2>1, <2>2, <2>3 DEF Configured
  <2>6. Scanned'
    BY <2>2 DEF Scanned, Clear
  <2> QED BY <2>4, <2>5, <2>6 DEF Link
<1> QED BY <1>1, <1>2, <1>3, ReplyingLinks

LEMMA RestLink ==
  ASSUME Session, Node, Link, ResetCommunication \/ PowerFails \/ Restart
  PROVE  Link'
<1>0. Pipe
  BY DEF Link
<1>1. UNCHANGED <<gtwa, master, canRx>>
  BY OtherNodeSteps
<1>2. ~ Answering' /\ ~ InConfiguration'
  <2>1. CASE ResetCommunication
    BY <2>1 DEF ResetCommunication, CO_LSSslave_init, Answering, InConfiguration
  <2>2. CASE PowerFails
    BY <2>2 DEF PowerFails, Answering, InConfiguration
  <2>3. CASE Restart
    BY <2>3 DEF Restart, StartLss, CO_LSSslave_init, Answering, InConfiguration
  <2> QED BY <2>1, <2>2, <2>3
<1>3. canRx # <<>> => storage' = storage
  <2>1. CASE ResetCommunication \/ Restart
    BY <2>1 DEF ResetCommunication, Restart, StartLss
  <2>2. CASE PowerFails
    <3>1. SUFFICES ASSUME canRx # <<>> PROVE storage' = storage
      OBVIOUS
    <3>2. ~ Answering /\ up
      BY <1>0, <2>2, <3>1 DEF Pipe, PowerFails
    <3>3. mainThread.at \notin {"erasing", "programming"}
      BY <3>2 DEF Node, Slave, Answering
    <3>4. storage' \in StorageLeft
      BY <2>2 DEF PowerFails
    <3>5. StorageLeft = {storage}
      BY <3>3 DEF StorageLeft
    <3> QED BY <3>4, <3>5
  <2> QED BY <2>1, <2>2
<1> QED BY <1>1, <1>2, <1>3, SilentLinks

LEMMA NodeSelected ==
  ASSUME Session, Node, Pipe, Selected, MainThread \/ ResetCommunication \/ PowerFails \/ Restart
  PROVE  Selected'
<1>1. UNCHANGED <<clients, client, taken, gtwa, master, identity>>
  BY MainThreadSteps, OtherNodeSteps
<1>2. InConfiguration' => InConfiguration
  <2>1. CASE MainThread
    <3>1. up /\ UNCHANGED up /\ (Replying \/ Resetting \/ Storing)
      BY <2>1, MainThreadSteps
    <3>2. lss'.lssState = lss.lssState
      BY <3>1 DEF Replying, Resetting, Storing
    <3> QED BY <3>1, <3>2 DEF InConfiguration
  <2>2. CASE ResetCommunication
    BY <2>2 DEF ResetCommunication, CO_LSSslave_init, InConfiguration
  <2>3. CASE PowerFails
    BY <2>3 DEF PowerFails, InConfiguration
  <2>4. CASE Restart
    BY <2>4 DEF Restart, StartLss, CO_LSSslave_init, InConfiguration
  <2> QED BY <2>1, <2>2, <2>3, <2>4
<1>3. ASSUME client # NoClient, Waiting(client), taken = 3, canRx' # <<>>, canRx = <<>>
      PROVE  gtwa.address = identity
  <2>1. MainThread
    BY <1>3, OtherNodeSteps
  <2>2. up /\ Replying
    BY <1>3, <2>1, MainThreadSteps DEF Resetting, Storing
  <2>3. Answering
    BY <2>2 DEF Replying, Answering
  <2>4. Service(lss.service) = master.command /\ master.command # "WAITING"
    BY <2>3 DEF Pipe, Clear
  <2>5. gtwa.state # "IDLE"
    BY <2>4, IdleOrNoReply
  <2>6. master.command = "INQUIRE"
    BY <1>3, <2>5, NamedCommands DEF Session, Commanded
  <2>7. lss.service = "INQUIRE"
    BY <2>2, <2>4, <2>6 DEF Service, Replying
  <2>8. InConfiguration
    BY <2>2, <2>7 DEF Node, Slave, InConfiguration
  <2> QED BY <1>3, <2>8 DEF Selected
<1> QED BY <1>1, <1>2, <1>3 DEF Selected, Waiting

----------------------------------------------------------------------------
(* Every step keeps it *)

\* The invariant with one updater at a time.
Updating == InOrder /\ (Free \/ Link) /\ Selected /\ QueriedIsAddressed

LEMMA IdleStays ==
  ASSUME Session, client = NoClient, NEW p, NEW m, NEW late \in BOOLEAN, Turning(p, m, late)
  PROVE  UNCHANGED <<gtwa, clients, taken>>
<1>1. p.state = "IDLE" /\ p = gtwa /\ TurnsTo(p, m, late) /\ taken' = taken
  BY DEF Turning
<1> QED BY <1>1 DEF TurnsTo, StaysIdle, StillWaits, Starts, Commanding, IsStored, IsOver, IsGlobal

LEMMA FreeGateway ==
  ASSUME Session, Free, Gateway
  PROVE  UNCHANGED <<gtwa, clients, backlog, client, taken>>
<1>1. client = NoClient /\ backlog = <<>>
  BY DEF Free
<1>2. CASE CO_LSSmaster_receive
  BY <1>1, <1>2, IdleStays, ReceiveTurns
<1>3. ASSUME NEW late \in BOOLEAN, TimerExpires(late)
      PROVE  UNCHANGED <<gtwa, clients, backlog, client, taken>>
  BY <1>1, <1>3, IdleStays, TimerTurns
<1>4. ~ AcceptsClient /\ ~ ReadsCommand /\ ~ ClientCloses
  BY <1>1, AcceptChangesNothing, ReadTurns, CloseEnds DEF Begun
<1>5. TimerExpires(FALSE) => UNCHANGED <<gtwa, clients, backlog, client, taken>>
  BY <1>3
<1>6. TimerExpires(TRUE) => UNCHANGED <<gtwa, clients, backlog, client, taken>>
  BY <1>3
<1> QED BY <1>2, <1>4, <1>5, <1>6, GatewaySteps

LEMMA LinkKept ==
  ASSUME Link, UNCHANGED <<gtwa, master, canRx>>, UNCHANGED nodeVars
  PROVE  Link'
<1>1. UNCHANGED <<lss, up, s_lss_pending_node_id, storage>>
  BY DEF nodeVars, lssVars
<1>2. (Clear' <=> Clear) /\ (Answering' <=> Answering) /\ (InConfiguration' <=> InConfiguration)
  BY <1>1 DEF Clear, Answering, InConfiguration
<1> QED BY <1>1, <1>2 DEF Link, Pipe, Configured, Scanned

LEMMA UpdatingKept ==
  ASSUME Updating, UNCHANGED <<clients, backlog, client, taken, gtwa, master, canRx>>,
         UNCHANGED nodeVars
  PROVE  Updating'
<1>1. Link => Link'
  BY LinkKept
<1>2. identity' = identity /\ (InConfiguration' <=> InConfiguration)
  BY DEF nodeVars, lssVars, InConfiguration
<1> QED BY <1>1, <1>2 DEF Updating, InOrder, Free, Selected, QueriedIsAddressed, Waiting

LEMMA AcceptUpdates ==
  ASSUME Session, Updating, AcceptsClient, UNCHANGED nodeVars
  PROVE  Updating'
<1>1. /\ backlog # <<>> /\ client = NoClient /\ taken = 0
      /\ client' = Head(backlog) /\ backlog' = Tail(backlog)
      /\ UNCHANGED <<gtwa, master, clients, taken, canRx>>
  BY AcceptChangesNothing
<1>2. backlog \in Seq(Clients) /\ clients \in [Clients -> Requests]
  BY DEF Session, DaemonTypes
<1>3. /\ client' \in Clients /\ backlog' \in Seq(Clients) /\ Len(backlog) \in Nat \ {0}
      /\ Len(backlog') = Len(backlog) - 1 /\ client' = backlog[1]
      /\ \A i \in 1 .. Len(backlog') : backlog'[i] = backlog[i + 1]
  BY <1>1, <1>2, HeadTailProperties, EmptySeq
<1>4. DOMAIN backlog = 1 .. Len(backlog) /\ DOMAIN backlog' = 1 .. Len(backlog')
  BY <1>2, <1>3
<1>5. \A i, j \in DOMAIN backlog : i < j => ~ Waiting(backlog[i])
  BY DEF Updating, InOrder
<1>6. \A i, j \in DOMAIN backlog' : i < j => ~ (Waiting(backlog[i]))'
  <2>1. ASSUME NEW i \in DOMAIN backlog', NEW j \in DOMAIN backlog', i < j
        PROVE  ~ (Waiting(backlog[i]))'
    <3>1. i + 1 \in DOMAIN backlog /\ j + 1 \in DOMAIN backlog /\ i + 1 < j + 1
      BY <1>3, <1>4, <2>1
    <3>2. ~ Waiting(backlog[i + 1]) /\ backlog'[i] = backlog[i + 1]
      BY <1>3, <1>4, <1>5, <3>1
    <3> QED BY <1>1, <3>2 DEF Waiting
  <2> QED BY <2>1
<1>7. (Waiting(client))' => backlog' = <<>>
  <2>1. SUFFICES ASSUME Waiting(backlog[1]) PROVE backlog' = <<>>
    BY <1>1, <1>3 DEF Waiting
  <2>2. Len(backlog) = 1
    <3>1. SUFFICES ASSUME Len(backlog) # 1 PROVE FALSE
      OBVIOUS
    <3>2. 1 \in DOMAIN backlog /\ 2 \in DOMAIN backlog
      BY <1>3, <1>4, <3>1
    <3> QED BY <1>5, <2>1, <3>2
  <2>3. Len(backlog') = 0
    BY <1>3, <2>2
  <2> QED BY <1>3, <2>3, EmptySeq
<1>8. InOrder'
  BY <1>1, <1>6, <1>7 DEF InOrder
<1>9. Link'
  <2>1. Link
    BY <1>1 DEF Updating, Free
  <2> QED BY <1>1, <2>1, LinkKept
<1>10. Selected'
  <2>1. Listed(client')
    BY <1>3, <1>4 DEF Listed
  <2>2. clients[client'].step \in {0, 1}
    BY <1>3, <2>1 DEF Session, Queue
  <2> QED BY <1>1, <2>2 DEF Selected
<1>11. QueriedIsAddressed'
  <2>1. identity' = identity
    BY DEF nodeVars
  <2> QED BY <1>1, <2>1 DEF Updating, QueriedIsAddressed
<1> QED BY <1>8, <1>9, <1>10, <1>11 DEF Updating

LEMMA CloseUpdates ==
  ASSUME Session, Updating, ClientCloses, UNCHANGED nodeVars
  PROVE  Updating'
<1>1. /\ client # NoClient /\ ~ Waiting(client) /\ client' = NoClient /\ taken' = 0
      /\ gtwa' = IdleGtwa /\ Deselects([m |-> master'])
      /\ UNCHANGED <<clients, backlog, canRx>>
  BY CloseEnds
<1>2. UNCHANGED <<lss, up, identity>>
  BY DEF nodeVars, lssVars
<1>3. InOrder'
  BY <1>1 DEF Updating, InOrder, Waiting
<1>4. Selected'
  BY <1>1 DEF Selected
<1>5. QueriedIsAddressed'
  BY <1>1, <1>2 DEF Updating, QueriedIsAddressed
<1>6. CASE backlog = <<>>
  <2>1. Free'
    BY <1>1, <1>6 DEF Free
  <2> QED BY <1>3, <1>4, <1>5, <2>1 DEF Updating
<1>7. CASE backlog # <<>>
  <2>1. taken = 0
    BY <1>7 DEF Updating, InOrder
  <2>2. master.command = "WAITING"
    BY <2>1, IdleOrNoReply DEF Session, ServesOwn
  <2>3. Clear
    BY <1>7, <2>2 DEF Updating, Free, Link, Pipe
  <2>4. Clear' /\ ~ Answering' /\ canRx' = <<>>
    BY <1>1, <1>2, <2>3 DEF Clear, Answering
  <2>5. master'.command = "WAITING" /\ master'.rx = NoAnswer
    BY <1>1 DEF Deselects
  <2>6. Link'
    BY <2>4, <2>5 DEF Link, Pipe, Configured, Scanned
  <2> QED BY <1>3, <1>4, <1>5, <2>6 DEF Updating
<1> QED BY <1>6, <1>7

LEMMA FedUpdates ==
  ASSUME Session, Updating, Link, NEW p, NEW m, NEW late \in BOOLEAN, Fed(p, m, late)
  PROVE  Updating'
<1>1. Pipe /\ Configured /\ Scanned /\ InOrder /\ Selected /\ QueriedIsAddressed
  BY DEF Updating, Link
<1>2. Link'
  BY <1>1, TurnPipe, TurnConfigured, TurnScanned DEF Link
<1>3. InOrder' /\ Selected'
  BY <1>1, TurnInOrder, TurnSelected
<1>4. QueriedIsAddressed'
  <2>1. \A c \in Clients : clients'[c].id = clients[c].id
        /\ clients'[c].address = clients[c].address
    BY TurnTypes DEF Fed
  <2>2. identity' = identity
    BY FedTurn
  <2> QED BY <1>1, <2>1, <2>2 DEF QueriedIsAddressed
<1> QED BY <1>2, <1>3, <1>4 DEF Updating

LEMMA GatewayUpdates ==
  ASSUME Session, Node, Updating, Gateway
  PROVE  Updating'
<1>1. UNCHANGED nodeVars
  BY GatewaySteps
<1>2. CASE Free
  <2>1. UNCHANGED <<gtwa, clients, backlog, client, taken>> /\ identity' = identity
        /\ client = NoClient /\ backlog = <<>>
    BY <1>1, <1>2, FreeGateway DEF Free, nodeVars
  <2> QED BY <2>1 DEF Updating, InOrder, Free, Selected, QueriedIsAddressed, Waiting
<1>3. CASE Link
  <2>1. \/ UNCHANGED <<clients, backlog, client, taken, armed, gtwa, master, canRx>>
        \/ AcceptsClient \/ ClientCloses
        \/ \E p \in Interpreters, m \in Masters, late \in BOOLEAN : Fed(p, m, late)
    BY <1>3, GatewayFeeds DEF Link
  <2> QED BY <1>1, <1>3, <2>1, UpdatingKept, AcceptUpdates, CloseUpdates, FedUpdates
<1> QED BY <1>2, <1>3 DEF Updating

LEMMA ReadUpdates ==
  ASSUME Session, Updating, NEW c \in Clients, read_gateway_reply(c), UNCHANGED nodeVars
  PROVE  Updating'
<1>1. /\ Waiting(c) /\ clients[c].reply # NoReply
      /\ UNCHANGED <<backlog, client, taken, armed, gtwa, master, canRx>>
  BY DEF read_gateway_reply, daemonVars
<1>2. client = c /\ clients[c].step = taken
  BY <1>1, HeldIsWaiting
<1>3. clients \in [Clients -> Requests] /\ client # NoClient /\ identity' = identity
  BY <1>2, Constants DEF Session, DaemonTypes, nodeVars
<1> DEFINE next == [clients[c] EXCEPT !.step = clients[c].step + 1, !.reply = NoReply,
                      !.id = IF clients[c].step = 3 THEN clients[c].reply.id ELSE clients[c].id]
<1>4. \/ clients' = [clients EXCEPT ![c] = Away]
      \/ ReplyFits(c) /\ clients' = [clients EXCEPT ![c] = next]
  <2> DEFINE over == ~ ReplyFits(c) \/ clients[c].step = Len(Commands)
             chosen == IF over THEN Away ELSE next
  <2>1. clients' = [clients EXCEPT ![c] = chosen]
    BY Zenon DEF read_gateway_reply
  <2> HIDE DEF next
  <2>2. (over /\ chosen = Away) \/ (~ over /\ chosen = next)
    OBVIOUS
  <2> HIDE DEF chosen
  <2> QED BY <2>1, <2>2
<1>5. /\ next.reply = NoReply /\ next.address = clients[c].address
      /\ next.id = IF clients[c].step = 3 THEN clients[c].reply.id ELSE clients[c].id
  BY <1>3 DEF Requests
<1>6. Away.step = 0 /\ Away.id = 0
  BY DEF Away
<1> HIDE DEF next
<1>7. /\ \A d \in Clients : d # c => clients'[d] = clients[d]
      /\ \/ clients'[c] = Away
         \/ ReplyFits(c) /\ clients'[c] = next
  BY <1>3, <1>4
<1>8. \A d \in Clients : (Waiting(d))' => Waiting(d)
  BY <1>1, <1>7 DEF Waiting
<1>9. InOrder'
  <2>1. \A i \in DOMAIN backlog : backlog[i] \in Clients
    BY ElementOfSeq DEF Session, DaemonTypes
  <2> QED BY <1>1, <1>2, <1>8, <2>1 DEF Updating, InOrder
<1>10. Free' \/ Link'
  BY <1>1, LinkKept DEF Updating, Free
<1>11. InConfiguration' <=> InConfiguration
  BY DEF InConfiguration, nodeVars, lssVars
<1>12. NoReply.code = "OK"
  BY DEF NoReply
<1>13. Selected'
  <2>1. CASE clients'[c] = Away
    BY <1>1, <1>2, <1>6, <2>1 DEF Selected, Waiting
  <2>2. CASE ReplyFits(c) /\ clients'[c] = next
    <3>1. clients[c].reply.code = "OK"
      BY <2>2 DEF ReplyFits
    <3> QED BY <1>1, <1>2, <1>3, <1>5, <1>11, <1>12, <2>2, <3>1 DEF Updating, Selected
  <2> QED BY <1>7, <2>1, <2>2
<1>14. QueriedIsAddressed'
  <2>1. ASSUME NEW d \in Clients, clients'[d].id # 0
        PROVE  clients'[d].address = identity
    <3>1. CASE d # c
      BY <1>7, <2>1, <3>1 DEF Updating, QueriedIsAddressed
    <3>2. CASE d = c
      <4>1. ReplyFits(c) /\ clients'[c] = next
        BY <1>6, <1>7, <2>1, <3>2
      <4>2. CASE clients[c].step = 3
        BY <1>1, <1>2, <1>3, <1>5, <3>2, <4>1, <4>2 DEF Updating, Selected, ReplyFits
      <4>3. CASE clients[c].step # 3
        BY <1>5, <2>1, <3>2, <4>1, <4>3 DEF Updating, QueriedIsAddressed
      <4> QED BY <4>2, <4>3
    <3> QED BY <3>1, <3>2
  <2> QED BY <1>3, <2>1 DEF QueriedIsAddressed
<1> QED BY <1>9, <1>10, <1>13, <1>14 DEF Updating

LEMMA DeathUpdates ==
  ASSUME Session, Updating, NEW c \in Clients, Dies(c), UNCHANGED nodeVars
  PROVE  Updating'
<1>1. /\ Waiting(c) /\ clients' = [clients EXCEPT ![c] = Away]
      /\ UNCHANGED <<backlog, client, taken, armed, gtwa, master, canRx>>
  BY DEF Dies, daemonVars
<1>2. clients \in [Clients -> Requests] /\ identity' = identity
      /\ client \in Clients \cup {NoClient} /\ \A i \in DOMAIN backlog : backlog[i] \in Clients
  BY ElementOfSeq DEF Session, DaemonTypes, nodeVars
<1>3. Away.step = 0 /\ Away.id = 0
  BY DEF Away
<1>4. \A d \in Clients : clients'[d] = IF d = c THEN Away ELSE clients[d]
  BY <1>1, <1>2
<1>5. \A d \in Clients : (Waiting(d))' => Waiting(d) /\ clients'[d] = clients[d]
  BY <1>3, <1>4 DEF Waiting
<1>6. InOrder'
  BY <1>1, <1>2, <1>5 DEF Updating, InOrder
<1>7. Free' \/ Link'
  BY <1>1, LinkKept DEF Updating, Free
<1>8. InConfiguration' <=> InConfiguration
  BY DEF InConfiguration, nodeVars, lssVars
<1>9. Selected'
  BY <1>1, <1>2, <1>5, <1>8 DEF Updating, Selected
<1>10. QueriedIsAddressed'
  BY <1>2, <1>3, <1>4 DEF Updating, QueriedIsAddressed
<1> QED BY <1>6, <1>7, <1>9, <1>10 DEF Updating

\* The only step that ends a pause.
LEMMA ConnectUpdates ==
  ASSUME Session, Node, Updating, BeforeIsOver, UNCHANGED nodeVars,
         NEW c \in Clients, NEW address \in Addresses, Connects(c, address)
  PROVE  Updating'
<1> DEFINE away == [[Away EXCEPT !.step = 1] EXCEPT !.address = address]
<1>1. /\ backlog' = Append(backlog, c)
      /\ clients' = [clients EXCEPT ![c] = away]
      /\ UNCHANGED <<client, taken, armed, gtwa, master, canRx>>
  BY DEF Connects
<1>2. /\ \A d \in Clients : ~ Waiting(d)
      /\ client = NoClient /\ master.tx = NoFrame /\ NodeQuiet
  BY DEF BeforeIsOver
<1>3. clients \in [Clients -> Requests] /\ backlog \in Seq(Clients) /\ identity' = identity
  BY DEF Session, DaemonTypes, nodeVars
<1>4. away.id = 0
  BY DEF Away
<1> HIDE DEF away
<1>5. \A d \in Clients : clients'[d] = IF d = c THEN away ELSE clients[d]
  BY <1>1, <1>3
<1>6. /\ Len(backlog) \in Nat /\ DOMAIN backlog = 1 .. Len(backlog)
      /\ DOMAIN backlog' = 1 .. Len(backlog) + 1
      /\ \A i \in 1 .. Len(backlog) : backlog'[i] = backlog[i]
      /\ \A i \in 1 .. Len(backlog) : backlog[i] \in Clients
  BY <1>1, <1>3, AppendProperties, ElementOfSeq
<1>7. taken = 0 /\ gtwa.state = "IDLE" /\ master.command = "WAITING" /\ master.rx = NoAnswer
  BY <1>2, IdleOrNoReply DEF Session, ServesOwn
<1>8. InOrder'
  <2>1. ASSUME NEW i \in DOMAIN backlog', NEW j \in DOMAIN backlog', i < j
        PROVE  ~ (Waiting(backlog[i]))'
    <3>1. i \in 1 .. Len(backlog)
      BY <1>6, <2>1
    <3>2. backlog'[i] = backlog[i] /\ backlog[i] \in Clients
      BY <1>6, <3>1
    <3>3. backlog[i] # c
      <4>1. i \in DOMAIN backlog
        BY <1>6, <3>1
      <4> QED BY <4>1 DEF Connects
    <3>4. clients'[backlog[i]] = clients[backlog[i]]
      BY <1>5, <3>2, <3>3
    <3> QED BY <1>2, <3>2, <3>4 DEF Waiting
  <2> QED BY <1>1, <1>2, <1>7, <2>1 DEF InOrder
<1>9. Link'
  <2>1. UNCHANGED <<lss, up>>
    BY DEF nodeVars, lssVars
  <2>2. Clear' /\ ~ Answering' /\ canRx' = <<>>
    BY <1>1, <1>2, <2>1, IsClear DEF Clear, Answering
  <2> QED BY <1>1, <1>7, <2>2 DEF Link, Pipe, Configured, Scanned
<1>10. Selected'
  BY <1>1, <1>2 DEF Selected
<1>11. QueriedIsAddressed'
  BY <1>3, <1>4, <1>5 DEF Updating, QueriedIsAddressed
<1> QED BY <1>8, <1>9, <1>10, <1>11 DEF Updating

LEMMA FreshUpdates ==
  clients = [c \in Clients |-> Away] /\ backlog = <<>> /\ client = NoClient /\ taken = 0
    => Updating
<1> SUFFICES ASSUME clients = [c \in Clients |-> Away], backlog = <<>>, client = NoClient, taken = 0
             PROVE  Updating
  OBVIOUS
<1>1. DOMAIN backlog = {}
  OBVIOUS
<1>2. InOrder
  BY <1>1, Zenon DEF InOrder
<1>3. QueriedIsAddressed
  <2>1. \A c \in Clients : clients[c] = Away
    OBVIOUS
  <2>2. Away.id = 0
    BY DEF Away
  <2> QED BY <2>1, <2>2 DEF QueriedIsAddressed
<1> QED BY <1>2, <1>3 DEF Updating, Free, Selected

LEMMA RestartUpdates == DaemonRestarts => Updating'
<1>1. (clients = [c \in Clients |-> Away] /\ backlog = <<>> /\ client = NoClient /\ taken = 0
         => Updating)'
  BY FreshUpdates, PTL
<1>2. DaemonRestarts =>
        (clients = [c \in Clients |-> Away] /\ backlog = <<>> /\ client = NoClient /\ taken = 0)'
  BY DEF DaemonRestarts
<1> QED BY <1>1, <1>2

LEMMA FrameUpdates ==
  ASSUME Session, Node, Updating, FrameArrives
  PROVE  Updating'
<1>1. CASE Free
  <2>1. UNCHANGED <<clients, backlog, client, taken, identity>>
    BY FrameSteps
  <2>2. client = NoClient /\ backlog = <<>>
    BY <1>1 DEF Free
  <2> QED BY <2>1, <2>2 DEF Updating, InOrder, Free, Selected, QueriedIsAddressed, Waiting
<1>2. CASE Link
  <2>1. Pipe /\ Selected
    BY <1>2 DEF Link, Updating
  <2>2. UNCHANGED <<clients, backlog, client, taken, identity>>
    BY FrameSteps
  <2>3. Link' /\ Selected'
    BY <1>2, <2>1, FrameLink, FrameSelected
  <2> QED BY <2>2, <2>3 DEF Updating, InOrder, QueriedIsAddressed, Waiting
<1> QED BY <1>1, <1>2 DEF Updating

LEMMA NodeUpdates ==
  ASSUME Session, Node, Updating, MainThread \/ ResetCommunication \/ PowerFails \/ Restart
  PROVE  Updating'
<1>1. UNCHANGED <<clients, backlog, client, taken, identity>>
  BY MainThreadSteps, OtherNodeSteps
<1>2. CASE Free
  <2>1. client = NoClient /\ backlog = <<>>
    BY <1>2 DEF Free
  <2> QED BY <1>1, <2>1 DEF Updating, InOrder, Free, Selected, QueriedIsAddressed, Waiting
<1>3. CASE Link
  <2>1. Pipe /\ Selected
    BY <1>3 DEF Link, Updating
  <2>2. Link' /\ Selected'
    BY <1>3, <2>1, MainThreadLink, RestLink, NodeSelected
  <2> QED BY <1>1, <2>2 DEF Updating, InOrder, QueriedIsAddressed, Waiting
<1> QED BY <1>2, <1>3 DEF Updating

LEMMA UpdatingNext ==
  ASSUME OneUpdater, Session, Node, Updating, [Next]_vars
  PROVE  Updating'
<1>1. CASE Gateway
  BY <1>1, GatewayUpdates
<1>2. CASE DaemonRestarts
  BY <1>2, RestartUpdates
<1>3. ASSUME NEW c \in Clients, UpdaterReads(c)
      PROVE  Updating'
  BY <1>3, ReadUpdates DEF UpdaterReads
<1>4. ASSUME NEW c \in Clients, UpdaterConnects(c), UNCHANGED nodeVars
      PROVE  Updating'
  <2>1. BeforeIsOver
    BY <1>4 DEF UpdaterConnects
  <2>2. PICK address \in Addresses : Connects(c, address)
    BY <1>4 DEF UpdaterConnects
  <2> QED BY <1>4, <2>1, <2>2, ConnectUpdates
<1>5. ASSUME NEW c \in Clients, Dies(c), UNCHANGED nodeVars
      PROVE  Updating'
  BY <1>5, DeathUpdates
<1>6. CASE FrameArrives
  BY <1>6, FrameUpdates
<1>7. CASE MainThread \/ ResetCommunication \/ PowerFails \/ Restart
  BY <1>7, NodeUpdates
<1>8. CASE UNCHANGED vars
  BY <1>8, UpdatingKept DEF vars, masterVars, daemonVars
<1> QED BY <1>1, <1>2, <1>3, <1>4, <1>5, <1>6, <1>7, <1>8 DEF Next

\* The step of AssignedIsStored.
Stored == gtwa'.assigned \notin {0, gtwa.assigned} => storage = PackLssConfiguration(gtwa'.assigned)

LEMMA GatewayStores ==
  ASSUME Session, Node, Updating, Gateway
  PROVE  Stored
<1>1. CASE Free
  <2>1. gtwa' = gtwa
    BY <1>1, FreeGateway
  <2> QED BY <2>1 DEF Stored
<1>2. CASE Link
  <2>1. Pipe /\ Configured
    BY <1>2 DEF Link
  <2>2. \/ UNCHANGED <<clients, backlog, client, taken, armed, gtwa, master, canRx>>
        \/ AcceptsClient \/ ClientCloses
        \/ \E p \in Interpreters, m \in Masters, late \in BOOLEAN : Fed(p, m, late)
    BY <2>1, GatewayFeeds
  <2>3. AcceptsClient => gtwa' = gtwa
    BY AcceptChangesNothing
  <2>4. ClientCloses => gtwa'.assigned = 0
    BY CloseEnds DEF IdleGtwa
  <2>5. ASSUME NEW p \in Interpreters, NEW m \in Masters, NEW late \in BOOLEAN, Fed(p, m, late)
        PROVE  Stored
    BY <2>1, <2>5, TurnAssigns DEF Stored
  <2> QED BY <2>2, <2>3, <2>4, <2>5 DEF Stored
<1> QED BY <1>1, <1>2 DEF Updating

LEMMA OthersStore ==
  ASSUME Session, Node, [Next]_vars, ~ Gateway
  PROVE  Stored
<1>1. CASE DaemonRestarts
  <2>1. gtwa'.assigned = 0
    BY <1>1 DEF DaemonRestarts, IdleGtwa
  <2> QED BY <2>1 DEF Stored
<1>2. ASSUME NEW c \in Clients, UpdaterReads(c) \/ UpdaterConnects(c) \/ Dies(c)
      PROVE  gtwa' = gtwa
  BY <1>2 DEF UpdaterReads, read_gateway_reply, UpdaterConnects, Connects, Dies, daemonVars
<1>3. CASE FrameArrives
  BY <1>3, FrameSteps DEF Stored
<1>4. CASE MainThread
  BY <1>4, MainThreadSteps DEF Stored
<1>5. CASE ResetCommunication \/ PowerFails \/ Restart
  BY <1>5, OtherNodeSteps DEF Stored
<1>6. CASE UNCHANGED vars
  BY <1>6 DEF Stored, vars, masterVars, daemonVars
<1> QED BY <1>1, <1>2, <1>3, <1>4, <1>5, <1>6 DEF Next, Stored

LEMMA UpdatingAlways == OneUpdater => (Spec => [](Session /\ Node /\ Updating))
<1> SUFFICES ASSUME OneUpdater PROVE Spec => [](Session /\ Node /\ Updating)
  OBVIOUS
<1>1. Init => Session /\ Node /\ Updating
  BY SessionInit, FreshUpdates DEF Init, InitMaster
<1>2. Session /\ Node /\ Updating /\ [Next]_vars => (Session /\ Node /\ Updating)'
  BY SessionNext, UpdatingNext
<1> QED BY <1>1, <1>2, PTL DEF Spec

\* The identifier a client is told is of the node its package names (lss_allnodes before
\* lss_switch_sel), when updaters come one at a time.
THEOREM QueriedAddressed == OneUpdater => (Spec => []QueriedIsAddressed)
<1> SUFFICES ASSUME OneUpdater PROVE Spec => []QueriedIsAddressed
  OBVIOUS
<1>1. Session /\ Node /\ Updating => QueriedIsAddressed
  BY DEF Updating
<1> QED BY <1>1, UpdatingAlways, PTL

\* The daemon reports an identifier as assigned only when the node has it in its flash
\* (lss_allnodes against CO_LSSslave_process), when updaters come one at a time.
THEOREM AssignedStored == OneUpdater => (Spec => AssignedIsStored)
<1> SUFFICES ASSUME OneUpdater PROVE Spec => AssignedIsStored
  OBVIOUS
<1>1. Session /\ Node /\ Updating /\ [Next]_vars =>
        [gtwa'.assigned \notin {0, gtwa.assigned}
           => storage = PackLssConfiguration(gtwa'.assigned)]_vars
  BY GatewayStores, OthersStore DEF Stored
<1> QED BY <1>1, UpdatingAlways, PTL DEF Spec, AssignedIsStored
==============================================================================
