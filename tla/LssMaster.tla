----------------------------- MODULE LssMaster -----------------------------
(***************************************************************************)
(* The gateway's side of LSS: the daemon LSS_gateway.c with its command    *)
(* interpreter (CO_gateway_ascii.c) and LSS master (CO_LSSmaster.c), and   *)
(* its clients, which ask for the identifier of a node the way             *)
(* request_target_node of mcu_updater.c does.                              *)
(*                                                                         *)
(* The address of a node is one bit: a fastscan checks, scans that bit and *)
(* verifies what it found.                                                 *)
(***************************************************************************)
EXTENDS Integers, Sequences

CONSTANTS
  Clients,    \* processes that query the gateway
  NoClient,
  FirstId,    \* the first identifier lss_allnodes gives, 2 in the product
  LastId      \* the last one, 127 in the product

ASSUME MasterConstants ==
  /\ NoClient \notin Clients
  /\ FirstId \in Nat /\ LastId \in Nat /\ FirstId <= LastId

VARIABLES
  clients,  \* per client: its request, and what its socket holds
  backlog,  \* connections that wait to be accepted
  client,   \* the connection the daemon serves
  taken,    \* how many of its commands were read
  armed,    \* the one-shot listener is armed
  gtwa,     \* the interpreter
  master,   \* the LSS master; tx is the frame on the bus
  canRx     \* what nodes answered, in the socket of the daemon

daemonVars == <<backlog, client, taken, armed, gtwa, master, canRx>>
masterVars == <<clients, daemonVars>>

----------------------------------------------------------------------------
(* Frames, answers and replies *)

NoFrame == [cs |-> "none", value |-> 0]
Frame(cs, value) == [cs |-> cs, value |-> value]

\* What a node answers: a service, and an error or an identifier.
NoAnswer == [cs |-> "none", code |-> "OK", id |-> 0]
Answer(cs, code, id) == [cs |-> cs, code |-> code, id |-> id]

\* A reply names its request; "owner" is the client that made it (history).
NoReply == [sequence |-> 0, owner |-> NoClient, code |-> "OK", id |-> 0]

\* A client: the command it waits for the reply to, the address in its package, and the identifier
\* it was told.
Away == [step |-> 0, address |-> 0, reply |-> NoReply, id |-> 0]
Waiting(c) == clients[c].step # 0

IdleMaster == [state |-> "WAITING", command |-> "WAITING", rx |-> NoAnswer,
               fsState |-> "CHECK", fsIdNumber |-> 0, tx |-> NoFrame]

\* "assigned" is the identifier reported last (0: none).
IdleGtwa == [state |-> "IDLE", lssSubState |-> 0, lssNID |-> FirstId, assigned |-> 0,
             address |-> 0, fifo |-> 0, sequence |-> 0, owner |-> NoClient, resp |-> NoReply]

InitMaster ==
  /\ clients = [c \in Clients |-> Away]
  /\ backlog = <<>> /\ canRx = <<>>
  /\ client = NoClient /\ taken = 0
  /\ armed = TRUE
  /\ gtwa = IdleGtwa /\ master = IdleMaster

----------------------------------------------------------------------------
(* The LSS master.  A function returns what it did and the master after;   *)
(* late says that the timeout of the service has passed.                   *)

Ret(ret, m) == [ret |-> ret, id |-> 0, m |-> m]

Initiate(m, state, command, frame) ==
  Ret("WAIT", [m EXCEPT !.state = state, !.command = command, !.rx = NoAnswer, !.tx = frame])

\* An answer to another service is dropped, and the wait goes on.
Answers(m, cs) == m.rx.cs = cs

\* The wait for a confirmation; one that is over leaves the master ready for the next command.
CheckWait(m, cs, late) ==
  LET heard == [m EXCEPT !.rx = NoAnswer]
      over  == [heard EXCEPT !.command = "WAITING"]
  IN  IF Answers(m, cs) THEN [ret |-> m.rx.code, id |-> m.rx.id, m |-> over]
      ELSE IF late THEN Ret("TIMEOUT", over) ELSE Ret("WAIT", heard)

Ready(m) == m.command = "WAITING"

\* A failed selection goes back to waiting.
CO_LSSmaster_swStateSelect(m, address, late) ==
  LET r == IF m.state = "WAITING" /\ Ready(m)
           THEN Initiate(m, "SELECTIVE", "SWITCH_STATE", Frame("SELECT", address))
           ELSE IF m.command = "SWITCH_STATE" THEN CheckWait(m, "SWITCH_STATE", late)
           ELSE Ret("INVALID_STATE", m)
  IN  IF r.ret \in {"WAIT", "OK"} THEN r
      ELSE [r EXCEPT !.m.state = "WAITING", !.m.command = "WAITING"]

CO_LSSmaster_swStateDeselect(m) ==
  [m EXCEPT !.state = "WAITING", !.command = "WAITING", !.rx = NoAnswer,
            !.tx = Frame("DESELECT", 0)]

\* configureNodeId, configureStore and Inquire, of the node that is selected.
AskSelected(m, command, value, late) ==
  IF m.state = "SELECTIVE" /\ Ready(m) THEN Initiate(m, m.state, command, Frame(command, value))
  ELSE IF m.command = command THEN CheckWait(m, command, late)
  ELSE Ret("INVALID_STATE", m)

\* A step of the fastscan waits its whole time before it looks for an answer.
FastscanStep(m) ==
  LET heard == [m EXCEPT !.rx = NoAnswer]
      next(fs, frame) == Ret("WAIT", [heard EXCEPT !.fsState = fs, !.tx = frame])
      over(ret) == Ret(ret, [heard EXCEPT !.command = "WAITING"])
      acked == m.rx.cs = "FASTSCAN"
      silent == m.rx = NoAnswer
      number == IF silent THEN 1 ELSE 0
  IN  CASE m.fsState = "CHECK" ->
             IF acked THEN next("SCAN", Frame("SCAN", 0)) ELSE over("NOACK")
        [] m.fsState = "SCAN" ->
             IF acked \/ silent THEN next("VERIFY", Frame("VERIFY", number)) ELSE over("FAILED")
        [] m.fsState = "VERIFY" ->
             IF acked THEN [over("FINISHED") EXCEPT !.m.state = "SELECTIVE"]
             ELSE over(IF silent THEN "NOACK" ELSE "FAILED")

CO_LSSmaster_IdentifyFastscan(m, late) ==
  IF m.state # "WAITING" \/ m.command \notin {"WAITING", "FASTSCAN"} THEN Ret("INVALID_STATE", m)
  ELSE IF Ready(m)
  THEN Initiate([m EXCEPT !.fsState = "CHECK"], "WAITING", "FASTSCAN", Frame("CHECK", 0))
  ELSE IF late THEN FastscanStep(m) ELSE Ret("WAIT", m)

----------------------------------------------------------------------------
(* The interpreter *)

Both(g, m) == [g |-> g, m |-> m]

\* A command is over, with a reply.
Respond(g, code, id) ==
  [g EXCEPT !.state = "IDLE",
            !.resp = [sequence |-> g.sequence, owner |-> g.owner, code |-> code, id |-> id]]

\* lss_allnodes: scan, configure, store and deselect a node after another.  A sub-step that is
\* done goes on to the next at once.
Deselected(g, m) ==
  LET reported == [g EXCEPT !.assigned = g.lssNID]
  IN  Both(IF g.lssNID < LastId
           THEN [reported EXCEPT !.lssSubState = 0, !.lssNID = @ + 1]
           ELSE Respond(reported, "OK", 0),
           CO_LSSmaster_swStateDeselect(m))

Store(g, m, late) ==
  LET r == AskSelected(m, "CFG_STORE", 0, late)
  IN  CASE r.ret = "WAIT" -> Both([g EXCEPT !.lssSubState = 2], r.m)
        [] r.ret = "OK"   -> Deselected(g, r.m)
        [] OTHER          -> Both(Respond(g, "ERROR", 0), r.m)

SetNode(g, m, late) ==
  LET r == AskSelected(m, "CFG_NODE_ID", g.lssNID, late)
  IN  CASE r.ret = "WAIT" -> Both([g EXCEPT !.lssSubState = 1], r.m)
        [] r.ret = "OK"   -> Store(g, r.m, late)
        [] OTHER          -> Both(Respond(g, "ERROR", 0), r.m)

AllNodes(g, m, late) ==
  LET r == CO_LSSmaster_IdentifyFastscan(m, late)
  IN  CASE g.lssSubState = 1 -> SetNode(g, m, late)
        [] g.lssSubState = 2 -> Store(g, m, late)
        [] g.lssSubState = 0 ->
             CASE r.ret = "WAIT"     -> Both(g, r.m)
               [] r.ret = "FINISHED" -> SetNode(g, r.m, late)
               [] r.ret = "NOACK"    -> Both(Respond(g, "OK", 0), r.m)
               [] OTHER              -> Both(Respond(g, "ERROR", 0), r.m)

\* A command of one service.
OneService(g, r) ==
  CASE r.ret = "WAIT" -> Both(g, r.m)
    [] r.ret = "OK"   -> Both(Respond(g, "OK", r.id), r.m)
    [] OTHER          -> Both(Respond(g, "ERROR", 0), r.m)

Commands == <<"ALLNODES", "SWITCH_SEL", "INQUIRE", "SWITCH_GLOB">>

\* The parser takes the next command when it is idle.
Parsed(g) ==
  IF g.state # "IDLE" \/ g.fifo = 0 THEN g
  ELSE [g EXCEPT !.state = Commands[g.fifo], !.sequence = g.fifo, !.owner = client', !.fifo = 0,
                 !.lssSubState = 0, !.lssNID = FirstId, !.assigned = 0]

Execute(g, m, late) ==
  CASE g.state = "IDLE"        -> Both(g, m)
    [] g.state = "ALLNODES"    -> AllNodes(g, m, late)
    [] g.state = "SWITCH_SEL"  -> OneService(g, CO_LSSmaster_swStateSelect(m, g.address, late))
    [] g.state = "INQUIRE"     -> OneService(g, AskSelected(m, "INQUIRE", 0, late))
    [] g.state = "SWITCH_GLOB" -> Both(Respond(g, "OK", 0), CO_LSSmaster_swStateDeselect(m))

\* respBufTransfer: the reply goes to the client, or is held when the socket takes nothing.
Transfer(g) ==
  IF g.resp # NoReply /\ Waiting(client')
  THEN /\ gtwa' = [g EXCEPT !.resp = NoReply]
       /\ clients' = [clients EXCEPT ![client'].reply = g.resp]
  ELSE gtwa' = g /\ UNCHANGED clients

\* After each event.  A reply that is held goes first, and the rest waits for it.
CO_GTWA_process(g, m, late) ==
  LET done == Execute(Parsed(g), m, late)
  IN  CASE client' = NoClient ->
             /\ gtwa' = [g EXCEPT !.state = "IDLE", !.fifo = 0]
             /\ master' = m
             /\ UNCHANGED clients
        [] client' # NoClient /\ g.resp # NoReply -> Transfer(g) /\ master' = m
        [] client' # NoClient /\ g.resp = NoReply -> Transfer(done.g) /\ master' = done.m

----------------------------------------------------------------------------
(* The daemon: an event of its loop, and then the interpreter.  The frame  *)
(* it sent before has left the controller.                                 *)

\* 100 ms passed, and with them the timeout of the master or not.
TimerExpires(late) ==
  /\ master.tx = NoFrame
  /\ UNCHANGED <<backlog, client, taken, armed, canRx>>
  /\ CO_GTWA_process(gtwa, master, late)

\* CO_LSSmaster_receive drops an answer it does not wait for, or has no room for.
CO_LSSmaster_receive ==
  /\ master.tx = NoFrame
  /\ canRx # <<>>
  /\ canRx' = Tail(canRx)
  /\ UNCHANGED <<backlog, client, taken, armed>>
  /\ LET takes == master.rx = NoAnswer /\ ~ Ready(master)
     IN  CO_GTWA_process(gtwa, IF takes THEN [master EXCEPT !.rx = Head(canRx)] ELSE master, FALSE)

\* The listener is one-shot: it stays silent while there is a client.
AcceptsClient ==
  /\ master.tx = NoFrame
  /\ armed /\ backlog # <<>>
  /\ client' = Head(backlog) /\ backlog' = Tail(backlog)
  /\ armed' = FALSE
  /\ UNCHANGED <<taken, canRx>>
  /\ CO_GTWA_process(gtwa, master, FALSE)

\* The FIFO has room: a client sends a command when it has the reply to the one before.
ReadsCommand ==
  /\ master.tx = NoFrame
  /\ client # NoClient /\ Waiting(client) /\ clients[client].step = taken + 1
  /\ taken' = taken + 1
  /\ UNCHANGED <<backlog, client, armed, canRx>>
  /\ CO_GTWA_process([gtwa EXCEPT !.fifo = taken', !.address = clients[client].address],
                     master, FALSE)

\* Fault: the interpreter keeps its session.
Faulty_KeepsSession(m) ==
  /\ client' = NoClient /\ taken' = 0
  /\ armed' = TRUE
  /\ CO_GTWA_process(gtwa, CO_LSSmaster_swStateDeselect(m), FALSE)

\* Fault: the listener is not armed again.
Faulty_KeepsListenerOff(m) ==
  /\ client' = NoClient /\ taken' = 0
  /\ UNCHANGED armed
  /\ CO_GTWA_process(IdleGtwa, CO_LSSmaster_swStateDeselect(m), FALSE)

close_client(m) ==
  /\ client' = NoClient /\ taken' = 0
  /\ armed' = TRUE
  /\ CO_GTWA_process(IdleGtwa, CO_LSSmaster_swStateDeselect(m), FALSE)

\* The client closed its end.
ClientCloses ==
  /\ master.tx = NoFrame
  /\ client # NoClient /\ ~ Waiting(client)
  /\ close_client(master)
  /\ UNCHANGED <<backlog, canRx>>

\* The daemon is killed by SIGKILL or fails, and systemd starts it again: every connection ends, and
\* nothing is deselected.  SIGTERM is kinder: main closes the client, which deselects.
DaemonRestarts ==
  /\ clients' = [c \in Clients |-> Away]
  /\ backlog' = <<>> /\ canRx' = <<>>
  /\ client' = NoClient /\ taken' = 0
  /\ armed' = TRUE
  /\ gtwa' = IdleGtwa /\ master' = IdleMaster

----------------------------------------------------------------------------
(* request_target_node: a connection, and a command after another. *)

\* The connection of the one before is gone when the next one comes.
Connects(c, address) ==
  /\ ~ Waiting(c)
  /\ client # c /\ \A i \in DOMAIN backlog : backlog[i] # c
  /\ backlog' = Append(backlog, c)
  /\ clients' = [clients EXCEPT ![c] = [Away EXCEPT !.step = 1, !.address = address]]
  /\ UNCHANGED <<client, taken, armed, gtwa, master, canRx>>

\* The identifiers a client takes for one.
Named(id) == id \in 1 .. 127

ReplyFits(c) ==
  /\ clients[c].reply.sequence = clients[c].step
  /\ clients[c].reply.code = "OK"
  /\ clients[c].step = 3 => Named(clients[c].reply.id)

read_gateway_reply(c) ==
  LET request == clients[c]
      next == [request EXCEPT !.step = request.step + 1, !.reply = NoReply,
                              !.id = IF request.step = 3 THEN request.reply.id ELSE request.id]
  IN  /\ Waiting(c) /\ request.reply # NoReply
      /\ clients' = [clients EXCEPT ![c] =
           IF ~ ReplyFits(c) \/ request.step = Len(Commands) THEN Away ELSE next]
      /\ UNCHANGED daemonVars

\* The client ends, or is killed.
Dies(c) ==
  /\ Waiting(c)
  /\ clients' = [clients EXCEPT ![c] = Away]
  /\ UNCHANGED daemonVars
=============================================================================
