-------------------------- MODULE LssCommissioning --------------------------
(***************************************************************************)
(* How an updater finds the identifier of a node: the LSS gateway and its  *)
(* clients (LssMaster), the bus, and the LSS slave of one node (LssSlave). *)
(* The node may lose power, the gateway and its clients may be killed.     *)
(***************************************************************************)
EXTENDS LssMaster, LssSlave

CONSTANTS
  Addresses,  \* what the address of a node, or in a package, can be: 0 and 1
  OneUpdater, \* clients come as in the product
  MaxUnread   \* bound: answers the daemon leaves in the CAN socket

VARIABLES
  up,        \* the node runs
  identity   \* its address

nodeVars == <<lssVars, up, identity>>
vars == <<masterVars, nodeVars>>

Init ==
  /\ InitMaster
  /\ InitLss
  /\ up = TRUE
  /\ identity \in Addresses

----------------------------------------------------------------------------
(* The bus: what a frame of the master does to the interrupt of the node *)

\* In configuration any frame but a switch of state is for the main thread.
SlaveService(cs) ==
  CASE cs = "SELECT" -> "SWITCH_STATE_SEL_SERIAL"
    [] cs \in {"CHECK", "SCAN", "VERIFY"} -> "IDENT_FASTSCAN"
    [] OTHER -> cs

FastscanAnswered(frame) ==
  /\ lss.lssState = "WAITING" /\ Unassigned /\ ~ Chosen
  /\ frame.cs = "CHECK" \/ (frame.cs \in {"SCAN", "VERIFY"} /\ frame.value = identity)

\* Fault: the address is not compared.
Faulty_Concerned(frame) ==
  /\ up /\ Listens
  /\ \/ frame.cs \in {"DESELECT", "SELECT"}
     \/ lss.lssState = "CONFIGURATION"
     \/ FastscanAnswered(frame)

\* The frames that change something in the node.
Concerned(frame) ==
  /\ up /\ Listens
  /\ \/ frame.cs = "DESELECT"
     \/ lss.lssState = "CONFIGURATION"
     \/ frame.cs = "SELECT" /\ frame.value = identity
     \/ FastscanAnswered(frame)

\* The four frames of a selection are one.  A node in CONFIGURATION answers the first of them, and
\* may then be too busy for the one that names its serial number; with one updater at a time no
\* selection meets such a node.
Hear(frame) ==
  CASE frame.cs = "DESELECT" -> SwitchToWaiting
    [] frame.cs # "DESELECT" /\ lss.lssState = "CONFIGURATION" ->
         Configure(SlaveService(frame.cs), frame.value)
    [] frame.cs = "SELECT" /\ lss.lssState = "WAITING" -> SelectSerial
    [] OTHER -> Fastscan(frame.cs = "VERIFY")

FrameArrives ==
  /\ master.tx # NoFrame
  /\ master' = [master EXCEPT !.tx = NoFrame]
  /\ IF Concerned(master.tx) THEN Hear(master.tx) ELSE UNCHANGED lss
  /\ UNCHANGED <<clients, backlog, client, taken, armed, gtwa, canRx>>
  /\ UNCHANGED <<s_lss_pending_node_id, s_lss_storage_word, storage, mainThread, storedAs,
                 up, identity>>

----------------------------------------------------------------------------
(* The main thread of the node: LssSlave's steps, with the answer *)

Sends(answer) == canRx' = Append(canRx, answer)

MainThread ==
  /\ up
  /\ \/ /\ Inquire
        /\ Sends(CASE lss.service = "SWITCH_STATE_SEL_SERIAL" -> Answer("SWITCH_STATE", "OK", 0)
                   [] lss.service = "IDENT_FASTSCAN" -> Answer("FASTSCAN", "OK", 0)
                   [] lss.service = "INQUIRE" -> Answer("INQUIRE", "OK", lss.activeNodeID))
     \/ RequestResetCommunication /\ UNCHANGED canRx
     \/ /\ ConfigureNodeId
        /\ Sends(Answer("CFG_NODE_ID", IF ValidLssNodeId(lss.nid) THEN "OK" ELSE "ERROR", 0))
     \/ /\ StoreLssConfiguration \/ EraseStorage \/ ProgramStorage
        /\ IF Listens' THEN Sends(Answer("CFG_STORE", IF storedAs' = BadNodeId THEN "ERROR" ELSE "OK", 0))
           ELSE UNCHANGED canRx
  /\ UNCHANGED <<clients, backlog, client, taken, armed, gtwa, master, up, identity>>

ResetCommunication ==
  /\ up /\ mainThread.at = "reset"
  /\ lss' = CO_LSSslave_init(s_lss_pending_node_id)
  /\ mainThread' = InLoop
  /\ UNCHANGED <<s_lss_pending_node_id, s_lss_storage_word, storage, storedAs, masterVars,
                 up, identity>>

PowerFails ==
  /\ up
  /\ up' = FALSE
  /\ storage' \in StorageLeft
  /\ mainThread' = InLoop
  /\ UNCHANGED <<lss, s_lss_pending_node_id, s_lss_storage_word, storedAs, masterVars, identity>>

Restart ==
  /\ ~ up
  /\ up' = TRUE
  /\ StartLss
  /\ UNCHANGED <<masterVars, identity>>

\* A node that runs has answered, and the gateway has read the answer, before a timeout passes:
\* the longest thing it does for an answer is to erase and program one page.
NodeQuiet == canRx = <<>> /\ (up => Listens /\ mainThread.at = "loop")

----------------------------------------------------------------------------

\* The daemon takes the descriptors that are ready in turn: answers do not pile up.
Gateway ==
  /\ \/ CO_LSSmaster_receive
     \/ /\ Len(canRx) < MaxUnread
        /\ TimerExpires(FALSE) \/ AcceptsClient \/ ReadsCommand \/ ClientCloses
     \/ NodeQuiet /\ TimerExpires(TRUE)
  /\ UNCHANGED nodeVars

\* In the product there is one updater at a time, which receives a whole image before it
\* connects: what the one before it set off is over by then.
BeforeIsOver ==
  /\ \A c \in Clients : ~ Waiting(c)
  /\ client = NoClient /\ master.tx = NoFrame /\ NodeQuiet

UpdaterConnects(c) ==
  /\ OneUpdater => BeforeIsOver
  /\ \E address \in Addresses : Connects(c, address)

UpdaterReads(c) == read_gateway_reply(c) /\ UNCHANGED nodeVars

Next ==
  \/ Gateway
  \/ DaemonRestarts /\ UNCHANGED nodeVars
  \/ \E c \in Clients :
       \/ UpdaterReads(c)
       \/ (UpdaterConnects(c) \/ Dies(c)) /\ UNCHANGED nodeVars
  \/ FrameArrives
  \/ MainThread \/ ResetCommunication \/ PowerFails \/ Restart

Spec == Init /\ [][Next]_vars

\* The daemon and the node go on, and clients read what they get.
Fairness ==
  /\ WF_vars(Gateway)
  /\ WF_vars(FrameArrives) /\ WF_vars(MainThread) /\ WF_vars(ResetCommunication)
  /\ \A c \in Clients : WF_vars(UpdaterReads(c))

FairSpec == Spec /\ Fairness

----------------------------------------------------------------------------
(* Properties *)

\* A client never reads a reply that was made for another one, or for another command of its own,
\* although all of them number their commands alike and may be killed in the middle of one
\* (close_client; read_gateway_reply looks at the number only).
ReplyIsOwn ==
  \A c \in Clients : clients[c].reply # NoReply =>
    clients[c].reply.owner = c /\ clients[c].reply.sequence = clients[c].step

\* The daemon reports an identifier as assigned only when the node has it in its flash, and will
\* start with it: power failures, flash errors and killed clients included (lss_allnodes against
\* CO_LSSslave_process).
AssignedIsStored ==
  [][gtwa'.assigned \notin {0, gtwa.assigned}
       => storage = PackLssConfiguration(gtwa'.assigned)]_vars

\* The identifier a client is told is the one of the node its package names, also when a session
\* before it was cut short and left another node selected (lss_allnodes before lss_switch_sel).
QueriedIsAddressed ==
  \A c \in Clients : clients[c].id # 0 => clients[c].address = identity

\* A client never waits for ever, whatever becomes of the node and of the clients before it:
\* read_gateway_reply has no deadline of its own.
EveryClientIsServed == \A c \in Clients : Waiting(c) ~> ~ Waiting(c)
=============================================================================
