------------------------------ MODULE LssSlave ------------------------------
(***************************************************************************)
(* The node's identifier: the LSS slave of CANopenNode, half in the CAN    *)
(* interrupt and half in the main thread, and the flash word that          *)
(* can/Core/Src/main.c and CO_storageBlank.c keep the identifier in.       *)
(*                                                                         *)
(* The bits a fastscan compares are left out: a fastscan step is one that  *)
(* is answered, or the last one of a match.                                *)
(***************************************************************************)
EXTENDS Integers

CONSTANTS
  NodeIds,                    \* identifiers a node can be given, 1 .. 127
  CO_LSS_NODE_ID_ASSIGNMENT,  \* 255: no identifier
  BadNodeId,                  \* one that is out of range
  CAN_BIT_RATE_KBIT, OtherBitRate,
  Torn                        \* what a failed erase or program leaves of the word

ASSUME NodeIdentifiers ==
  /\ CO_LSS_NODE_ID_ASSIGNMENT \notin NodeIds
  /\ BadNodeId \notin NodeIds \cup {CO_LSS_NODE_ID_ASSIGNMENT}
  /\ CAN_BIT_RATE_KBIT # OtherBitRate

VARIABLES
  lss,                    \* s_lss_slave; service is "none" while sendResponse is clear
  s_lss_pending_node_id,
  s_lss_storage_word,
  storage,                \* the flash word
  mainThread,             \* where the main loop is, and "previous" of StoreLssConfiguration
  storedAs                \* the identifier the last CFG_STORE confirmed to the master, or BadNodeId

lssVars == <<lss, s_lss_pending_node_id, s_lss_storage_word, storage, mainThread, storedAs>>

\* Fault: the range of an identifier is not checked.
Faulty_ValidLssNodeId(id) == TRUE

ValidLssNodeId(id) == id \in NodeIds \cup {CO_LSS_NODE_ID_ASSIGNMENT}

----------------------------------------------------------------------------
(* The stored word *)

PackLssConfiguration(id) == [node_id |-> id, bit_rate |-> CAN_BIT_RATE_KBIT, reserved |-> FALSE]

\* 0xFFFFFFFF: its lowest byte is the one of no identifier, and its reserved bits are set.
Blank == [node_id |-> CO_LSS_NODE_ID_ASSIGNMENT, bit_rate |-> OtherBitRate, reserved |-> TRUE]

\* A word another program may have left: an identifier and a bit rate that is not ours.
Foreign(id) == [node_id |-> id, bit_rate |-> OtherBitRate, reserved |-> FALSE]

Words == {PackLssConfiguration(id) : id \in NodeIds \cup {CO_LSS_NODE_ID_ASSIGNMENT}}
           \cup {Foreign(id) : id \in NodeIds} \cup {Blank}

ASSUME TornWord == Torn \notin Words

\* A torn word fails its ECC check or reads as anything, one that UnpackLssConfiguration
\* refuses.
UnpackAccepts(word) ==
  /\ word # Torn
  /\ ~ word.reserved
  /\ ValidLssNodeId(word.node_id)
  /\ word.bit_rate = CAN_BIT_RATE_KBIT

\* The identifier a node starts with.
StoredNodeId(word) ==
  IF UnpackAccepts(word) THEN word.node_id ELSE CO_LSS_NODE_ID_ASSIGNMENT

----------------------------------------------------------------------------

CO_LSSslave_init(id) ==
  [lssState |-> "WAITING", activeNodeID |-> id, service |-> "none", nid |-> BadNodeId]

InLoop == [at |-> "loop", previous |-> Blank]

InitLss ==
  /\ storage \in Words
  /\ s_lss_storage_word = storage
  /\ s_lss_pending_node_id = StoredNodeId(storage)
  /\ lss = CO_LSSslave_init(StoredNodeId(storage))
  /\ mainThread = InLoop
  /\ storedAs = BadNodeId

Unassigned == lss.activeNodeID = CO_LSS_NODE_ID_ASSIGNMENT
Chosen == s_lss_pending_node_id # CO_LSS_NODE_ID_ASSIGNMENT

----------------------------------------------------------------------------
(* The interrupt: CO_LSSslave_receive *)

\* Fault: a frame is dealt with while the main thread has not answered the last one.
Faulty_Listens == TRUE

\* A frame that comes before the last one is answered is ignored.
Listens == lss.service = "none"

\* Fault: an identifier that is in use is given up at once for the one just configured.
Faulty_TakesIdentifier == lss.lssState = "CONFIGURATION" /\ Chosen

TakesIdentifier == lss.lssState = "CONFIGURATION" /\ Unassigned /\ Chosen

\* The master deselects; a node that got its first identifier restarts its communication.
SwitchToWaiting ==
  /\ Listens
  /\ lss' = [lss EXCEPT !.lssState = "WAITING",
                        !.service = IF TakesIdentifier THEN "SWITCH_STATE_GLOBAL" ELSE @]

SwitchToConfiguration ==
  /\ Listens
  /\ lss' = [lss EXCEPT !.lssState = "CONFIGURATION"]

\* The last of the four selection frames, with the address of this node.
SelectSerial ==
  /\ Listens /\ lss.lssState = "WAITING"
  /\ lss' = [lss EXCEPT !.lssState = "CONFIGURATION", !.service = "SWITCH_STATE_SEL_SERIAL"]

\* Only a node without an identifier, used or chosen, takes part.
Fastscan(match) ==
  /\ Listens /\ lss.lssState = "WAITING"
  /\ Unassigned /\ ~ Chosen
  /\ lss' = [lss EXCEPT !.lssState = IF match THEN "CONFIGURATION" ELSE @,
                        !.service = "IDENT_FASTSCAN"]

\* Any other frame is handed to the main thread, with its data.
Configure(service, nid) ==
  /\ Listens /\ lss.lssState = "CONFIGURATION"
  /\ lss' = [lss EXCEPT !.service = service, !.nid = nid]

CO_LSSslave_receive ==
  /\ \/ SwitchToWaiting
     \/ SwitchToConfiguration
     \/ SelectSerial
     \/ \E match \in BOOLEAN : Fastscan(match)
     \/ \E nid \in NodeIds \cup {CO_LSS_NODE_ID_ASSIGNMENT, BadNodeId} :
          Configure("CFG_NODE_ID", nid)
     \/ Configure("CFG_STORE", BadNodeId)
     \/ Configure("INQUIRE", BadNodeId)
  /\ UNCHANGED <<s_lss_pending_node_id, s_lss_storage_word, storage, mainThread, storedAs>>

----------------------------------------------------------------------------
(* The main thread: CO_LSSslave_process *)

\* The answer is sent and sendResponse cleared.
Answered == lss' = [lss EXCEPT !.service = "none", !.nid = BadNodeId]

\* Services that only send something.
Inquire ==
  /\ mainThread.at = "loop"
  /\ lss.service \in {"SWITCH_STATE_SEL_SERIAL", "IDENT_FASTSCAN", "INQUIRE"}
  /\ Answered
  /\ UNCHANGED <<s_lss_pending_node_id, s_lss_storage_word, storage, mainThread, storedAs>>

\* The main loop calls ResetCommunication next.
RequestResetCommunication ==
  /\ mainThread.at = "loop"
  /\ lss.service = "SWITCH_STATE_GLOBAL"
  /\ Answered
  /\ mainThread' = [mainThread EXCEPT !.at = "reset"]
  /\ UNCHANGED <<s_lss_pending_node_id, s_lss_storage_word, storage, storedAs>>

ConfigureNodeId ==
  /\ mainThread.at = "loop"
  /\ lss.service = "CFG_NODE_ID"
  /\ s_lss_pending_node_id' = IF ValidLssNodeId(lss.nid) THEN lss.nid ELSE s_lss_pending_node_id
  /\ Answered
  /\ UNCHANGED <<s_lss_storage_word, storage, mainThread, storedAs>>

\* StoreLssConfiguration, up to the erase of CO_storageBlank_auto_process: a word that is there
\* already is not written again.
StoreLssConfiguration ==
  /\ mainThread.at = "loop"
  /\ lss.service = "CFG_STORE"
  /\ s_lss_storage_word' = PackLssConfiguration(s_lss_pending_node_id)
  /\ IF storage = s_lss_storage_word'
     THEN /\ Answered
          /\ storedAs' = s_lss_pending_node_id
          /\ UNCHANGED mainThread
     ELSE /\ mainThread' = [at |-> "erasing", previous |-> s_lss_storage_word]
          /\ storedAs' = BadNodeId
          /\ UNCHANGED lss
  /\ UNCHANGED <<s_lss_pending_node_id, storage>>

\* The store failed: the word in RAM is what it was, and the master is told.
StoreFails ==
  /\ s_lss_storage_word' = mainThread.previous
  /\ mainThread' = InLoop
  /\ Answered

EraseStorage ==
  /\ mainThread.at = "erasing"
  /\ \/ /\ storage' = Blank
        /\ mainThread' = [mainThread EXCEPT !.at = "programming"]
        /\ UNCHANGED <<lss, s_lss_storage_word>>
     \/ /\ storage' \in {storage, Torn}
        /\ StoreFails
  /\ UNCHANGED <<s_lss_pending_node_id, storedAs>>

\* Fault: the answer of flash_area_write is ignored, and the word not read back.
Faulty_ProgramStorage ==
  /\ mainThread.at = "programming"
  /\ storage' \in {s_lss_storage_word, Blank, Torn}
  /\ mainThread' = InLoop
  /\ storedAs' = s_lss_storage_word.node_id
  /\ Answered
  /\ UNCHANGED <<s_lss_pending_node_id, s_lss_storage_word>>

ProgramStorage ==
  /\ mainThread.at = "programming"
  /\ \/ /\ storage' = s_lss_storage_word
        /\ mainThread' = InLoop
        /\ storedAs' = s_lss_storage_word.node_id
        /\ Answered
        /\ UNCHANGED s_lss_storage_word
     \/ /\ storage' \in {Blank, Torn}
        /\ StoreFails
        /\ UNCHANGED storedAs
  /\ UNCHANGED s_lss_pending_node_id

\* What a power failure leaves of the word.
StorageLeft ==
  CASE mainThread.at = "erasing" -> {storage, Torn, Blank}
    [] mainThread.at = "programming" -> {Blank, Torn, s_lss_storage_word}
    [] OTHER -> {storage}

\* main() up to ResetCommunication: the word is read, and the identifier unpacked from it.
StartLss ==
  /\ s_lss_storage_word' = storage
  /\ s_lss_pending_node_id' = StoredNodeId(storage)
  /\ lss' = CO_LSSslave_init(StoredNodeId(storage))
  /\ mainThread' = InLoop
  /\ UNCHANGED <<storage, storedAs>>
=============================================================================
