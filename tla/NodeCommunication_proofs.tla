----------------------- MODULE NodeCommunication_proofs -----------------------
(***************************************************************************)
(* Proofs about NodeCommunication, for every ring size, block size, PDU    *)
(* length and set of identifiers: first what the node keeps of its        *)
(* identifier, then the way of a request, what flow control promises the  *)
(* ring and the ISO-TP link.                                              *)
(***************************************************************************)
EXTENDS NodeCommunication, FiniteSetTheorems, TLAPS

Services == {"none", "SWITCH_STATE_GLOBAL", "SWITCH_STATE_SEL_SERIAL", "IDENT_FASTSCAN",
             "CFG_NODE_ID", "CFG_STORE", "INQUIRE"}

\* The fields the records of the model have.
TransportShape ==
  /\ s_can_rx_queue \in Seq(Frames)
  /\ Len(s_can_rx_queue) < CAN_RX_QUEUE_CAPACITY
  /\ link \in [receive_status : {"IDLE", "INPROGRESS", "FULL"}, received : Seq(Frames),
               send_status : {"IDLE", "WAITING", "SENDING"}]
  /\ Len(link.received) <= PduFrames
  /\ link.receive_status = "INPROGRESS" => Len(link.received) < PduFrames
  /\ serving \in BOOLEAN

BusShape ==
  /\ sender \in [state : {"idle", "waiting", "sending"}, pdu : Pdus,
                 next : 0 .. PduFrames - 1, credit : Int]
  /\ up \in BOOLEAN
  /\ otaThread \in {"asleep", "polling", "serving"}

LssShape ==
  /\ lss \in [lssState : {"WAITING", "CONFIGURATION"}, activeNodeID : Identifiers,
              service : Services, nid : Identifiers \cup {BadNodeId}]
  /\ s_lss_pending_node_id \in Identifiers
  /\ s_lss_storage_word \in Words \cup {Torn}
  /\ storage \in Words \cup {Torn}
  /\ mainThread \in [at : {"loop", "erasing", "programming", "reset"}, previous : Words \cup {Torn}]
  /\ storedAs \in Identifiers \cup {BadNodeId}

Shape == TransportShape /\ BusShape /\ LssShape

\* What the main thread is doing is what the LSS slave asked it to do.
ThreadFollowsSlave ==
  /\ lss.service \in {"CFG_NODE_ID", "CFG_STORE", "INQUIRE"} => lss.lssState = "CONFIGURATION"
  /\ lss.service = "SWITCH_STATE_GLOBAL" => Unassigned /\ Chosen
  /\ mainThread.at = "reset" => Unassigned /\ Chosen
  /\ mainThread.at \in {"erasing", "programming"} => lss.service = "CFG_STORE"

\* A node without an identifier, or without power, hears nothing and has nothing to say.
Deaf == RingEmpty /\ link = IdleLink /\ ~ serving /\ otaThread = "asleep"
SilentUnassigned == ~ up \/ Unassigned => Deaf

\* The word in flash is the one that was confirmed, until the next CFG_STORE touches it.
StoreHolds ==
  /\ storedAs # BadNodeId =>
       storage = PackLssConfiguration(storedAs) /\ mainThread.at \notin {"erasing", "programming"}
  /\ mainThread.at \in {"erasing", "programming"} =>
       s_lss_storage_word = PackLssConfiguration(s_lss_pending_node_id)

IdentityInv == Shape /\ ThreadFollowsSlave /\ SilentUnassigned /\ StoreHolds /\ NoLostAssignment

----------------------------------------------------------------------------
(* The word *)

\* A packed word is one of the words, and not a torn one.
LEMMA PackedWord ==
  ASSUME NEW id \in Identifiers
  PROVE  PackLssConfiguration(id) \in Words /\ PackLssConfiguration(id) # Torn
BY TornWord DEF Words, Identifiers

\* A blank word is one of the words.
LEMMA BlankWord == Blank \in Words
BY DEF Words

\* What PackLssConfiguration packs UnpackLssConfiguration accepts, with the same identifier.
LEMMA UnpackPack ==
  ASSUME NEW id \in Identifiers
  PROVE  StoredNodeId(PackLssConfiguration(id)) = id
<1>1. UnpackAccepts(PackLssConfiguration(id))
  BY PackedWord DEF UnpackAccepts, ValidLssNodeId, Identifiers, PackLssConfiguration
<1> QED
  BY <1>1 DEF StoredNodeId, PackLssConfiguration

\* Whatever the word holds, the node starts with a valid identifier or none.
LEMMA StoredIsIdentifier ==
  ASSUME NEW word
  PROVE  StoredNodeId(word) \in Identifiers
BY DEF StoredNodeId, UnpackAccepts, ValidLssNodeId, Identifiers

----------------------------------------------------------------------------
(* The identity of the node: what each step does to it *)

\* The start of the system.
LEMMA InitIdentity == Init => IdentityInv
<1> SUFFICES ASSUME Init PROVE IdentityInv
  OBVIOUS
<1> USE DEF Init
<1>1. StoredNodeId(storage) \in Identifiers
  BY StoredIsIdentifier
<1>2. TransportShape
  <2>1. <<>> \in Seq(Frames) /\ Len(<<>>) = 0
    OBVIOUS
  <2>2. s_can_rx_queue = <<>> /\ serving = FALSE
           /\ link = [receive_status |-> "IDLE", received |-> <<>>, send_status |-> "IDLE"]
    BY DEF InitTransport, IdleLink
  <2>3. CAN_RX_QUEUE_CAPACITY > 0 /\ PduFrames \in Nat
    BY TransportSizes
  <2>4. link \in [receive_status : {"IDLE", "INPROGRESS", "FULL"}, received : Seq(Frames),
                  send_status : {"IDLE", "WAITING", "SENDING"}]
    BY <2>1, <2>2
  <2>5. Len(link.received) = 0 /\ link.receive_status = "IDLE"
    BY <2>1, <2>2
  <2>6. s_can_rx_queue \in Seq(Frames) /\ Len(s_can_rx_queue) < CAN_RX_QUEUE_CAPACITY
    BY <2>1, <2>2, <2>3
  <2>7. Len(link.received) <= PduFrames /\ link.receive_status # "INPROGRESS"
    BY <2>3, <2>5
  <2>8. serving \in BOOLEAN
    BY <2>2, Zenon
  <2> QED
    BY <2>4, <2>6, <2>7, <2>8, Zenon DEF TransportShape
<1>3. BusShape
  BY TransportSizes DEF IdleSender, BusShape
<1>4. LssShape
  BY <1>1, BlankWord DEF InitLss, LssShape, CO_LSSslave_init, InLoop, Services
<1>5. lss.activeNodeID = s_lss_pending_node_id /\ lss.service = "none" /\ mainThread.at = "loop"
  BY DEF InitLss, CO_LSSslave_init, InLoop
<1>6. ThreadFollowsSlave /\ NoLostAssignment
  BY <1>5 DEF ThreadFollowsSlave, NoLostAssignment, Chosen, Unassigned
<1>7. SilentUnassigned
  BY DEF SilentUnassigned, Deaf, InitTransport, RingEmpty
<1>8. StoreHolds
  BY <1>5 DEF StoreHolds, InitLss
<1> QED
  BY <1>2, <1>3, <1>4, <1>6, <1>7, <1>8 DEF IdentityInv, Shape

\* Nothing about the identity depends on more than this.
LEMMA IdentityKept ==
  ASSUME LssShape, ThreadFollowsSlave, StoreHolds, NoLostAssignment,
         UNCHANGED <<lssVars, up>>
  PROVE  LssShape' /\ ThreadFollowsSlave' /\ StoreHolds' /\ NoLostAssignment'
BY DEF lssVars, LssShape, ThreadFollowsSlave, StoreHolds, NoLostAssignment, Chosen, Unassigned

\* A frame that comes over the bus, whether it gets through or not.
LEMMA FrameOnBus ==
  ASSUME IdentityInv, NEW frame \in Frames, OnBus(frame)
  PROVE  TransportShape' /\ SilentUnassigned' /\ LssShape' /\ ThreadFollowsSlave' /\ StoreHolds'
           /\ NoLostAssignment' /\ up' \in BOOLEAN /\ otaThread' \in {"asleep", "polling", "serving"}
<1>1. UNCHANGED <<link, serving, lssVars, up, otaThread>>
  BY DEF OnBus
<1>2. LssShape' /\ ThreadFollowsSlave' /\ StoreHolds' /\ NoLostAssignment'
  BY <1>1, IdentityKept DEF IdentityInv, Shape
<1>3. s_can_rx_queue' \in Seq(Frames) /\ Len(s_can_rx_queue') < CAN_RX_QUEUE_CAPACITY
  BY TransportSizes
  DEF OnBus, ReceiveUdsCanFrame, RingFull, IdentityInv, Shape, TransportShape
<1>4. TransportShape'
  BY <1>1, <1>3 DEF IdentityInv, Shape, TransportShape
<1>5. SilentUnassigned'
  BY <1>1 DEF OnBus, IdentityInv, SilentUnassigned, Deaf, RingEmpty, Unassigned, lssVars
<1> QED
  BY <1>1, <1>2, <1>4, <1>5 DEF IdentityInv, Shape, BusShape

LEMMA StartRequestIdentity ==
  ASSUME IdentityInv, NEW pdu \in Pdus, StartRequest(pdu)
  PROVE  IdentityInv'
<1>1. \E frame \in Frames : OnBus(frame)
  BY TransportSizes DEF StartRequest, Frames
<1>2. sender' \in [state : {"idle", "waiting", "sending"}, pdu : Pdus,
                    next : 0 .. PduFrames - 1, credit : Int]
  BY TransportSizes DEF StartRequest, IdleSender
<1> QED
  BY <1>1, <1>2, FrameOnBus DEF IdentityInv, Shape, BusShape

LEMMA SendConsecutiveIdentity ==
  ASSUME IdentityInv, SendConsecutive
  PROVE  IdentityInv'
<1>1. sender \in [state : {"idle", "waiting", "sending"}, pdu : Pdus,
                   next : 0 .. PduFrames - 1, credit : Int]
  BY DEF IdentityInv, Shape, BusShape
<1>2. \E frame \in Frames : OnBus(frame)
  BY <1>1 DEF SendConsecutive, Frames
<1>3. sender' \in [state : {"idle", "waiting", "sending"}, pdu : Pdus,
                    next : 0 .. PduFrames - 1, credit : Int]
  <2>1. CASE sender.next = PduFrames - 1
    <3>1. sender' = IdleSender(sender.pdu)
      BY <2>1, <1>1, TransportSizes, SMT DEF SendConsecutive
    <3> QED
      BY <1>1, <3>1, TransportSizes DEF IdleSender
  <2>2. CASE sender.next < PduFrames - 1
    <3>1. sender' = [sender EXCEPT !.next = @ + 1, !.credit = @ - 1,
                                   !.state = IF sender.credit = 1 THEN "waiting" ELSE @]
      BY <1>1, <2>2, TransportSizes, SMT DEF SendConsecutive
    <3>2. sender' = [state |-> IF sender.credit = 1 THEN "waiting" ELSE sender.state,
                     pdu |-> sender.pdu, next |-> sender.next + 1, credit |-> sender.credit - 1]
      BY <1>1, <3>1
    <3> QED
      BY <1>1, <2>2, <3>2, TransportSizes
  <2> QED
    BY <1>1, <2>1, <2>2, TransportSizes
<1> QED
  BY <1>2, <1>3, FrameOnBus DEF IdentityInv, Shape, BusShape

LEMMA ClientFlowControlIdentity ==
  ASSUME IdentityInv, ClientFlowControl
  PROVE  IdentityInv'
<1>1. \E frame \in Frames : OnBus(frame)
  BY TransportSizes DEF ClientFlowControl, Frames, IdentityInv, Shape, BusShape
<1>2. UNCHANGED sender
  BY DEF ClientFlowControl
<1> QED
  BY <1>1, <1>2, FrameOnBus DEF IdentityInv, Shape, BusShape

\* The steps of the gateway that touch nothing of the node.
LEMMA GatewayIdentity ==
  ASSUME IdentityInv, FlowControlArrives \/ GivesUp
  PROVE  IdentityInv'
<1>1. UNCHANGED <<transportVars, lssVars, up, otaThread>>
  BY DEF FlowControlArrives, GivesUp
<1>2. sender' \in [state : {"idle", "waiting", "sending"}, pdu : Pdus,
                    next : 0 .. PduFrames - 1, credit : Int]
  <2>1. sender \in [state : {"idle", "waiting", "sending"}, pdu : Pdus,
                    next : 0 .. PduFrames - 1, credit : Int]
    BY DEF IdentityInv, Shape, BusShape
  <2>2. CASE FlowControlArrives
    <3>1. \/ sender' = sender
          \/ sender' = [state |-> "sending", pdu |-> sender.pdu, next |-> sender.next,
                        credit |-> BlockSize]
      BY <2>1, <2>2 DEF FlowControlArrives, GrantedFrames
    <3> QED
      BY <2>1, <3>1, TransportSizes
  <2>3. CASE GivesUp
    BY <2>1, <2>3, TransportSizes DEF GivesUp, IdleSender
  <2> QED
    BY <2>2, <2>3
<1>3. LssShape' /\ ThreadFollowsSlave' /\ StoreHolds' /\ NoLostAssignment'
  BY <1>1, IdentityKept DEF IdentityInv, Shape
<1>4. TransportShape' /\ SilentUnassigned'
  BY <1>1
  DEF IdentityInv, Shape, TransportShape, SilentUnassigned, Deaf, RingEmpty, Unassigned,
      transportVars, lssVars
<1> QED
  BY <1>1, <1>2, <1>3, <1>4 DEF IdentityInv, Shape, BusShape

----------------------------------------------------------------------------
(* The OTA thread *)

\* What the link takes from a frame leaves it a link.
LEMMA FrameKeepsLink ==
  ASSUME TransportShape, NEW frame \in Frames
  PROVE  LET l == isotp_on_can_message(link, frame)
         IN  /\ l \in [receive_status : {"IDLE", "INPROGRESS", "FULL"}, received : Seq(Frames),
                        send_status : {"IDLE", "WAITING", "SENDING"}]
             /\ Len(l.received) <= PduFrames
             /\ l.receive_status = "INPROGRESS" => Len(l.received) < PduFrames
<1> DEFINE l == isotp_on_can_message(link, frame)
           Links == [receive_status : {"IDLE", "INPROGRESS", "FULL"}, received : Seq(Frames),
                     send_status : {"IDLE", "WAITING", "SENDING"}]
<1>1. link \in Links /\ Len(link.received) <= PduFrames
        /\ (link.receive_status = "INPROGRESS" => Len(link.received) < PduFrames)
        /\ link.received \in Seq(Frames)
  BY DEF TransportShape
<1>2. PduFrames \in Nat /\ PduFrames > 1
  BY TransportSizes
<1>3. <<frame>> \in Seq(Frames) /\ Len(<<frame>>) = 1 /\ <<>> \in Seq(Frames) /\ Len(<<>>) = 0
  OBVIOUS
<1>4. Append(link.received, frame) \in Seq(Frames)
        /\ Len(Append(link.received, frame)) = Len(link.received) + 1
        /\ Len(link.received) \in Nat
  BY <1>1
<1>5. CASE frame.type = "SF"
  <2>1. l = [receive_status |-> "FULL", received |-> <<frame>>, send_status |-> link.send_status]
    BY <1>1, <1>5 DEF isotp_on_can_message
  <2> QED
    BY <1>1, <1>2, <1>3, <2>1
<1>6. CASE frame.type = "FF"
  <2>1. l = [receive_status |-> "INPROGRESS", received |-> <<frame>>,
             send_status |-> link.send_status]
    BY <1>1, <1>6 DEF isotp_on_can_message, FirstFrame
  <2> QED
    BY <1>1, <1>2, <1>3, <2>1
<1>7. CASE frame.type = "CF"
  <2>1. l = ConsecutiveFrame(link, frame)
    BY <1>7 DEF isotp_on_can_message
  <2>2. CASE link.receive_status # "INPROGRESS"
    BY <1>1, <2>1, <2>2 DEF ConsecutiveFrame
  <2>3. CASE link.receive_status = "INPROGRESS" /\ ~ ExpectedSn(link, frame)
    <3>1. l = [receive_status |-> "IDLE", received |-> <<>>, send_status |-> link.send_status]
      BY <1>1, <2>1, <2>3 DEF ConsecutiveFrame
    <3> QED
      BY <1>1, <1>2, <1>3, <3>1
  <2>4. CASE link.receive_status = "INPROGRESS" /\ ExpectedSn(link, frame)
    <3>1. CASE Complete(Append(link.received, frame))
      <4>1. l = [receive_status |-> "FULL", received |-> Append(link.received, frame),
                 send_status |-> link.send_status]
        BY <1>1, <2>1, <2>4, <3>1 DEF ConsecutiveFrame
      <4> QED
        BY <1>1, <1>2, <1>4, <2>4, <3>1, <4>1 DEF Complete
    <3>2. CASE ~ Complete(Append(link.received, frame))
      <4>1. l = [receive_status |-> "INPROGRESS", received |-> Append(link.received, frame),
                 send_status |-> link.send_status]
        BY <1>1, <2>1, <2>4, <3>2 DEF ConsecutiveFrame
      <4> QED
        BY <1>1, <1>2, <1>4, <2>4, <3>2, <4>1 DEF Complete
    <3> QED
      BY <3>1, <3>2
  <2> QED
    BY <2>2, <2>3, <2>4
<1>8. CASE frame.type = "FC"
  <2>1. \/ l = link
        \/ l = [receive_status |-> link.receive_status, received |-> link.received,
                send_status |-> "SENDING"]
    BY <1>1, <1>8 DEF isotp_on_can_message
  <2> QED
    BY <1>1, <2>1
<1> QED
  BY <1>5, <1>6, <1>7, <1>8 DEF Frames

\* A reception that is given up leaves the rest of the link.
LEMMA GivenUpReception ==
  ASSUME NEW l, l \in [receive_status : {"IDLE", "INPROGRESS", "FULL"}, received : Seq(Frames),
                       send_status : {"IDLE", "WAITING", "SENDING"}],
         NEW late, late = [l EXCEPT !.receive_status = "IDLE", !.received = <<>>]
  PROVE  late = [receive_status |-> "IDLE", received |-> <<>>, send_status |-> l.send_status]
OBVIOUS

\* What isotp_poll leaves of the link: a reception is given up whole or not at all.
LEMMA PolledLink ==
  ASSUME link \in [receive_status : {"IDLE", "INPROGRESS", "FULL"}, received : Seq(Frames),
                   send_status : {"IDLE", "WAITING", "SENDING"}],
         NEW l \in isotp_poll
  PROVE  \E send \in {"IDLE", "WAITING", "SENDING"} :
           \/ l = [receive_status |-> link.receive_status, received |-> link.received,
                   send_status |-> send]
           \/ /\ link.receive_status = "INPROGRESS"
              /\ l = [receive_status |-> "IDLE", received |-> <<>>, send_status |-> send]
<1> DEFINE Links == [receive_status : {"IDLE", "INPROGRESS", "FULL"}, received : Seq(Frames),
                     send_status : {"IDLE", "WAITING", "SENDING"}]
           Late == [link EXCEPT !.receive_status = "IDLE", !.received = <<>>]
           Same == [receive_status |-> link.receive_status, received |-> link.received,
                    send_status |-> link.send_status]
           Receptions == {link} \cup IF link.receive_status # "INPROGRESS" THEN {} ELSE {Late}
<1>1. Late = [receive_status |-> "IDLE", received |-> <<>>, send_status |-> link.send_status]
  BY GivenUpReception
<1> HIDE DEF Late
<1>2. <<>> \in Seq(Frames) /\ link = Same
  OBVIOUS
<1>3. Late \in Links
  BY <1>1, <1>2
<1>4. isotp_poll = Receptions \cup {[l0 EXCEPT !.send_status = "IDLE"] : l0 \in Receptions}
  BY DEF isotp_poll, Late
<1>5. \A l0 \in Receptions : l0 = link \/ (l0 = Late /\ link.receive_status = "INPROGRESS")
  BY Zenon
<1> HIDE DEF Receptions
<1>6. CASE l \in Receptions
  <2>1. CASE l = link
    BY <1>2, <2>1
  <2>2. CASE l = Late /\ link.receive_status = "INPROGRESS"
    BY <1>1, <2>2
  <2> QED
    BY <1>5, <1>6, <2>1, <2>2
<1>7. CASE l \in {[l0 EXCEPT !.send_status = "IDLE"] : l0 \in Receptions}
  <2>1. PICK l0 \in Receptions : l = [l0 EXCEPT !.send_status = "IDLE"]
    BY <1>7, Zenon
  <2>2. l0 \in Links
    BY <1>3, <1>5
  <2>3. l = [receive_status |-> l0.receive_status, received |-> l0.received,
             send_status |-> "IDLE"]
    BY <2>1, <2>2
  <2>4. CASE l0 = link
    BY <2>3, <2>4
  <2>5. CASE l0 = Late /\ link.receive_status = "INPROGRESS"
    BY <1>1, <2>3, <2>5
  <2> QED
    BY <1>5, <2>4, <2>5
<1> QED
  BY <1>4, <1>6, <1>7

\* What UDS_Poll leaves of it: a complete request goes only when the server takes it.
LEMMA ServedLink ==
  ASSUME link \in [receive_status : {"IDLE", "INPROGRESS", "FULL"}, received : Seq(Frames),
                   send_status : {"IDLE", "WAITING", "SENDING"}],
         UDS_Poll
  PROVE  \E send \in {"IDLE", "WAITING", "SENDING"} :
           \/ link' = [receive_status |-> link.receive_status, received |-> link.received,
                       send_status |-> send]
           \/ /\ link.receive_status # "FULL" \/ serving' # serving
              /\ link' = [receive_status |-> "IDLE", received |-> <<>>, send_status |-> send]
<1> DEFINE Links == [receive_status : {"IDLE", "INPROGRESS", "FULL"}, received : Seq(Frames),
                     send_status : {"IDLE", "WAITING", "SENDING"}]
<1>1. PICK l \in isotp_poll : TakeRequest(l) \/ NothingToDo(l) \/ ShortAnswer(l) \/ LongAnswer(l)
  BY DEF UDS_Poll
<1>2. PICK send \in {"IDLE", "WAITING", "SENDING"} :
        \/ l = [receive_status |-> link.receive_status, received |-> link.received,
                send_status |-> send]
        \/ /\ link.receive_status = "INPROGRESS"
           /\ l = [receive_status |-> "IDLE", received |-> <<>>, send_status |-> send]
  BY <1>1, PolledLink
<1>3. <<>> \in Seq(Frames)
  OBVIOUS
<1>4. l \in Links
  <2>1. CASE l = [receive_status |-> link.receive_status, received |-> link.received,
                  send_status |-> send]
    BY <2>1
  <2>2. CASE l = [receive_status |-> "IDLE", received |-> <<>>, send_status |-> send]
    BY <1>3, <2>2
  <2> QED
    BY <1>2, <2>1, <2>2
<1>5. CASE TakeRequest(l)
  <2>1. link' = [l EXCEPT !.receive_status = "IDLE", !.received = <<>>]
    BY <1>5 DEF TakeRequest
  <2>2. link' = [receive_status |-> "IDLE", received |-> <<>>, send_status |-> l.send_status]
    BY <1>4, <2>1, GivenUpReception
  <2>3. serving' # serving
    BY <1>5, Zenon DEF TakeRequest
  <2> QED
    BY <1>4, <2>2, <2>3
<1>6. CASE NothingToDo(l) \/ ShortAnswer(l)
  <2>1. link' = l
    BY <1>6 DEF NothingToDo, ShortAnswer
  <2> QED
    BY <1>2, <2>1
<1>7. CASE LongAnswer(l)
  <2>1. link' = [receive_status |-> l.receive_status, received |-> l.received,
                 send_status |-> "WAITING"]
    BY <1>4, <1>7 DEF LongAnswer
  <2>2. CASE l = [receive_status |-> link.receive_status, received |-> link.received,
                  send_status |-> send]
    BY <2>1, <2>2
  <2>3. CASE /\ link.receive_status = "INPROGRESS"
             /\ l = [receive_status |-> "IDLE", received |-> <<>>, send_status |-> send]
    BY <2>1, <2>3
  <2> QED
    BY <1>2, <2>2, <2>3
<1> QED
  BY <1>1, <1>5, <1>6, <1>7

\* A step of the OTA thread that leaves a link behind keeps everything about the identity.
LEMMA OtaThreadIdentity ==
  ASSUME IdentityInv, up, otaThread # "asleep" \/ ~ Unassigned,
         UNCHANGED <<lssVars, up, sender>>, TransportShape',
         otaThread' \in {"asleep", "polling", "serving"}
  PROVE  IdentityInv'
<1>1. LssShape' /\ ThreadFollowsSlave' /\ StoreHolds' /\ NoLostAssignment'
  BY IdentityKept DEF IdentityInv, Shape
<1>2. ~ Unassigned
  BY DEF IdentityInv, SilentUnassigned, Deaf
<1>3. SilentUnassigned'
  BY <1>2 DEF SilentUnassigned, Unassigned, lssVars
<1> QED
  BY <1>1, <1>3 DEF IdentityInv, Shape, BusShape

LEMMA WakesIdentity ==
  ASSUME IdentityInv, Wakes \/ RingPolled
  PROVE  IdentityInv'
<1>1. UNCHANGED <<transportVars, lssVars, up, sender>> /\ up
        /\ (otaThread # "asleep" \/ ~ Unassigned) /\ otaThread' \in {"asleep", "polling", "serving"}
  BY DEF Wakes, RingPolled, busVars
<1>2. TransportShape'
  BY <1>1 DEF IdentityInv, Shape, TransportShape, transportVars
<1> QED
  BY <1>1, <1>2, OtaThreadIdentity

LEMMA PollsFrameIdentity ==
  ASSUME IdentityInv, PollsFrame
  PROVE  IdentityInv'
<1>1. TransportShape /\ s_can_rx_queue # <<>> /\ s_can_rx_queue \in Seq(Frames)
  BY DEF IdentityInv, Shape, TransportShape, PollsFrame, PollUdsCanFrame, RingEmpty
<1>2. NextFrame \in Frames /\ Tail(s_can_rx_queue) \in Seq(Frames)
        /\ Len(Tail(s_can_rx_queue)) < Len(s_can_rx_queue)
  BY <1>1 DEF NextFrame
<1>3. s_can_rx_queue' = Tail(s_can_rx_queue) /\ UNCHANGED serving
        /\ (link' = link \/ link' = isotp_on_can_message(link, NextFrame))
  BY DEF PollsFrame, PollUdsCanFrame
<1>4. s_can_rx_queue' \in Seq(Frames) /\ Len(s_can_rx_queue') < CAN_RX_QUEUE_CAPACITY
  BY <1>1, <1>2, <1>3, TransportSizes DEF TransportShape
<1>5. TransportShape'
  BY <1>1, <1>2, <1>3, <1>4, FrameKeepsLink DEF TransportShape
<1>6. up /\ otaThread # "asleep" /\ UNCHANGED <<lssVars, up, sender>>
        /\ otaThread' \in {"asleep", "polling", "serving"}
  BY DEF PollsFrame
<1> QED
  BY <1>5, <1>6, OtaThreadIdentity

LEMMA UDS_PollIdentity ==
  ASSUME IdentityInv, UDS_Poll
  PROVE  IdentityInv'
<1> DEFINE Links == [receive_status : {"IDLE", "INPROGRESS", "FULL"}, received : Seq(Frames),
                     send_status : {"IDLE", "WAITING", "SENDING"}]
           Fits(l) == /\ l \in Links /\ Len(l.received) <= PduFrames
                      /\ l.receive_status = "INPROGRESS" => Len(l.received) < PduFrames
<1>1. Fits(link) /\ s_can_rx_queue \in Seq(Frames)
        /\ Len(s_can_rx_queue) < CAN_RX_QUEUE_CAPACITY
  BY DEF IdentityInv, Shape, TransportShape
<1>2. PduFrames \in Nat /\ <<>> \in Seq(Frames) /\ Len(<<>>) = 0
  BY TransportSizes
<1>3. PICK send \in {"IDLE", "WAITING", "SENDING"} :
        \/ link' = [receive_status |-> link.receive_status, received |-> link.received,
                    send_status |-> send]
        \/ link' = [receive_status |-> "IDLE", received |-> <<>>, send_status |-> send]
  BY <1>1, ServedLink
<1>4. Fits(link')
  <2>1. CASE link' = [receive_status |-> link.receive_status, received |-> link.received,
                      send_status |-> send]
    <3>1. link' \in Links /\ link'.received = link.received
            /\ link'.receive_status = link.receive_status
      BY <1>1, <2>1
    <3> QED
      BY <1>1, <3>1
  <2>2. CASE link' = [receive_status |-> "IDLE", received |-> <<>>, send_status |-> send]
    <3>1. link' \in Links /\ Len(link'.received) = 0 /\ link'.receive_status = "IDLE"
      BY <1>2, <2>2
    <3> QED
      BY <1>2, <3>1
  <2> QED
    BY <1>3, <2>1, <2>2
<1>5. PICK l : TakeRequest(l) \/ NothingToDo(l) \/ ShortAnswer(l) \/ LongAnswer(l)
  BY DEF UDS_Poll
<1>6. serving' \in BOOLEAN
  BY <1>5, Zenon
  DEF TakeRequest, NothingToDo, ShortAnswer, LongAnswer, IdentityInv, Shape, TransportShape
<1>7. s_can_rx_queue' = s_can_rx_queue
  BY DEF UDS_Poll
<1>8. TransportShape'
  BY <1>1, <1>4, <1>6, <1>7 DEF TransportShape
<1>9. up /\ otaThread # "asleep" /\ UNCHANGED <<lssVars, up, sender>>
        /\ otaThread' \in {"asleep", "polling", "serving"}
  BY DEF UDS_Poll
<1> QED
  BY <1>8, <1>9, OtaThreadIdentity

----------------------------------------------------------------------------
(* The LSS slave and the main thread *)

LEMMA LssFrameIdentity ==
  ASSUME IdentityInv, LssFrame
  PROVE  IdentityInv'
<1> DEFINE Nids == Identifiers \cup {BadNodeId}
<1>1. lss \in [lssState : {"WAITING", "CONFIGURATION"}, activeNodeID : Identifiers,
                service : Services, nid : Nids]
  BY DEF IdentityInv, Shape, LssShape
<1>2. up /\ lss.service = "none"
        /\ UNCHANGED <<transportVars, up, otaThread, sender, s_lss_pending_node_id,
                       s_lss_storage_word, storage, mainThread, storedAs>>
  BY DEF LssFrame, CO_LSSslave_receive, SwitchToWaiting, SwitchToConfiguration, SelectSerial,
         Fastscan, Configure, Listens, busVars
<1>3. PICK state \in {"WAITING", "CONFIGURATION"}, service \in Services, nid \in Nids :
        /\ lss' = [lssState |-> state, activeNodeID |-> lss.activeNodeID, service |-> service,
                   nid |-> nid]
        /\ service \in {"CFG_NODE_ID", "CFG_STORE", "INQUIRE"} => state = "CONFIGURATION"
        /\ service = "SWITCH_STATE_GLOBAL" => Unassigned /\ Chosen
        /\ state = "WAITING" /\ Chosen /\ Unassigned =>
             service = "SWITCH_STATE_GLOBAL" \/ lss.lssState = "WAITING"
  <2> USE <1>1, <1>2 DEF Services
  <2>1. CASE SwitchToWaiting
    <3>1. CASE TakesIdentifier
      <4>1. lss' = [lssState |-> "WAITING", activeNodeID |-> lss.activeNodeID,
                    service |-> "SWITCH_STATE_GLOBAL", nid |-> lss.nid]
        BY <2>1, <3>1 DEF SwitchToWaiting
      <4> QED
        BY <3>1, <4>1 DEF TakesIdentifier
    <3>2. CASE ~ TakesIdentifier
      <4>1. lss' = [lssState |-> "WAITING", activeNodeID |-> lss.activeNodeID,
                    service |-> "none", nid |-> lss.nid]
        BY <2>1, <3>2 DEF SwitchToWaiting
      <4> QED
        BY <3>2, <4>1 DEF TakesIdentifier
    <3> QED
      BY <3>1, <3>2
  <2>2. CASE SwitchToConfiguration
    <3>1. lss' = [lssState |-> "CONFIGURATION", activeNodeID |-> lss.activeNodeID,
                  service |-> "none", nid |-> lss.nid]
      BY <2>2 DEF SwitchToConfiguration
    <3> QED
      BY <3>1
  <2>3. CASE SelectSerial
    <3>1. lss' = [lssState |-> "CONFIGURATION", activeNodeID |-> lss.activeNodeID,
                  service |-> "SWITCH_STATE_SEL_SERIAL", nid |-> lss.nid]
      BY <2>3 DEF SelectSerial
    <3> QED
      BY <3>1
  <2>4. CASE \E match \in BOOLEAN : Fastscan(match)
    <3>1. PICK state \in {"WAITING", "CONFIGURATION"} :
            lss' = [lssState |-> state, activeNodeID |-> lss.activeNodeID,
                    service |-> "IDENT_FASTSCAN", nid |-> lss.nid]
      BY <2>4 DEF Fastscan
    <3>2. ~ Chosen
      BY <2>4 DEF Fastscan
    <3> QED
      BY <3>1, <3>2
  <2>5. CASE \E nid \in Nids, service \in {"CFG_NODE_ID", "CFG_STORE", "INQUIRE"} :
               Configure(service, nid)
    <3>1. PICK nid \in Nids, service \in {"CFG_NODE_ID", "CFG_STORE", "INQUIRE"} :
            Configure(service, nid)
      BY <2>5
    <3>2. lss' = [lssState |-> "CONFIGURATION", activeNodeID |-> lss.activeNodeID,
                  service |-> service, nid |-> nid]
      BY <3>1 DEF Configure
    <3> QED
      BY <3>2
  <2> QED
    BY <2>1, <2>2, <2>3, <2>4, <2>5 DEF LssFrame, CO_LSSslave_receive, Identifiers
<1>4. LssShape'
  BY <1>1, <1>2, <1>3 DEF LssShape, IdentityInv, Shape
<1>5. mainThread.at \notin {"erasing", "programming"}
  BY <1>2 DEF IdentityInv, ThreadFollowsSlave
<1>6. ThreadFollowsSlave'
  BY <1>2, <1>3, <1>5 DEF IdentityInv, ThreadFollowsSlave, Unassigned, Chosen
<1>7. NoLostAssignment'
  BY <1>2, <1>3 DEF IdentityInv, NoLostAssignment, Unassigned, Chosen
<1>8. StoreHolds'
  BY <1>2 DEF IdentityInv, StoreHolds
<1>9. TransportShape' /\ BusShape' /\ SilentUnassigned'
  BY <1>2, <1>3
  DEF IdentityInv, Shape, TransportShape, BusShape, SilentUnassigned, Deaf, RingEmpty, Unassigned,
      transportVars
<1> QED
  BY <1>4, <1>6, <1>7, <1>8, <1>9 DEF IdentityInv, Shape

\* An answer of the slave.
LEMMA AnsweredSlave ==
  ASSUME LssShape, Answered
  PROVE  lss' = [lssState |-> lss.lssState, activeNodeID |-> lss.activeNodeID,
                 service |-> "none", nid |-> BadNodeId]
BY DEF Answered, LssShape

\* What the main thread does leaves the transport alone: the rest is about the identity.
LEMMA MainThreadRest ==
  ASSUME IdentityInv, MainThread, lss'.activeNodeID = lss.activeNodeID
  PROVE  TransportShape' /\ BusShape' /\ SilentUnassigned'
<1>1. UNCHANGED <<transportVars, up, otaThread, sender>>
  BY DEF MainThread, busVars
<1> QED
  BY <1>1
  DEF IdentityInv, Shape, TransportShape, BusShape, SilentUnassigned, Deaf, RingEmpty, Unassigned,
      transportVars

LEMMA MainThreadIdentity ==
  ASSUME IdentityInv, MainThread
  PROVE  IdentityInv'
<1> USE DEF Services
<1>1. LssShape /\ ThreadFollowsSlave /\ StoreHolds /\ NoLostAssignment /\ up
  BY DEF IdentityInv, Shape, MainThread
<1>2. lss \in [lssState : {"WAITING", "CONFIGURATION"}, activeNodeID : Identifiers,
                service : Services, nid : Identifiers \cup {BadNodeId}]
        /\ s_lss_pending_node_id \in Identifiers
        /\ mainThread \in [at : {"loop", "erasing", "programming", "reset"},
                           previous : Words \cup {Torn}]
  BY <1>1 DEF LssShape
<1>3. up' = up
  BY DEF MainThread
<1>4. BadNodeId \notin Identifiers /\ \A id \in Identifiers : PackLssConfiguration(id) \in Words
  BY NodeIdentifiers, PackedWord DEF Identifiers
<1>5. InLoop \in [at : {"loop", "erasing", "programming", "reset"}, previous : Words \cup {Torn}]
        /\ InLoop.at = "loop"
  BY BlankWord DEF InLoop
<1>6. CASE Inquire
  <2>1. lss' = [lssState |-> lss.lssState, activeNodeID |-> lss.activeNodeID,
                service |-> "none", nid |-> BadNodeId]
    BY <1>1, <1>6, AnsweredSlave DEF Inquire
  <2>2. mainThread.at = "loop" /\ lss.service # "SWITCH_STATE_GLOBAL"
          /\ UNCHANGED <<s_lss_pending_node_id, s_lss_storage_word, storage, mainThread, storedAs>>
    BY <1>6 DEF Inquire
  <2>3. LssShape'
    BY <1>1, <1>2, <2>1, <2>2 DEF LssShape
  <2>4. ThreadFollowsSlave' /\ StoreHolds' /\ NoLostAssignment'
    BY <1>1, <1>3, <2>1, <2>2
    DEF ThreadFollowsSlave, StoreHolds, NoLostAssignment, Unassigned, Chosen
  <2> QED
    BY <2>1, <2>3, <2>4, MainThreadRest DEF IdentityInv, Shape
<1>7. CASE RequestResetCommunication
  <2>1. lss' = [lssState |-> lss.lssState, activeNodeID |-> lss.activeNodeID,
                service |-> "none", nid |-> BadNodeId]
    BY <1>1, <1>7, AnsweredSlave DEF RequestResetCommunication
  <2>2. UNCHANGED <<s_lss_pending_node_id, s_lss_storage_word, storage, storedAs>>
          /\ mainThread' = [at |-> "reset", previous |-> mainThread.previous]
          /\ lss.service = "SWITCH_STATE_GLOBAL" /\ mainThread.at = "loop"
    BY <1>2, <1>7 DEF RequestResetCommunication
  <2>3. LssShape'
    BY <1>1, <1>2, <2>1, <2>2 DEF LssShape
  <2>4. ThreadFollowsSlave' /\ StoreHolds' /\ NoLostAssignment'
    BY <1>1, <1>3, <2>1, <2>2
    DEF ThreadFollowsSlave, StoreHolds, NoLostAssignment, Unassigned, Chosen
  <2> QED
    BY <2>1, <2>3, <2>4, MainThreadRest DEF IdentityInv, Shape
<1>8. CASE ConfigureNodeId
  <2>1. lss' = [lssState |-> lss.lssState, activeNodeID |-> lss.activeNodeID,
                service |-> "none", nid |-> BadNodeId]
    BY <1>1, <1>8, AnsweredSlave DEF ConfigureNodeId
  <2>2. UNCHANGED <<s_lss_storage_word, storage, mainThread, storedAs>> /\ mainThread.at = "loop"
          /\ lss.lssState = "CONFIGURATION" /\ s_lss_pending_node_id' \in Identifiers
    BY <1>1, <1>2, <1>8
    DEF ConfigureNodeId, ThreadFollowsSlave, ValidLssNodeId, Identifiers
  <2>3. LssShape'
    BY <1>1, <1>2, <2>1, <2>2 DEF LssShape
  <2>4. ThreadFollowsSlave' /\ StoreHolds' /\ NoLostAssignment'
    BY <1>1, <1>3, <2>1, <2>2
    DEF ThreadFollowsSlave, StoreHolds, NoLostAssignment, Unassigned, Chosen
  <2> QED
    BY <2>1, <2>3, <2>4, MainThreadRest DEF IdentityInv, Shape
<1>9. CASE StoreLssConfiguration
  <2>1. /\ mainThread.at = "loop" /\ lss.service = "CFG_STORE" /\ lss.lssState = "CONFIGURATION"
        /\ s_lss_storage_word' = PackLssConfiguration(s_lss_pending_node_id)
        /\ UNCHANGED <<s_lss_pending_node_id, storage>>
    BY <1>1, <1>9 DEF StoreLssConfiguration, ThreadFollowsSlave
  <2>2. CASE storage = s_lss_storage_word'
    <3>1. lss' = [lssState |-> lss.lssState, activeNodeID |-> lss.activeNodeID,
                  service |-> "none", nid |-> BadNodeId]
      BY <1>1, <1>9, <2>2, AnsweredSlave DEF StoreLssConfiguration
    <3>2. storedAs' = s_lss_pending_node_id /\ UNCHANGED mainThread
      BY <1>9, <2>2 DEF StoreLssConfiguration
    <3>3. LssShape'
      BY <1>1, <1>2, <1>4, <2>1, <3>1, <3>2 DEF LssShape
    <3>4. ThreadFollowsSlave' /\ NoLostAssignment'
      BY <1>1, <1>3, <2>1, <3>1, <3>2
      DEF ThreadFollowsSlave, NoLostAssignment, Unassigned, Chosen
    <3>5. StoreHolds'
      BY <2>1, <2>2, <3>2 DEF StoreHolds
    <3> QED
      BY <3>1, <3>3, <3>4, <3>5, MainThreadRest DEF IdentityInv, Shape
  <2>3. CASE storage # s_lss_storage_word'
    <3>1. mainThread' = [at |-> "erasing", previous |-> s_lss_storage_word]
            /\ storedAs' = BadNodeId /\ UNCHANGED lss
      BY <1>9, <2>3 DEF StoreLssConfiguration
    <3>2. LssShape'
      BY <1>1, <1>2, <1>4, <2>1, <3>1 DEF LssShape
    <3>3. ThreadFollowsSlave' /\ StoreHolds' /\ NoLostAssignment'
      BY <1>1, <1>3, <2>1, <3>1
      DEF ThreadFollowsSlave, StoreHolds, NoLostAssignment, Unassigned, Chosen
    <3> QED
      BY <3>1, <3>2, <3>3, MainThreadRest DEF IdentityInv, Shape
  <2> QED
    BY <2>2, <2>3
<1>10. ASSUME mainThread.at \in {"erasing", "programming"}, StoreFails,
              storage' \in Words \cup {Torn}, UNCHANGED <<s_lss_pending_node_id, storedAs>>
       PROVE  IdentityInv'
  <2>1. lss' = [lssState |-> lss.lssState, activeNodeID |-> lss.activeNodeID,
                service |-> "none", nid |-> BadNodeId]
    BY <1>1, <1>10, AnsweredSlave DEF StoreFails
  <2>2. lss.lssState = "CONFIGURATION" /\ storedAs = BadNodeId
    BY <1>1, <1>10 DEF ThreadFollowsSlave, StoreHolds
  <2>3. mainThread' = InLoop /\ s_lss_storage_word' = mainThread.previous
    BY <1>10 DEF StoreFails
  <2>4. LssShape'
    BY <1>1, <1>2, <1>5, <1>10, <2>1, <2>3 DEF LssShape
  <2>5. ThreadFollowsSlave' /\ NoLostAssignment'
    BY <1>5, <2>1, <2>2, <2>3 DEF ThreadFollowsSlave, NoLostAssignment
  <2>6. StoreHolds'
    BY <1>5, <1>10, <2>2, <2>3 DEF StoreHolds
  <2> QED
    BY <2>1, <2>4, <2>5, <2>6, MainThreadRest DEF IdentityInv, Shape
<1>11. CASE EraseStorage
  <2>1. CASE storage' = Blank /\ mainThread' = [mainThread EXCEPT !.at = "programming"]
               /\ UNCHANGED <<lss, s_lss_storage_word>>
    <3>1. mainThread.at = "erasing" /\ UNCHANGED <<s_lss_pending_node_id, storedAs>>
            /\ mainThread' = [at |-> "programming", previous |-> mainThread.previous]
      BY <1>2, <1>11, <2>1 DEF EraseStorage
    <3>2. LssShape'
      BY <1>1, <1>2, <2>1, <3>1, BlankWord DEF LssShape
    <3>3. ThreadFollowsSlave' /\ NoLostAssignment'
      BY <1>1, <1>3, <2>1, <3>1 DEF ThreadFollowsSlave, NoLostAssignment, Unassigned, Chosen
    <3>4. StoreHolds'
      BY <1>1, <2>1, <3>1 DEF StoreHolds
    <3> QED
      BY <2>1, <3>2, <3>3, <3>4, MainThreadRest DEF IdentityInv, Shape
  <2>2. CASE storage' \in {storage, Torn} /\ StoreFails
    BY <1>1, <1>10, <1>11, <2>2 DEF EraseStorage, LssShape
  <2> QED
    BY <1>11, <2>1, <2>2 DEF EraseStorage
<1>12. CASE ProgramStorage
  <2>1. mainThread.at = "programming" /\ UNCHANGED s_lss_pending_node_id
          /\ lss.lssState = "CONFIGURATION"
          /\ s_lss_storage_word = PackLssConfiguration(s_lss_pending_node_id)
    BY <1>1, <1>12 DEF ProgramStorage, ThreadFollowsSlave, StoreHolds
  <2>2. CASE storage' = s_lss_storage_word /\ mainThread' = InLoop
               /\ storedAs' = s_lss_storage_word.node_id /\ Answered
               /\ UNCHANGED s_lss_storage_word
    <3>1. lss' = [lssState |-> lss.lssState, activeNodeID |-> lss.activeNodeID,
                  service |-> "none", nid |-> BadNodeId]
      BY <1>1, <2>2, AnsweredSlave
    <3>2. storedAs' = s_lss_pending_node_id
      BY <2>1, <2>2 DEF PackLssConfiguration
    <3>3. LssShape'
      BY <1>1, <1>2, <1>5, <2>1, <2>2, <3>1, <3>2 DEF LssShape
    <3>4. ThreadFollowsSlave' /\ NoLostAssignment'
      BY <1>5, <2>1, <2>2, <3>1 DEF ThreadFollowsSlave, NoLostAssignment
    <3>5. StoreHolds'
      BY <1>5, <2>1, <2>2, <3>2 DEF StoreHolds
    <3> QED
      BY <3>1, <3>3, <3>4, <3>5, MainThreadRest DEF IdentityInv, Shape
  <2>3. CASE storage' \in {Blank, Torn} /\ StoreFails /\ UNCHANGED storedAs
    BY <1>10, <2>1, <2>3, BlankWord
  <2> QED
    BY <1>12, <2>2, <2>3 DEF ProgramStorage
<1> QED
  BY <1>6, <1>7, <1>8, <1>9, <1>11, <1>12 DEF MainThread

----------------------------------------------------------------------------
(* Starts *)

\* A transport that was cleared is a transport.
LEMMA ClearedShape ==
  ASSUME TransportCleared
  PROVE  TransportShape' /\ RingEmpty' /\ link' = IdleLink /\ ~ serving'
<1>1. s_can_rx_queue' = <<>> /\ link' = IdleLink
  BY DEF TransportCleared
<1>2. serving' = FALSE
  BY Zenon DEF TransportCleared
<1>3. IdleLink \in [receive_status : {"IDLE", "INPROGRESS", "FULL"}, received : Seq(Frames),
                    send_status : {"IDLE", "WAITING", "SENDING"}]
        /\ Len(IdleLink.received) = 0 /\ IdleLink.receive_status = "IDLE"
  BY DEF IdleLink
<1>4. s_can_rx_queue' \in Seq(Frames) /\ Len(s_can_rx_queue') < CAN_RX_QUEUE_CAPACITY
  BY <1>1, TransportSizes
<1>5. Len(link'.received) <= PduFrames /\ link'.receive_status # "INPROGRESS"
  BY <1>1, <1>3, TransportSizes
<1>6. serving' \in BOOLEAN
  BY <1>2, Zenon
<1> HIDE DEF TransportCleared
<1>7. TransportShape'
  BY <1>1, <1>3, <1>4, <1>5, <1>6, Zenon DEF TransportShape
<1> QED
  BY <1>1, <1>2, <1>7, Zenon DEF RingEmpty

\* A slave that starts has the identifier it is given, and nothing to do.
LEMMA StartedSlave ==
  ASSUME LssShape, NEW id \in Identifiers, lss' = CO_LSSslave_init(id),
         s_lss_pending_node_id' = id, mainThread' = InLoop, UNCHANGED <<storage, storedAs>>,
         s_lss_storage_word' \in Words \cup {Torn}, StoreHolds
  PROVE  LssShape' /\ ThreadFollowsSlave' /\ StoreHolds' /\ NoLostAssignment'
<1>1. lss' \in [lssState : {"WAITING", "CONFIGURATION"}, activeNodeID : Identifiers,
                service : Services, nid : Identifiers \cup {BadNodeId}]
        /\ lss'.activeNodeID = id /\ lss'.service = "none"
  BY DEF CO_LSSslave_init, Services
<1>2. InLoop \in [at : {"loop", "erasing", "programming", "reset"}, previous : Words \cup {Torn}]
        /\ InLoop.at = "loop"
  BY BlankWord DEF InLoop
<1>3. LssShape'
  BY <1>1, <1>2 DEF LssShape
<1>4. ThreadFollowsSlave' /\ NoLostAssignment'
  BY <1>1, <1>2 DEF ThreadFollowsSlave, NoLostAssignment, Unassigned, Chosen
<1>5. StoreHolds'
  BY <1>2 DEF StoreHolds
<1> QED
  BY <1>3, <1>4, <1>5

LEMMA ResetCommunicationIdentity ==
  ASSUME IdentityInv, ResetCommunication
  PROVE  IdentityInv'
<1>1. LssShape /\ StoreHolds /\ s_lss_pending_node_id \in Identifiers
        /\ s_lss_storage_word \in Words \cup {Torn}
  BY DEF IdentityInv, Shape, LssShape
<1>2. /\ TransportCleared /\ mainThread' = InLoop /\ otaThread = "asleep"
      /\ lss' = CO_LSSslave_init(s_lss_pending_node_id)
      /\ UNCHANGED <<s_lss_pending_node_id, s_lss_storage_word, storage, storedAs, otaThread,
                     sender>>
  BY DEF ResetCommunication
<1>3. LssShape' /\ ThreadFollowsSlave' /\ StoreHolds' /\ NoLostAssignment'
  BY <1>1, <1>2, StartedSlave
<1>4. TransportShape' /\ SilentUnassigned'
  BY <1>2, ClearedShape DEF SilentUnassigned, Deaf
<1>5. up' \in BOOLEAN
  BY DEF ResetCommunication
<1>6. BusShape'
  BY <1>2, <1>5 DEF BusShape, IdentityInv, Shape
<1> QED
  BY <1>3, <1>4, <1>6 DEF IdentityInv, Shape

LEMMA PowerFailsIdentity ==
  ASSUME IdentityInv, PowerFails
  PROVE  IdentityInv'
<1>1. LssShape /\ StoreHolds /\ ThreadFollowsSlave /\ BusShape
  BY DEF IdentityInv, Shape
<1>2. /\ TransportCleared /\ mainThread' = InLoop /\ otaThread' = "asleep" /\ up' = FALSE
      /\ storage' \in StorageLeft
      /\ UNCHANGED <<lss, s_lss_pending_node_id, s_lss_storage_word, storedAs, sender>>
  BY DEF PowerFails
<1>3. InLoop \in [at : {"loop", "erasing", "programming", "reset"}, previous : Words \cup {Torn}]
        /\ InLoop.at = "loop"
  BY BlankWord DEF InLoop
<1>4. storage' \in Words \cup {Torn}
        /\ (mainThread.at \notin {"erasing", "programming"} => storage' = storage)
  BY <1>1, <1>2, BlankWord, SMT DEF StorageLeft, LssShape
<1>5. LssShape'
  BY <1>1, <1>2, <1>3, <1>4 DEF LssShape
<1>6. ThreadFollowsSlave' /\ NoLostAssignment'
  BY <1>1, <1>2, <1>3 DEF ThreadFollowsSlave, NoLostAssignment, Unassigned, Chosen
<1>7. StoreHolds'
  BY <1>1, <1>2, <1>3, <1>4 DEF StoreHolds
<1>8. TransportShape' /\ SilentUnassigned'
  BY <1>2, ClearedShape DEF SilentUnassigned, Deaf
<1>9. BusShape'
  BY <1>1, <1>2 DEF BusShape
<1> QED
  BY <1>5, <1>6, <1>7, <1>8, <1>9 DEF IdentityInv, Shape

LEMMA RestartIdentity ==
  ASSUME IdentityInv, Restart
  PROVE  IdentityInv'
<1>1. LssShape /\ StoreHolds /\ storage \in Words \cup {Torn}
        /\ StoredNodeId(storage) \in Identifiers
  BY StoredIsIdentifier DEF IdentityInv, Shape, LssShape
<1>2. /\ ~ up /\ up' = TRUE /\ s_lss_storage_word' = storage
      /\ s_lss_pending_node_id' = StoredNodeId(storage)
      /\ lss' = CO_LSSslave_init(StoredNodeId(storage)) /\ mainThread' = InLoop
      /\ UNCHANGED <<transportVars, otaThread, sender, storage, storedAs>>
  BY DEF Restart, StartLss, busVars
<1>3. LssShape' /\ ThreadFollowsSlave' /\ StoreHolds' /\ NoLostAssignment'
  BY <1>1, <1>2, StartedSlave
<1>4. TransportShape' /\ SilentUnassigned' /\ BusShape'
  BY <1>2
  DEF IdentityInv, Shape, TransportShape, BusShape, SilentUnassigned, Deaf, RingEmpty,
      transportVars
<1> QED
  BY <1>3, <1>4 DEF IdentityInv, Shape

----------------------------------------------------------------------------
(* The theorems *)

\* Every step keeps the identity of the node.
THEOREM StepIdentity == IdentityInv /\ [Next]_vars => IdentityInv'
<1> SUFFICES ASSUME IdentityInv, [Next]_vars PROVE IdentityInv'
  OBVIOUS
<1>1. CASE UNCHANGED vars
  <2>1. LssShape' /\ ThreadFollowsSlave' /\ StoreHolds' /\ NoLostAssignment'
    BY <1>1, IdentityKept DEF vars, IdentityInv, Shape
  <2>2. TransportShape' /\ BusShape' /\ SilentUnassigned'
    BY <1>1
    DEF vars, IdentityInv, Shape, TransportShape, BusShape, SilentUnassigned, Deaf, RingEmpty,
        Unassigned, transportVars, lssVars, busVars
  <2> QED
    BY <2>1, <2>2 DEF IdentityInv, Shape
<1> QED
  BY <1>1, StartRequestIdentity, SendConsecutiveIdentity, GatewayIdentity,
     ClientFlowControlIdentity, LssFrameIdentity, WakesIdentity, PollsFrameIdentity,
     UDS_PollIdentity, MainThreadIdentity, ResetCommunicationIdentity, PowerFailsIdentity,
     RestartIdentity
  DEF Next

\* Interrupt, main thread and OTA thread agree on the identity of the node in every state (CO_LSSslave
\* and ResetCommunication).
THEOREM IdentityInvariant == Spec => []IdentityInv
BY InitIdentity, StepIdentity, PTL DEF Spec

\* Every variable keeps its type: the ring keeps a slot empty, a reception stays within its PDU,
\* and an identifier is a valid one (CO_LSSslave_process, ValidLssNodeId).
THEOREM TypeCorrect == Spec => []TypeOK
<1>1. IdentityInv => TypeOK
  BY DEF IdentityInv, Shape, TransportShape, LssShape, TypeOK
<1> QED
  BY <1>1, IdentityInvariant, PTL

\* A node that got its first identifier has it, or is about to restart with it: the answer of
\* the main thread never finds the slave where the interrupt did not leave it
\* (CO_LSSslave_receive, CO_LSSslave_process).
THEOREM AssignmentNeverLost == Spec => []NoLostAssignment
<1>1. IdentityInv => NoLostAssignment
  BY DEF IdentityInv
<1> QED
  BY <1>1, IdentityInvariant, PTL

\* ResetCommunication never throws away a frame, a request or an answer.
THEOREM ResetIsHarmless == Spec => []ResetCutsNothingShort
<1>1. IdentityInv => ResetCutsNothingShort
  BY DEF IdentityInv, ThreadFollowsSlave, SilentUnassigned, Deaf, ResetCutsNothingShort
<1> QED
  BY <1>1, IdentityInvariant, PTL

\* A node starts with the identifier whose store it last confirmed, wherever the power fails
\* (StoreLssConfiguration, CO_storageBlank_auto_process, UnpackLssConfiguration).
THEOREM IdentifierSurvives == Spec => StoredIdentifierComesBack
<1> DEFINE Step == storedAs # BadNodeId /\ ~ up /\ up' => lss'.activeNodeID = storedAs
<1>1. IdentityInv /\ [Next]_vars => [Step]_vars
  <2> SUFFICES ASSUME IdentityInv, Next, storedAs # BadNodeId, ~ up, up'
               PROVE  lss'.activeNodeID = storedAs
    BY DEF vars
  <2>1. Restart
    BY DEF Next, StartRequest, SendConsecutive, OnBus, FlowControlArrives, GivesUp,
           ClientFlowControl, LssFrame, Wakes, PollsFrame, RingPolled, UDS_Poll, MainThread,
           ResetCommunication, PowerFails
  <2>2. storedAs \in Identifiers /\ storage = PackLssConfiguration(storedAs)
    BY DEF IdentityInv, Shape, LssShape, StoreHolds
  <2>3. lss' = CO_LSSslave_init(StoredNodeId(storage))
    BY <2>1 DEF Restart, StartLss
  <2> QED
    BY <2>2, <2>3, UnpackPack DEF CO_LSSslave_init
<1> QED
  BY <1>1, IdentityInvariant, PTL DEF Spec, StoredIdentifierComesBack

\* The steps that leave the link as it is, or find nothing in it.
LEMMA LinkChanges ==
  ASSUME IdentityInv, Next
  PROVE  \/ UNCHANGED <<link, serving>>
         \/ PollsFrame
         \/ UDS_Poll
         \/ PowerFails
         \/ ResetCommunication /\ link = IdleLink /\ RingEmpty
<1>1. ResetCommunication => link = IdleLink /\ RingEmpty
  BY DEF ResetCommunication, IdentityInv, ThreadFollowsSlave, SilentUnassigned, Deaf
<1> QED
  BY <1>1
  DEF Next, StartRequest, SendConsecutive, OnBus, FlowControlArrives, GivesUp, ClientFlowControl,
      LssFrame, Wakes, RingPolled, MainThread, Restart, transportVars

\* A complete request leaves the link only for the server, or with the power: neither a later
\* frame nor ResetCommunication takes it away (the guard in PollUdsCanFrames).
THEOREM RequestNeverOverwritten == Spec => PendingRequestStays
<1> DEFINE Step == link.receive_status = "FULL" /\ link'.receive_status # "FULL"
                     => serving' # serving \/ (up /\ ~ up')
<1>1. IdentityInv /\ [Next]_vars => [Step]_vars
  <2> SUFFICES ASSUME IdentityInv, Next, link.receive_status = "FULL",
                      link'.receive_status # "FULL"
               PROVE  serving' # serving \/ (up /\ ~ up')
    BY DEF vars
  <2>1. link \in [receive_status : {"IDLE", "INPROGRESS", "FULL"}, received : Seq(Frames),
                  send_status : {"IDLE", "WAITING", "SENDING"}]
    BY DEF IdentityInv, Shape, TransportShape
  <2>2. CASE PollsFrame
    <3>1. link' = isotp_on_can_message(link, NextFrame) /\ NextFrame.type = "FC"
      BY <2>2 DEF PollsFrame, PollUdsCanFrame, Delivers
    <3>2. \/ link' = link
          \/ link' = [receive_status |-> link.receive_status, received |-> link.received,
                      send_status |-> "SENDING"]
      BY <2>1, <3>1 DEF isotp_on_can_message
    <3> QED
      BY <3>2
  <2>3. CASE UDS_Poll
    <3>1. \E send : \/ link' = [receive_status |-> link.receive_status,
                                received |-> link.received, send_status |-> send]
                    \/ serving' # serving
      BY <2>1, <2>3, ServedLink, Zenon
    <3> QED
      BY <3>1
  <2>4. CASE PowerFails
    BY <2>4 DEF PowerFails
  <2> QED
    BY <2>2, <2>3, <2>4, LinkChanges DEF IdleLink
<1> QED
  BY <1>1, IdentityInvariant, PTL DEF Spec, PendingRequestStays

\* The flow control of an answer gets through even while a complete request holds the link (the
\* other half of that guard).
THEOREM FlowControlGetsThrough == Spec => FlowControlIsHeard
<1> DEFINE Step == up' /\ ~ RingEmpty /\ link.send_status = "WAITING"
                     /\ s_can_rx_queue' = Tail(s_can_rx_queue) /\ NextFrame.type = "FC"
                   => link'.send_status = "SENDING"
<1>1. IdentityInv /\ [Next]_vars => [Step]_vars
  <2> SUFFICES ASSUME IdentityInv, Next, up', ~ RingEmpty, link.send_status = "WAITING",
                      s_can_rx_queue' = Tail(s_can_rx_queue), NextFrame.type = "FC"
               PROVE  link'.send_status = "SENDING"
    BY DEF vars
  <2>1. s_can_rx_queue \in Seq(Frames) /\ s_can_rx_queue # <<>>
          /\ link \in [receive_status : {"IDLE", "INPROGRESS", "FULL"}, received : Seq(Frames),
                       send_status : {"IDLE", "WAITING", "SENDING"}]
    BY DEF IdentityInv, Shape, TransportShape, RingEmpty
  <2>2. s_can_rx_queue' # s_can_rx_queue
          /\ \A frame : s_can_rx_queue' # Append(s_can_rx_queue, frame)
    BY <2>1
  <2>3. ~ UNCHANGED s_can_rx_queue /\ ~ \E frame : OnBus(frame)
    BY <2>2 DEF OnBus, ReceiveUdsCanFrame
  <2>4. ~ PowerFails /\ ~ ResetCommunication
    BY DEF PowerFails, ResetCommunication, IdentityInv, ThreadFollowsSlave, SilentUnassigned, Deaf
  <2>5. PollsFrame
    BY <2>3, <2>4
    DEF Next, StartRequest, SendConsecutive, FlowControlArrives, GivesUp, ClientFlowControl,
        LssFrame, Wakes, RingPolled, UDS_Poll, MainThread, Restart, transportVars
  <2>6. link' = isotp_on_can_message(link, NextFrame)
    BY <2>5 DEF PollsFrame, PollUdsCanFrame, Delivers
  <2>7. link' = [receive_status |-> link.receive_status, received |-> link.received,
                 send_status |-> "SENDING"]
    BY <2>1, <2>6 DEF isotp_on_can_message
  <2> QED
    BY <2>7
<1> QED
  BY <1>1, IdentityInvariant, PTL DEF Spec, FlowControlIsHeard

----------------------------------------------------------------------------
(* The way of a request *)

Requests(ring) == {i \in 1 .. Len(ring) : ring[i].type # "FC"}
Controls(ring) == {i \in 1 .. Len(ring) : ring[i].type = "FC"}

\* One past the last frame of the block a reception of len frames is in.
BlockEnd(len) == len - ((len - 1) % BlockSize) + BlockSize

\* The ring holds frames of one request, in order; a first frame is there alone.
OneRequest ==
  /\ \A i \in Requests(s_can_rx_queue) : s_can_rx_queue[i].pdu = sender.pdu /\ ~ heardSince
  /\ \A i, j \in Requests(s_can_rx_queue) :
       i < j => s_can_rx_queue[i].index < s_can_rx_queue[j].index

FirstAlone ==
  \A i \in Requests(s_can_rx_queue) : s_can_rx_queue[i].type # "CF" =>
    /\ s_can_rx_queue[i].index = 0
    /\ Requests(s_can_rx_queue) = {i}
    /\ ~ flowControl /\ sender.state # "sending"
    /\ sender.state = "waiting" => sender.next = 1

\* What the sender may still send and what it has in the ring is no more than a block.
WithinBlock ==
  /\ Cardinality(Requests(s_can_rx_queue)) <= BlockSize
  /\ sender.state = "sending" =>
       sender.credit >= 1 /\ Cardinality(Requests(s_can_rx_queue)) + sender.credit <= BlockSize
  /\ sender.state # "idle" =>
       \A i \in Requests(s_can_rx_queue) : s_can_rx_queue[i].index < sender.next
  /\ flowControl => Requests(s_can_rx_queue) = {} /\ sender.state # "sending"

\* What was received is whole so far.
ReceivedInOrder(frames) ==
  \A i \in 1 .. Len(frames) : frames[i].pdu = frames[1].pdu /\ frames[i].index = i - 1

LinkWhole ==
  /\ link.receive_status \in {"INPROGRESS", "FULL"} =>
       Len(link.received) >= 1 /\ ReceivedInOrder(link.received)
  /\ link.receive_status = "INPROGRESS" => link.received[1].type = "FF"
  /\ link.receive_status = "FULL" =>
       Len(link.received) = IF link.received[1].type = "SF" THEN 1 ELSE PduFrames

\* A reception under way is in the block the sender is in, unless a first frame is about to end it.
InStep ==
  link.receive_status = "INPROGRESS"
    /\ (\A i \in Requests(s_can_rx_queue) : s_can_rx_queue[i].type = "CF") =>
  LET len == Len(link.received) IN
  /\ Requests(s_can_rx_queue) # {} \/ flowControl \/ sender.state = "sending" =>
       link.received[1].pdu = sender.pdu
  /\ \A i \in Requests(s_can_rx_queue) :
       len <= s_can_rx_queue[i].index /\ s_can_rx_queue[i].index < BlockEnd(len)
  /\ sender.state = "sending" => len <= sender.next /\ sender.next + sender.credit = BlockEnd(len)
  /\ sender.state = "waiting" /\ Requests(s_can_rx_queue) # {} => sender.next = BlockEnd(len)
  /\ flowControl =>
       BlockEnd(len) = len + BlockSize /\ (sender.state = "waiting" => sender.next = len)

\* Answers bring at most two flow controls into the ring, one while the server works.
FewControls ==
  LET owed == Cardinality(Controls(s_can_rx_queue)) + (IF clientOwes THEN 1 ELSE 0) IN
  /\ owed <= 2
  /\ serving \/ otaThread = "serving" => owed <= 1

RingInv == OneRequest /\ FirstAlone /\ WithinBlock
FlowInv == RingInv /\ LinkWhole /\ InStep /\ FewControls

----------------------------------------------------------------------------
(* Arithmetic of sequence numbers and blocks *)

\* A number is so many times the modulus, and a remainder below it.
LEMMA Remainder ==
  ASSUME NEW m \in Nat \ {0}, NEW x \in Nat
  PROVE  x % m \in 0 .. m - 1 /\ \E q \in Nat : x = m * q + (x % m)
<1>1. x % m \in 0 .. m - 1
  OBVIOUS
<1>2. x \div m \in Nat
  OBVIOUS
<1>3. x = m * (x \div m) + (x % m)
  OBVIOUS
<1> QED
  BY <1>1, <1>2, <1>3

\* A multiple of m that is less than another is at least m less.
LEMMA Multiples ==
  ASSUME NEW m \in Nat \ {0}, NEW p \in Nat, NEW q \in Nat
  PROVE  /\ m * p \in Nat /\ m * q \in Nat
         /\ p < q => m * p + m <= m * q
<1>1. m * p \in Nat /\ m * q \in Nat
  OBVIOUS
<1>2. ASSUME p < q PROVE m * p + m <= m * q
  <2>1. m * (p + 1) <= m * q
    BY <1>2
  <2>2. m * (p + 1) = m * p + m
    OBVIOUS
  <2> QED
    BY <2>1, <2>2
<1> QED
  BY <1>1, <1>2

\* In only one way.
LEMMA RemainderUnique ==
  ASSUME NEW m \in Nat \ {0}, NEW p \in Nat, NEW q \in Nat, NEW r \in 0 .. m - 1,
         NEW t \in 0 .. m - 1, m * p + r = m * q + t
  PROVE  p = q /\ r = t
<1> DEFINE a == m * p
           b == m * q
<1>1. a \in Nat /\ b \in Nat /\ (p < q => a + m <= b) /\ (q < p => b + m <= a)
        /\ (p = q => a = b)
  BY Multiples
<1>2. a + r = b + t
  OBVIOUS
<1> HIDE DEF a, b
<1> QED
  BY <1>1, <1>2

\* The sequence number tells apart the frames that can follow each other.
LEMMA SequenceNumber ==
  ASSUME NEW m \in Nat \ {0}, NEW x \in Nat, NEW y \in Nat, x <= y, y < x + m, x % m = y % m
  PROVE  x = y
<1> DEFINE r == x % m
<1>1. PICK p \in Nat : x = m * p + r
  BY Remainder
<1>2. PICK q \in Nat : y = m * q + r
  <2>1. \E q \in Nat : y = m * q + (y % m)
    BY Remainder
  <2> QED
    BY <2>1, Zenon
<1>3. x % m \in 0 .. m - 1
  BY Remainder
<1> DEFINE a == m * p
           b == m * q
<1>4. a \in Nat /\ b \in Nat /\ (p < q => a + m <= b) /\ (q < p => b + m <= a)
        /\ (p = q => a = b)
  BY Multiples
<1>5. x = a + r /\ y = b + r
  BY <1>1, <1>2
<1>6. r \in 0 .. m - 1
  BY <1>3
<1> HIDE DEF a, b, r
<1> QED
  BY <1>4, <1>5, <1>6

\* The next number has the next remainder, or starts again.
LEMMA NextRemainder ==
  ASSUME NEW m \in Nat \ {0}, NEW x \in Nat
  PROVE  (x + 1) % m = IF x % m = m - 1 THEN 0 ELSE (x % m) + 1
<1> DEFINE r == x % m
           t == (x + 1) % m
<1>1. PICK p \in Nat : x = m * p + r
  BY Remainder
<1>2. PICK q \in Nat : x + 1 = m * q + t
  <2>1. x + 1 \in Nat
    OBVIOUS
  <2>2. \E q \in Nat : x + 1 = m * q + ((x + 1) % m)
    BY <2>1, Remainder, Zenon
  <2> QED
    BY <2>2, Zenon
<1>3. r \in 0 .. m - 1 /\ t \in 0 .. m - 1
  BY Remainder
<1> HIDE DEF r, t
<1>4. CASE r = m - 1
  <2>1. m * (p + 1) = m * p + m
    OBVIOUS
  <2>2. m * (p + 1) + 0 = m * q + t
    BY <1>1, <1>2, <1>3, <1>4, <2>1
  <2> QED
    BY <1>3, <1>4, <2>2, RemainderUnique DEF r, t
<1>5. CASE r # m - 1
  <2>1. m * p + (r + 1) = m * q + t
    BY <1>1, <1>2, <1>3
  <2>2. r + 1 \in 0 .. m - 1
    BY <1>3, <1>5
  <2>3. r + 1 = t
    BY <1>3, <2>1, <2>2, RemainderUnique
  <2> QED
    BY <1>5, <2>3 DEF r, t
<1> QED
  BY <1>4, <1>5

\* A block ends after its last frame, and the frame after that starts the next one.
LEMMA Blocks ==
  ASSUME NEW len \in Nat \ {0}
  PROVE  /\ BlockEnd(len) \in Int
         /\ len < BlockEnd(len) /\ BlockEnd(len) <= len + BlockSize
         /\ (len - 1) % BlockSize = 0 <=> BlockEnd(len) = len + BlockSize
         /\ BlockEnd(len) = len + 1 <=> len % BlockSize = 0
         /\ BlockEnd(len) # len + 1 => BlockEnd(len + 1) = BlockEnd(len)
<1> DEFINE r == (len - 1) % BlockSize
           s == len % BlockSize
<1>1. BlockSize \in Nat \ {0}
  BY TransportSizes
<1>2. r \in 0 .. BlockSize - 1
  BY <1>1, Remainder
<1>3. s = IF r = BlockSize - 1 THEN 0 ELSE r + 1
  <2>1. len - 1 \in Nat /\ (len - 1) + 1 = len
    OBVIOUS
  <2> QED
    BY <1>1, <2>1, NextRemainder
<1>4. BlockEnd(len) = len - r + BlockSize
  BY DEF BlockEnd
<1>5. BlockEnd(len + 1) = (len + 1) - s + BlockSize
  <2>1. (len + 1) - 1 = len
    OBVIOUS
  <2> QED
    BY <2>1, Zenon DEF BlockEnd
<1> HIDE DEF r, s
<1> QED
  BY <1>1, <1>2, <1>3, <1>4, <1>5 DEF r, s

----------------------------------------------------------------------------
(* The ring *)

\* The positions of a ring are few.
LEMMA RingPositions ==
  ASSUME NEW ring \in Seq(Frames)
  PROVE  /\ IsFiniteSet(Requests(ring)) /\ IsFiniteSet(Controls(ring))
         /\ Cardinality(Requests(ring)) \in Nat /\ Cardinality(Controls(ring)) \in Nat
         /\ Len(ring) <= Cardinality(Requests(ring)) + Cardinality(Controls(ring))
<1>1. Len(ring) \in Nat
  OBVIOUS
<1>2. IsFiniteSet(1 .. Len(ring)) /\ Cardinality(1 .. Len(ring)) = Len(ring)
  BY <1>1, FS_Interval
<1>3. Requests(ring) \subseteq 1 .. Len(ring) /\ Controls(ring) \subseteq 1 .. Len(ring)
        /\ Requests(ring) \cup Controls(ring) = 1 .. Len(ring)
        /\ Requests(ring) \cap Controls(ring) = {}
  BY DEF Requests, Controls
<1>4. IsFiniteSet(Requests(ring)) /\ IsFiniteSet(Controls(ring))
  BY <1>2, <1>3, FS_Subset
<1>5. Cardinality(Requests(ring)) \in Nat /\ Cardinality(Controls(ring)) \in Nat
  BY <1>4, FS_CardinalityType
<1>6. Cardinality(1 .. Len(ring)) =
        Cardinality(Requests(ring)) + Cardinality(Controls(ring)) - Cardinality({})
  BY <1>3, <1>4, FS_Union
<1>7. Cardinality({}) = 0
  BY FS_EmptySet
<1> QED
  BY <1>1, <1>2, <1>4, <1>5, <1>6, <1>7

\* What is in the ring is a frame.
LEMMA RingFrame ==
  ASSUME NEW ring \in Seq(Frames), NEW i \in Requests(ring)
  PROVE  ring[i] \in Frames /\ ring[i].index \in Nat /\ i \in Nat /\ 1 <= i
<1>1. i \in 1 .. Len(ring) /\ Len(ring) \in Nat
  BY DEF Requests
<1>2. ring[i] \in Frames
  BY <1>1
<1> QED
  BY <1>1, <1>2, TransportSizes DEF Frames

\* A frame that is added takes the last place.
LEMMA RingAppended ==
  ASSUME NEW ring \in Seq(Frames), NEW frame \in Frames
  PROVE  LET longer == Append(ring, frame) IN
         /\ longer \in Seq(Frames)
         /\ Requests(longer) =
              Requests(ring) \cup IF frame.type # "FC" THEN {Len(ring) + 1} ELSE {}
         /\ Controls(longer) =
              Controls(ring) \cup IF frame.type = "FC" THEN {Len(ring) + 1} ELSE {}
         /\ longer[Len(ring) + 1] = frame
         /\ \A i \in 1 .. Len(ring) : longer[i] = ring[i]
         /\ Cardinality(Requests(longer)) =
              Cardinality(Requests(ring)) + IF frame.type # "FC" THEN 1 ELSE 0
         /\ Cardinality(Controls(longer)) =
              Cardinality(Controls(ring)) + IF frame.type = "FC" THEN 1 ELSE 0
<1> DEFINE longer == Append(ring, frame)
           last == Len(ring) + 1
<1>1. Len(ring) \in Nat /\ Len(longer) = last /\ longer[last] = frame /\ longer \in Seq(Frames)
        /\ \A i \in 1 .. Len(ring) : longer[i] = ring[i]
  OBVIOUS
<1> HIDE DEF longer
<1>2. 1 .. last = (1 .. Len(ring)) \cup {last} /\ last \notin 1 .. Len(ring)
  BY <1>1
<1>3. Requests(longer) = Requests(ring) \cup IF frame.type # "FC" THEN {last} ELSE {}
  <2>1. CASE frame.type # "FC"
    BY <1>1, <1>2, <2>1 DEF Requests
  <2>2. CASE frame.type = "FC"
    BY <1>1, <1>2, <2>2 DEF Requests
  <2> QED
    BY <2>1, <2>2
<1>4. Controls(longer) = Controls(ring) \cup IF frame.type = "FC" THEN {last} ELSE {}
  <2>1. CASE frame.type # "FC"
    BY <1>1, <1>2, <2>1 DEF Controls
  <2>2. CASE frame.type = "FC"
    BY <1>1, <1>2, <2>2 DEF Controls
  <2> QED
    BY <2>1, <2>2
<1>5. last \notin Requests(ring) /\ last \notin Controls(ring)
  BY <1>2 DEF Requests, Controls
<1>6. Cardinality(Requests(ring) \cup {last}) = Cardinality(Requests(ring)) + 1
        /\ Cardinality(Controls(ring) \cup {last}) = Cardinality(Controls(ring)) + 1
  BY <1>5, RingPositions, FS_AddElement
<1>7. Cardinality(Requests(ring)) \in Nat /\ Cardinality(Controls(ring)) \in Nat
  BY RingPositions
<1>8. Cardinality(Requests(longer)) =
        Cardinality(Requests(ring)) + IF frame.type # "FC" THEN 1 ELSE 0
  <2>1. CASE frame.type # "FC"
    BY <1>3, <1>6, <1>7, <2>1
  <2>2. CASE frame.type = "FC"
    BY <1>3, <1>6, <1>7, <2>2
  <2> QED
    BY <2>1, <2>2
<1>9. Cardinality(Controls(longer)) =
        Cardinality(Controls(ring)) + IF frame.type = "FC" THEN 1 ELSE 0
  <2>1. CASE frame.type # "FC"
    BY <1>4, <1>6, <1>7, <2>1
  <2>2. CASE frame.type = "FC"
    BY <1>4, <1>6, <1>7, <2>2
  <2> QED
    BY <2>1, <2>2
<1> QED
  BY <1>1, <1>3, <1>4, <1>8, <1>9 DEF longer

\* Places that are each one before one of others are not more.
LEMMA ShiftedPlaces ==
  ASSUME NEW S \in SUBSET Int, NEW T, IsFiniteSet(T), \A i \in S : i + 1 \in T
  PROVE  Cardinality(S) <= Cardinality(T)
<1> DEFINE shift == [i \in S |-> i + 1]
<1>1. shift \in [S -> T]
  OBVIOUS
<1>2. \A a, b \in S : shift[a] = shift[b] => a = b
  OBVIOUS
<1>3. DOMAIN shift = S
  OBVIOUS
<1> HIDE DEF shift
<1>4. shift \in Injection(S, T)
  BY <1>1, <1>2, <1>3 DEF Injection, IsInjective
<1> QED
  BY <1>4, FS_Injection

\* A frame that is taken leaves the others, one place further on.
LEMMA RingShortened ==
  ASSUME NEW ring \in Seq(Frames), ring # <<>>
  PROVE  LET rest == Tail(ring) IN
         /\ rest \in Seq(Frames)
         /\ \A i \in Requests(rest) : i + 1 \in Requests(ring) /\ rest[i] = ring[i + 1]
         /\ \A i \in Requests(ring) : i > 1 => i - 1 \in Requests(rest)
         /\ Cardinality(Requests(rest)) <= Cardinality(Requests(ring))
         /\ Cardinality(Controls(rest)) <= Cardinality(Controls(ring))
<1> DEFINE rest == Tail(ring)
<1>1. Len(ring) \in Nat \ {0} /\ Len(rest) = Len(ring) - 1 /\ rest \in Seq(Frames)
        /\ \A i \in 1 .. Len(rest) : rest[i] = ring[i + 1]
  OBVIOUS
<1> HIDE DEF rest
<1>2. \A i \in 1 .. Len(rest) : i + 1 \in 1 .. Len(ring)
  BY <1>1
<1>3. \A i \in Requests(rest) : i + 1 \in Requests(ring) /\ rest[i] = ring[i + 1]
  BY <1>1, <1>2 DEF Requests
<1>4. \A i \in Controls(rest) : i + 1 \in Controls(ring)
  BY <1>1, <1>2 DEF Controls
<1>5. \A i \in Requests(ring) : i > 1 => i - 1 \in Requests(rest)
  BY <1>1 DEF Requests
<1>6. Cardinality(Requests(rest)) <= Cardinality(Requests(ring))
        /\ Cardinality(Controls(rest)) <= Cardinality(Controls(ring))
  <2>1. Requests(rest) \in SUBSET Int /\ Controls(rest) \in SUBSET Int
    BY DEF Requests, Controls
  <2> QED
    BY <1>3, <1>4, <2>1, ShiftedPlaces, RingPositions
<1> QED
  BY <1>1, <1>3, <1>5, <1>6 DEF rest

\* Nothing is in an empty ring.
LEMMA EmptyRing ==
  /\ Requests(<<>>) = {} /\ Controls(<<>>) = {}
  /\ Cardinality(Requests(<<>>)) = 0 /\ Cardinality(Controls(<<>>)) = 0
<1>1. 1 .. Len(<<>>) = {}
  OBVIOUS
<1>2. Requests(<<>>) = {} /\ Controls(<<>>) = {}
  BY <1>1 DEF Requests, Controls
<1> QED
  BY <1>2, FS_EmptySet

\* The parts of the state the proofs below speak of.
LEMMA FlowTypes ==
  ASSUME IdentityInv
  PROVE  /\ s_can_rx_queue \in Seq(Frames)
         /\ sender \in [state : {"idle", "waiting", "sending"}, pdu : Pdus,
                        next : 0 .. PduFrames - 1, credit : Int]
         /\ link \in [receive_status : {"IDLE", "INPROGRESS", "FULL"}, received : Seq(Frames),
                      send_status : {"IDLE", "WAITING", "SENDING"}]
         /\ BlockSize \in Nat \ {0} /\ SnModulus \in Nat \ {0} /\ BlockSize < SnModulus
         /\ PduFrames \in Nat \ {0, 1}
BY TransportSizes DEF IdentityInv, Shape, TransportShape, BusShape

\* What a frame on the bus does to the ring.
LEMMA RingOnBus ==
  ASSUME s_can_rx_queue \in Seq(Frames), NEW frame \in Frames, OnBus(frame)
  PROVE  LET old == Requests(s_can_rx_queue)
             new == Requests(s_can_rx_queue')
         IN  /\ frame.type # "FC" =>
                  /\ \A i \in new : \/ i \in old /\ s_can_rx_queue'[i] = s_can_rx_queue[i]
                                    \/ i = Len(s_can_rx_queue) + 1 /\ s_can_rx_queue'[i] = frame
                  /\ Cardinality(new) <= Cardinality(old) + 1
                  /\ Cardinality(Controls(s_can_rx_queue')) = Cardinality(Controls(s_can_rx_queue))
             /\ frame.type = "FC" =>
                  /\ new = old
                  /\ \A i \in new : s_can_rx_queue'[i] = s_can_rx_queue[i]
                  /\ Cardinality(Controls(s_can_rx_queue')) <= Cardinality(Controls(s_can_rx_queue)) + 1
             /\ \A i \in old : i < Len(s_can_rx_queue) + 1
<1>1. \A i \in Requests(s_can_rx_queue) : i \in 1 .. Len(s_can_rx_queue)
  BY DEF Requests
<1>2. Cardinality(Requests(s_can_rx_queue)) \in Nat /\ Cardinality(Controls(s_can_rx_queue)) \in Nat
  BY RingPositions
<1> DEFINE old == Requests(s_can_rx_queue)
           new == Requests(s_can_rx_queue')
           last == Len(s_can_rx_queue) + 1
<1>3. \A i \in old : i < last
  BY <1>1
<1>4. CASE s_can_rx_queue' = s_can_rx_queue
  <2>1. new = old /\ (\A i \in new : s_can_rx_queue'[i] = s_can_rx_queue[i])
          /\ Controls(s_can_rx_queue') = Controls(s_can_rx_queue)
    BY <1>4
  <2>2. Cardinality(new) <= Cardinality(old) + 1
          /\ Cardinality(Controls(s_can_rx_queue')) = Cardinality(Controls(s_can_rx_queue))
          /\ Cardinality(Controls(s_can_rx_queue')) <= Cardinality(Controls(s_can_rx_queue)) + 1
    BY <1>2, <1>4
  <2> QED
    BY <1>3, <2>1, <2>2
<1>5. CASE s_can_rx_queue' = Append(s_can_rx_queue, frame)
  <2>1. s_can_rx_queue'[last] = frame
          /\ \A i \in 1 .. Len(s_can_rx_queue) : s_can_rx_queue'[i] = s_can_rx_queue[i]
    BY <1>5, RingAppended
  <2>2. CASE frame.type = "FC"
    <3>1. new = old
      BY <1>5, <2>2, RingAppended
    <3>2. Cardinality(Controls(s_can_rx_queue')) = Cardinality(Controls(s_can_rx_queue)) + 1
      BY <1>5, <2>2, RingAppended
    <3>3. \A i \in new : s_can_rx_queue'[i] = s_can_rx_queue[i]
      BY <1>1, <2>1, <3>1
    <3>4. Cardinality(Controls(s_can_rx_queue')) <= Cardinality(Controls(s_can_rx_queue)) + 1
      BY <1>2, <3>2
    <3> QED
      BY <1>3, <2>2, <3>1, <3>3, <3>4
  <2>3. CASE frame.type # "FC"
    <3>1. new = old \cup {last}
      BY <1>5, <2>3, RingAppended
    <3>2. Cardinality(new) = Cardinality(old) + 1
            /\ Cardinality(Controls(s_can_rx_queue')) = Cardinality(Controls(s_can_rx_queue)) + 0
      BY <1>5, <2>3, RingAppended
    <3>4. Cardinality(new) <= Cardinality(old) + 1
            /\ Cardinality(Controls(s_can_rx_queue')) = Cardinality(Controls(s_can_rx_queue))
      BY <1>2, <3>2
    <3>3. \A i \in new : \/ i \in old /\ s_can_rx_queue'[i] = s_can_rx_queue[i]
                         \/ i = last /\ s_can_rx_queue'[i] = frame
      BY <1>1, <2>1, <3>1
    <3> QED
      BY <1>3, <2>3, <3>3, <3>4
  <2> QED
    BY <2>2, <2>3
<1> QED
  BY <1>4, <1>5 DEF OnBus, ReceiveUdsCanFrame

----------------------------------------------------------------------------
(* Flow control: what each step does to it *)

LEMMA InitFlow == Init => FlowInv
<1> SUFFICES ASSUME Init PROVE FlowInv
  OBVIOUS
<1>1. s_can_rx_queue = <<>> /\ link.receive_status = "IDLE" /\ ~ serving
        /\ otaThread = "asleep" /\ sender.state = "idle" /\ ~ flowControl /\ ~ clientOwes
  BY DEF Init, InitTransport, IdleLink, IdleSender
<1>2. RingInv
  BY <1>1, EmptyRing, TransportSizes DEF RingInv, OneRequest, FirstAlone, WithinBlock
<1>3. LinkWhole /\ InStep
  BY <1>1 DEF LinkWhole, InStep
<1>4. FewControls
  BY <1>1, EmptyRing DEF FewControls
<1> QED
  BY <1>2, <1>3, <1>4 DEF FlowInv

\* A link that gave up its reception, or did not move, is in step with a sender that did not move.
LEMMA LinkKept ==
  ASSUME LinkWhole, InStep, UNCHANGED <<s_can_rx_queue, sender, flowControl>>,
         \/ link'.receive_status = "IDLE"
         \/ link'.receive_status = link.receive_status /\ link'.received = link.received
  PROVE  LinkWhole' /\ InStep'
<1>1. CASE link'.receive_status = "IDLE"
  BY <1>1 DEF LinkWhole, InStep
<1>2. CASE link'.receive_status = link.receive_status /\ link'.received = link.received
  <2>1. LinkWhole'
    BY <1>2, Zenon DEF LinkWhole
  <2>2. InStep'
    BY <1>2, Zenon DEF InStep
  <2> QED
    BY <2>1, <2>2
<1> QED
  BY <1>1, <1>2

\* The steps that leave the way of a request alone.
LEMMA FlowKept ==
  ASSUME FlowInv, UNCHANGED <<transportVars, sender, flowControl, clientOwes, heardSince>>,
         otaThread' = "serving" => otaThread = "serving"
  PROVE  FlowInv'
<1>1. UNCHANGED <<s_can_rx_queue, link, serving>>
  BY DEF transportVars
<1>2. RingInv'
  BY <1>1, Zenon DEF FlowInv, RingInv, OneRequest, FirstAlone, WithinBlock
<1>3. LinkWhole' /\ InStep'
  BY <1>1, LinkKept DEF FlowInv
<1>4. FewControls'
  BY <1>1, Zenon DEF FlowInv, FewControls
<1> QED
  BY <1>2, <1>3, <1>4 DEF FlowInv

\* A transport that was cleared starts again, whatever the sender is about.
LEMMA FlowCleared ==
  ASSUME FlowInv, IdentityInv, TransportCleared, UNCHANGED <<sender, flowControl, clientOwes>>,
         otaThread' = "asleep"
  PROVE  FlowInv'
<1>1. s_can_rx_queue' = <<>> /\ link'.receive_status = "IDLE"
  BY DEF TransportCleared, IdleLink
<1>2. Cardinality(Requests(s_can_rx_queue)) \in Nat
  BY FlowTypes, RingPositions
<1>3. RingInv'
  BY <1>1, <1>2, EmptyRing, FlowTypes DEF FlowInv, RingInv, OneRequest, FirstAlone, WithinBlock
<1>4. LinkWhole' /\ InStep'
  BY <1>1 DEF LinkWhole, InStep
<1>5. FewControls'
  BY <1>1, EmptyRing DEF FewControls
<1> QED
  BY <1>3, <1>4, <1>5 DEF FlowInv

LEMMA RingPolledFlow ==
  ASSUME FlowInv, RingPolled
  PROVE  FlowInv'
<1>1. s_can_rx_queue = <<>> /\ UNCHANGED <<s_can_rx_queue, link, serving, sender, flowControl, clientOwes>>
  BY DEF RingPolled, RingEmpty, transportVars
<1>2. RingInv'
  BY <1>1, EmptyRing DEF FlowInv, RingInv, OneRequest, FirstAlone, WithinBlock
<1>3. LinkWhole' /\ InStep'
  BY <1>1, LinkKept DEF FlowInv
<1>4. FewControls'
  BY <1>1, EmptyRing DEF FewControls
<1> QED
  BY <1>2, <1>3, <1>4 DEF FlowInv

LEMMA FlowControlArrivesFlow ==
  ASSUME FlowInv, IdentityInv, FlowControlArrives
  PROVE  FlowInv'
<1>1. UNCHANGED <<s_can_rx_queue, link, serving, otaThread, clientOwes, heardSince>>
        /\ flowControl /\ ~ flowControl'
  BY DEF FlowControlArrives, transportVars
<1>2. Requests(s_can_rx_queue) = {} /\ Cardinality(Requests(s_can_rx_queue)) = 0
        /\ sender.state # "sending"
  BY <1>1, FS_EmptySet DEF FlowInv, RingInv, WithinBlock
<1>3. CASE sender.state # "waiting"
  <2>1. sender' = sender
    BY <1>3 DEF FlowControlArrives
  <2>2. RingInv'
    BY <1>1, <1>2, <2>1, FlowTypes DEF RingInv, OneRequest, FirstAlone, WithinBlock
  <2>3. LinkWhole'
    BY <1>1, Zenon DEF FlowInv, LinkWhole
  <2>4. InStep'
    BY <1>1, <1>2, <2>1 DEF InStep
  <2>5. FewControls'
    BY <1>1, Zenon DEF FlowInv, FewControls
  <2> QED
    BY <2>2, <2>3, <2>4, <2>5 DEF FlowInv
<1>4. CASE sender.state = "waiting"
  <2>1. sender' = [state |-> "sending", pdu |-> sender.pdu, next |-> sender.next,
                   credit |-> BlockSize]
    BY <1>4, FlowTypes DEF FlowControlArrives, GrantedFrames
  <2>2. sender'.state = "sending" /\ sender'.pdu = sender.pdu /\ sender'.next = sender.next
          /\ sender'.credit = BlockSize
    BY <2>1
  <2>3. RingInv'
    BY <1>1, <1>2, <2>2, FlowTypes DEF RingInv, OneRequest, FirstAlone, WithinBlock
  <2>4. LinkWhole'
    BY <1>1, Zenon DEF FlowInv, LinkWhole
  <2>5. InStep'
    <3>1. SUFFICES ASSUME link.receive_status = "INPROGRESS"
                   PROVE  /\ link.received[1].pdu = sender.pdu
                          /\ Len(link.received) <= sender.next
                          /\ sender.next + BlockSize = BlockEnd(Len(link.received))
      BY <1>1, <1>2, <2>2 DEF InStep
    <3> QED
      BY <1>1, <1>2, <1>4, <3>1, FlowTypes DEF FlowInv, InStep
  <2>6. FewControls'
    BY <1>1, Zenon DEF FlowInv, FewControls
  <2> QED
    BY <2>3, <2>4, <2>5, <2>6 DEF FlowInv
<1> QED
  BY <1>3, <1>4

LEMMA GivesUpFlow ==
  ASSUME FlowInv, IdentityInv, GivesUp
  PROVE  FlowInv'
<1>1. UNCHANGED <<s_can_rx_queue, link, serving, otaThread, flowControl, clientOwes, heardSince>>
  BY DEF GivesUp, transportVars
<1>2. sender'.state = "idle" /\ sender'.pdu = sender.pdu
  BY DEF GivesUp, IdleSender
<1>3. RingInv'
  BY <1>1, <1>2 DEF FlowInv, RingInv, OneRequest, FirstAlone, WithinBlock
<1>4. LinkWhole'
  BY <1>1, Zenon DEF FlowInv, LinkWhole
<1>5. InStep'
  BY <1>1, <1>2 DEF FlowInv, InStep
<1>6. FewControls'
  BY <1>1, Zenon DEF FlowInv, FewControls
<1> QED
  BY <1>3, <1>4, <1>5, <1>6 DEF FlowInv

LEMMA UDS_PollFlow ==
  ASSUME FlowInv, IdentityInv, UDS_Poll
  PROVE  FlowInv'
<1>1. UNCHANGED <<s_can_rx_queue, sender, flowControl, heardSince>>
        /\ otaThread = "serving" /\ otaThread' = "asleep"
  BY DEF UDS_Poll
<1>2. \E send \in {"IDLE", "WAITING", "SENDING"} :
        \/ link' = [receive_status |-> link.receive_status, received |-> link.received,
                    send_status |-> send]
        \/ link' = [receive_status |-> "IDLE", received |-> <<>>, send_status |-> send]
  BY FlowTypes, ServedLink
<1>3. PICK l \in isotp_poll :
        \/ (TakeRequest(l) \/ NothingToDo(l) \/ ShortAnswer(l)) /\ UNCHANGED clientOwes
        \/ LongAnswer(l) /\ clientOwes' = TRUE
  BY DEF UDS_Poll
<1>4. \/ link'.receive_status = "IDLE"
      \/ link'.receive_status = link.receive_status /\ link'.received = link.received
  BY <1>2
<1>5. LinkWhole' /\ InStep'
  BY <1>1, <1>4, LinkKept DEF FlowInv
<1>6. RingInv'
  BY <1>1, Zenon DEF FlowInv, RingInv, OneRequest, FirstAlone, WithinBlock
<1>7. FewControls'
  <2>1. Cardinality(Controls(s_can_rx_queue)) \in Nat
          /\ Cardinality(Controls(s_can_rx_queue)) + (IF clientOwes THEN 1 ELSE 0) <= 1
    BY <1>1, FlowTypes, RingPositions DEF FlowInv, FewControls
  <2>2. clientOwes' = clientOwes \/ ~ serving'
    BY <1>3, Zenon DEF LongAnswer
  <2>3. Cardinality(Controls(s_can_rx_queue)) + (IF clientOwes' THEN 1 ELSE 0) <= 2
    BY <2>1
  <2> QED
    BY <1>1, <2>1, <2>2, <2>3 DEF FewControls
<1> QED
  BY <1>5, <1>6, <1>7 DEF FlowInv

\* A frame of a request takes no flow control away, and brings none.
LEMMA RequestControls ==
  ASSUME FlowInv, IdentityInv, NEW frame \in Frames, frame.type # "FC", OnBus(frame),
         UNCHANGED clientOwes
  PROVE  FewControls'
<1>1. UNCHANGED <<serving, otaThread>>
  BY DEF OnBus
<1>2. Cardinality(Controls(s_can_rx_queue')) = Cardinality(Controls(s_can_rx_queue))
  BY FlowTypes, RingOnBus
<1> QED
  BY <1>1, <1>2, Zenon DEF FlowInv, FewControls

LEMMA ClientFlowControlFlow ==
  ASSUME FlowInv, IdentityInv, ClientFlowControl
  PROVE  FlowInv'
<1> DEFINE frame == [type |-> "FC", pdu |-> sender.pdu, index |-> 0]
           ring == s_can_rx_queue
<1>1. frame \in Frames /\ frame.type = "FC"
  BY FlowTypes DEF Frames
<1>2. OnBus(frame) /\ clientOwes /\ clientOwes' = FALSE
        /\ UNCHANGED <<sender, flowControl, heardSince>>
  BY DEF ClientFlowControl
<1> HIDE DEF frame
<1>3. UNCHANGED <<link, serving, otaThread>>
  BY <1>2 DEF OnBus
<1>4. Requests(ring') = Requests(ring) /\ \A i \in Requests(ring) : ring'[i] = ring[i]
  BY <1>1, <1>2, FlowTypes, RingOnBus
<1>5. OneRequest' /\ FirstAlone'
  BY <1>2, <1>4 DEF FlowInv, RingInv, OneRequest, FirstAlone
<1>6. WithinBlock'
  BY <1>2, <1>4 DEF FlowInv, RingInv, WithinBlock
<1>7. LinkWhole'
  BY <1>3, Zenon DEF FlowInv, LinkWhole
<1>8. InStep'
  BY <1>2, <1>3, <1>4 DEF FlowInv, InStep
<1>9. FewControls'
  <2>1. Cardinality(Controls(ring')) <= Cardinality(Controls(ring)) + 1
    BY <1>1, <1>2, FlowTypes, RingOnBus
  <2>2. Cardinality(Controls(ring')) \in Nat /\ Cardinality(Controls(ring)) \in Nat
    <3>1. ring' \in Seq(Frames)
      BY <1>1, <1>2, FrameOnBus DEF TransportShape
    <3> QED
      BY <3>1, FlowTypes, RingPositions
  <2>3. ~ clientOwes'
    BY <1>2
  <2> QED
    BY <1>2, <1>3, <2>1, <2>2, <2>3 DEF FlowInv, FewControls
<1> QED
  BY <1>5, <1>6, <1>7, <1>8, <1>9 DEF FlowInv, RingInv

LEMMA StartRequestFlow ==
  ASSUME FlowInv, IdentityInv, NEW pdu \in Pdus, StartRequest(pdu)
  PROVE  FlowInv'
<1> DEFINE ring == s_can_rx_queue
           last == Len(ring) + 1
<1>1. heardSince /\ ~ flowControl /\ heardSince' = FALSE /\ UNCHANGED <<flowControl, clientOwes>>
  BY DEF StartRequest
<1>2. Requests(ring) = {} /\ Cardinality(Requests(ring)) = 0
  BY <1>1, FS_EmptySet DEF FlowInv, RingInv, OneRequest
<1>3. PICK frame \in Frames :
        /\ OnBus(frame) /\ frame.pdu = pdu /\ frame.index = 0 /\ frame.type \in {"SF", "FF"}
        /\ sender'.pdu = pdu /\ sender'.state \in {"idle", "waiting"}
        /\ sender'.state = "waiting" => sender'.next = 1
  <2>1. [type |-> "SF", pdu |-> pdu, index |-> 0] \in Frames
          /\ [type |-> "FF", pdu |-> pdu, index |-> 0] \in Frames
    BY FlowTypes DEF Frames
  <2>2. CASE /\ sender' = IdleSender(pdu)
             /\ OnBus([type |-> "SF", pdu |-> pdu, index |-> 0])
    BY <2>1, <2>2 DEF IdleSender
  <2>3. CASE /\ sender' = [state |-> "waiting", pdu |-> pdu, next |-> 1, credit |-> 0]
             /\ OnBus([type |-> "FF", pdu |-> pdu, index |-> 0])
    BY <2>1, <2>3
  <2> QED
    BY <2>2, <2>3 DEF StartRequest
<1>4. UNCHANGED <<link, serving, otaThread>>
  BY <1>3 DEF OnBus
<1>5. \A i \in Requests(ring') : i = last /\ ring'[i] = frame
  BY <1>2, <1>3, FlowTypes, RingOnBus
<1>6. Cardinality(Requests(ring')) <= 1
  BY <1>2, <1>3, FlowTypes, RingOnBus
<1>7. OneRequest'
  BY <1>1, <1>3, <1>5 DEF OneRequest
<1>8. FirstAlone'
  BY <1>1, <1>3, <1>5 DEF FirstAlone
<1>9. WithinBlock'
  <2>1. Cardinality(Requests(ring')) <= BlockSize
    <3>1. ring' \in Seq(Frames)
      BY <1>3, FrameOnBus DEF TransportShape
    <3>2. Cardinality(Requests(ring')) \in Nat
      BY <3>1, RingPositions
    <3> QED
      BY <1>6, <3>2, FlowTypes
  <2> QED
    BY <1>1, <1>3, <1>5, <2>1 DEF WithinBlock
<1>10. LinkWhole'
  BY <1>4, Zenon DEF FlowInv, LinkWhole
<1>11. InStep'
  BY <1>1, <1>3, <1>5 DEF InStep
<1>12. FewControls'
  BY <1>1, <1>3, RequestControls
<1> QED
  BY <1>7, <1>8, <1>9, <1>10, <1>11, <1>12 DEF FlowInv, RingInv

LEMMA SendConsecutiveFlow ==
  ASSUME FlowInv, IdentityInv, SendConsecutive
  PROVE  FlowInv'
<1> DEFINE ring == s_can_rx_queue
           last == Len(ring) + 1
           frame == [type |-> "CF", pdu |-> sender.pdu, index |-> sender.next]
<1>1. sender.state = "sending" /\ OnBus(frame) /\ heardSince' = FALSE
        /\ UNCHANGED <<flowControl, clientOwes>>
  BY DEF SendConsecutive
<1>2. frame \in Frames /\ frame.type = "CF" /\ frame.pdu = sender.pdu /\ frame.index = sender.next
  BY FlowTypes DEF Frames
<1>3. \/ sender' = IdleSender(sender.pdu)
      \/ sender' = [state |-> IF sender.credit = 1 THEN "waiting" ELSE sender.state,
                    pdu |-> sender.pdu, next |-> sender.next + 1, credit |-> sender.credit - 1]
  <2>1. CASE sender.next = PduFrames - 1
    BY <2>1, FlowTypes, SMT DEF SendConsecutive
  <2>2. CASE sender.next < PduFrames - 1
    <3>1. sender' = [sender EXCEPT !.next = @ + 1, !.credit = @ - 1,
                                   !.state = IF sender.credit = 1 THEN "waiting" ELSE @]
      BY <2>2, FlowTypes, SMT DEF SendConsecutive
    <3> QED
      BY <3>1, FlowTypes
  <2> QED
    BY <2>1, <2>2, FlowTypes
<1>4. /\ sender'.pdu = sender.pdu
      /\ \/ sender'.state = "idle"
         \/ /\ sender'.next = sender.next + 1 /\ sender'.credit = sender.credit - 1
            /\ sender'.state = IF sender.credit = 1 THEN "waiting" ELSE "sending"
  BY <1>1, <1>3 DEF IdleSender
<1>5. UNCHANGED <<link, serving, otaThread>>
  BY <1>1 DEF OnBus
<1> HIDE DEF frame
<1>6. ~ flowControl /\ (\A i \in Requests(ring) : ring[i].type = "CF" /\ ring[i].index < sender.next)
  BY <1>1 DEF FlowInv, RingInv, FirstAlone, WithinBlock
<1>7. /\ \A i \in Requests(ring') : \/ i \in Requests(ring) /\ ring'[i] = ring[i]
                                    \/ i = last /\ ring'[i] = frame
      /\ \A i \in Requests(ring) : i < last
      /\ Cardinality(Requests(ring')) <= Cardinality(Requests(ring)) + 1
  BY <1>1, <1>2, FlowTypes, RingOnBus
<1>8. ring' \in Seq(Frames) /\ Cardinality(Requests(ring')) \in Nat /\ Cardinality(Requests(ring)) \in Nat
  <2>1. ring' \in Seq(Frames)
    BY <1>1, <1>2, FrameOnBus DEF TransportShape
  <2> QED
    BY <2>1, FlowTypes, RingPositions
<1>9. \A i \in Requests(ring') : ring'[i].type = "CF" /\ ring'[i].index <= sender.next
  <2>1. ASSUME NEW i \in Requests(ring'), i \in Requests(ring), ring'[i] = ring[i]
        PROVE  ring'[i].type = "CF" /\ ring'[i].index <= sender.next
    BY <1>6, <2>1, FlowTypes, RingFrame
  <2>2. ASSUME NEW i \in Requests(ring'), ring'[i] = frame
        PROVE  ring'[i].type = "CF" /\ ring'[i].index <= sender.next
    BY <1>2, <2>2, FlowTypes
  <2> QED
    BY <1>7, <2>1, <2>2
<1>10. OneRequest'
  <2>1. \A i \in Requests(ring') : ring'[i].pdu = sender'.pdu /\ ~ heardSince'
    BY <1>1, <1>2, <1>4, <1>7 DEF FlowInv, RingInv, OneRequest
  <2>2. ASSUME NEW i \in Requests(ring'), NEW j \in Requests(ring'), i < j
        PROVE  ring'[i].index < ring'[j].index
    <3>1. i \in Nat /\ j \in Nat
      BY <1>8, RingFrame
    <3>2. i \in Requests(ring) /\ ring'[i] = ring[i]
      <4>1. ~ (i = last /\ j \in Requests(ring)) /\ ~ (i = last /\ j = last)
        BY <1>7, <2>2, <3>1, FlowTypes
      <4> QED
        BY <1>7, <4>1
    <3>3. CASE j \in Requests(ring) /\ ring'[j] = ring[j]
      BY <2>2, <3>2, <3>3 DEF FlowInv, RingInv, OneRequest
    <3>4. CASE ring'[j] = frame
      BY <1>2, <1>6, <3>2, <3>4
    <3> QED
      BY <1>7, <3>3, <3>4
  <2> QED
    BY <2>1, <2>2 DEF OneRequest
<1>11. FirstAlone'
  BY <1>9 DEF FirstAlone
<1>12. sender.credit >= 1 /\ Cardinality(Requests(ring)) + sender.credit <= BlockSize
  BY <1>1 DEF FlowInv, RingInv, WithinBlock
<1>13. WithinBlock'
  <2>1. Cardinality(Requests(ring')) <= BlockSize
    BY <1>7, <1>8, <1>12, FlowTypes
  <2>2. sender'.state = "sending" =>
          sender'.credit >= 1 /\ Cardinality(Requests(ring')) + sender'.credit <= BlockSize
    BY <1>4, <1>7, <1>8, <1>12, FlowTypes
  <2>3. ASSUME sender'.state # "idle", NEW i \in Requests(ring')
        PROVE  ring'[i].index < sender'.next
    BY <1>4, <1>8, <1>9, <2>3, FlowTypes, RingFrame
  <2>4. ~ flowControl'
    BY <1>1, <1>6
  <2> QED
    BY <2>1, <2>2, <2>3, <2>4 DEF WithinBlock
<1>14. LinkWhole'
  BY <1>5, Zenon DEF FlowInv, LinkWhole
<1>15. InStep'
  <2>1. CASE link.receive_status # "INPROGRESS"
    BY <1>5, <2>1 DEF InStep
  <2>2. CASE link.receive_status = "INPROGRESS"
    <3> DEFINE len == Len(link.received)
    <3>1. /\ link.received[1].pdu = sender.pdu
          /\ \A i \in Requests(ring) : len <= ring[i].index /\ ring[i].index < BlockEnd(len)
          /\ len <= sender.next /\ sender.next + sender.credit = BlockEnd(len)
      BY <1>1, <1>6, <2>2 DEF FlowInv, InStep
    <3>2. len \in Nat /\ BlockEnd(len) \in Int
      BY <2>2, <3>1, FlowTypes
    <3>3. \A i \in Requests(ring') : len <= ring'[i].index /\ ring'[i].index < BlockEnd(len)
      BY <1>2, <1>7, <1>12, <3>1, <3>2, FlowTypes
    <3>4. sender'.state = "sending" =>
            len <= sender'.next /\ sender'.next + sender'.credit = BlockEnd(len)
      BY <1>4, <1>12, <3>1, <3>2, FlowTypes
    <3>5. sender'.state = "waiting" => sender'.next = BlockEnd(len)
      BY <1>4, <1>12, <3>1, <3>2, FlowTypes
    <3>6. ~ flowControl'
      BY <1>1, <1>6
    <3>7. link'.received[1].pdu = sender'.pdu
      BY <1>4, <1>5, <3>1
    <3>8. Len(link'.received) = len
      BY <1>5
    <3> HIDE DEF len
    <3> QED
      BY <3>3, <3>4, <3>5, <3>6, <3>7, <3>8 DEF InStep
  <2> QED
    BY <2>1, <2>2
<1>16. FewControls'
  BY <1>1, <1>2, RequestControls
<1> QED
  BY <1>10, <1>11, <1>13, <1>14, <1>15, <1>16 DEF FlowInv, RingInv

----------------------------------------------------------------------------
(* Flow control: a frame taken from the ring *)

\* What is left in the ring after a frame was taken.
LEMMA RingPolledOnce ==
  ASSUME FlowInv, IdentityInv, PollsFrame
  PROVE  LET ring == s_can_rx_queue IN
         /\ ring' \in Seq(Frames) /\ NextFrame \in Frames /\ NextFrame = ring[1]
         /\ NextFrame.type # "FC" <=> 1 \in Requests(ring)
         /\ \A i \in Requests(ring') : i + 1 \in Requests(ring) /\ ring'[i] = ring[i + 1]
         /\ \A i \in Requests(ring) : i = 1 \/ (i - 1 \in Requests(ring') /\ ring'[i - 1] = ring[i])
         /\ Cardinality(Requests(ring')) <= Cardinality(Requests(ring))
         /\ Cardinality(Controls(ring')) <= Cardinality(Controls(ring))
         /\ Cardinality(Requests(ring)) \in Nat /\ Cardinality(Controls(ring)) \in Nat
         /\ Cardinality(Requests(ring')) \in Nat /\ Cardinality(Controls(ring')) \in Nat
<1> DEFINE ring == s_can_rx_queue
<1>1. ring \in Seq(Frames) /\ ring # <<>> /\ ring' = Tail(ring)
  BY FlowTypes DEF PollsFrame, PollUdsCanFrame, RingEmpty
<1>2. NextFrame = ring[1] /\ NextFrame \in Frames /\ 1 \in 1 .. Len(ring)
  BY <1>1 DEF NextFrame
<1>3. NextFrame.type # "FC" <=> 1 \in Requests(ring)
  BY <1>2 DEF Requests
<1>4. /\ ring' \in Seq(Frames)
      /\ \A i \in Requests(ring') : i + 1 \in Requests(ring) /\ ring'[i] = ring[i + 1]
      /\ \A i \in Requests(ring) : i > 1 => i - 1 \in Requests(ring')
      /\ Cardinality(Requests(ring')) <= Cardinality(Requests(ring))
      /\ Cardinality(Controls(ring')) <= Cardinality(Controls(ring))
  BY <1>1, RingShortened
<1>5. ASSUME NEW i \in Requests(ring), i # 1
      PROVE  i - 1 \in Requests(ring') /\ ring'[i - 1] = ring[i]
  <2>1. i \in Nat /\ i > 1
    BY <1>1, <1>5, RingFrame
  <2>2. i - 1 \in Requests(ring') /\ (i - 1) + 1 = i
    BY <1>4, <2>1
  <2> QED
    BY <1>4, <2>2
<1>6. /\ Cardinality(Requests(ring)) \in Nat /\ Cardinality(Controls(ring)) \in Nat
      /\ Cardinality(Requests(ring')) \in Nat /\ Cardinality(Controls(ring')) \in Nat
  BY <1>1, <1>4, RingPositions
<1> QED
  BY <1>2, <1>3, <1>4, <1>5, <1>6

\* What it leaves of the ring is still in order, and within a block.
LEMMA PollsFrameRing ==
  ASSUME FlowInv, IdentityInv, PollsFrame
  PROVE  /\ OneRequest' /\ FewControls'
         /\ FirstAlone' \/ flowControl'
         /\ Cardinality(Requests(s_can_rx_queue')) <= BlockSize
         /\ sender.state = "sending" =>
              sender.credit >= 1
                /\ Cardinality(Requests(s_can_rx_queue')) + sender.credit <= BlockSize
         /\ sender.state # "idle" =>
              \A i \in Requests(s_can_rx_queue') : s_can_rx_queue'[i].index < sender.next
         /\ ~ flowControl' => WithinBlock'
<1> DEFINE ring == s_can_rx_queue
<1>1. UNCHANGED <<sender, clientOwes, heardSince, serving, otaThread>>
  BY DEF PollsFrame, PollUdsCanFrame
<1>2. /\ \A i \in Requests(ring') : i + 1 \in Requests(ring) /\ ring'[i] = ring[i + 1]
      /\ Cardinality(Requests(ring')) <= Cardinality(Requests(ring))
      /\ Cardinality(Controls(ring')) <= Cardinality(Controls(ring))
      /\ Cardinality(Requests(ring)) \in Nat /\ Cardinality(Controls(ring)) \in Nat
      /\ Cardinality(Requests(ring')) \in Nat /\ Cardinality(Controls(ring')) \in Nat
      /\ ring' \in Seq(Frames)
  BY RingPolledOnce
<1>3. OneRequest'
  <2>1. \A i \in Requests(ring') : ring'[i].pdu = sender'.pdu /\ ~ heardSince'
    BY <1>1, <1>2 DEF FlowInv, RingInv, OneRequest
  <2>2. ASSUME NEW i \in Requests(ring'), NEW j \in Requests(ring'), i < j
        PROVE  ring'[i].index < ring'[j].index
    <3>1. i + 1 < j + 1
      BY <1>2, <2>2, RingFrame
    <3> QED
      BY <1>2, <3>1 DEF FlowInv, RingInv, OneRequest
  <2> QED
    BY <2>1, <2>2 DEF OneRequest
<1>4. FewControls'
  <2>1. Cardinality(Controls(ring')) <= Cardinality(Controls(ring))
    BY <1>2
  <2> QED
    BY <1>1, <1>2, <2>1 DEF FlowInv, FewControls
<1>5. ASSUME ~ flowControl' PROVE FirstAlone'
  <2>1. SUFFICES ASSUME NEW i \in Requests(ring'), ring'[i].type # "CF"
                 PROVE  /\ ring'[i].index = 0 /\ Requests(ring') = {i}
                        /\ sender.state # "sending"
                        /\ sender.state = "waiting" => sender.next = 1
    BY <1>1, <1>5 DEF FirstAlone
  <2>2. /\ ring[i + 1].index = 0 /\ Requests(ring) = {i + 1}
        /\ sender.state # "sending"
        /\ sender.state = "waiting" => sender.next = 1
    BY <1>2, <2>1 DEF FlowInv, RingInv, FirstAlone
  <2>3. ASSUME NEW j \in Requests(ring') PROVE j = i
    <3>1. j + 1 = i + 1 /\ j \in Nat /\ i \in Nat
      BY <1>2, <2>2, RingFrame
    <3> QED
      BY <3>1
  <2> QED
    BY <1>2, <2>1, <2>2, <2>3
<1>6. Cardinality(Requests(ring')) <= BlockSize
  BY <1>2, FlowTypes DEF FlowInv, RingInv, WithinBlock
<1>7. sender.state = "sending" =>
        sender.credit >= 1 /\ Cardinality(Requests(ring')) + sender.credit <= BlockSize
  BY <1>2, FlowTypes DEF FlowInv, RingInv, WithinBlock
<1>8. sender.state # "idle" => \A i \in Requests(ring') : ring'[i].index < sender.next
  BY <1>2 DEF FlowInv, RingInv, WithinBlock
<1>9. ASSUME ~ flowControl' PROVE WithinBlock'
  BY <1>1, <1>6, <1>7, <1>8, <1>9 DEF WithinBlock
<1> QED
  BY <1>3, <1>4, <1>5, <1>6, <1>7, <1>8, <1>9

\* What a turn of the loop does to the link, and when it brings a flow control.
LEMMA PollsFrameLink ==
  ASSUME PollsFrame
  PROVE  /\ UNCHANGED <<sender, clientOwes, heardSince, serving, otaThread>>
         /\ link' = IF Delivers(NextFrame) THEN isotp_on_can_message(link, NextFrame) ELSE link
         /\ flowControl' => flowControl \/ SendsFlowControl
<1>1. flowControl' = (flowControl \/ SendsFlowControl)
  BY Zenon DEF PollsFrame
<1>2. flowControl' => flowControl \/ SendsFlowControl
  BY <1>1, Zenon
<1> QED
  BY <1>2 DEF PollsFrame, PollUdsCanFrame

\* The link takes a flow control of the client, and nothing else of it changes.
LEMMA PollsControl ==
  ASSUME FlowInv, IdentityInv, PollsFrame, NextFrame.type = "FC"
  PROVE  FlowInv'
<1> DEFINE ring == s_can_rx_queue
<1>1. /\ UNCHANGED sender
      /\ link' = IF Delivers(NextFrame) THEN isotp_on_can_message(link, NextFrame) ELSE link
      /\ flowControl' => flowControl \/ SendsFlowControl
  BY PollsFrameLink, Zenon
<1>2. flowControl' => flowControl
  <2>1. ~ SendsFlowControl
    BY DEF SendsFlowControl
  <2> QED
    BY <1>1, <2>1, Zenon
<1>3. link'.receive_status = link.receive_status /\ link'.received = link.received
  <2>1. link' = IF link.send_status = "WAITING" THEN [link EXCEPT !.send_status = "SENDING"] ELSE link
    BY <1>1 DEF Delivers, isotp_on_can_message
  <2> QED
    BY <2>1, FlowTypes
<1>4. /\ 1 \notin Requests(ring)
      /\ \A i \in Requests(ring') : i + 1 \in Requests(ring) /\ ring'[i] = ring[i + 1]
      /\ \A i \in Requests(ring) : i = 1 \/ (i - 1 \in Requests(ring') /\ ring'[i - 1] = ring[i])
  BY RingPolledOnce
<1>5. flowControl' => Requests(ring') = {} /\ sender'.state # "sending"
  BY <1>1, <1>2, <1>4 DEF FlowInv, RingInv, WithinBlock
<1>6. RingInv'
  <2>1. FirstAlone'
    BY <1>5, PollsFrameRing DEF FirstAlone
  <2>2. WithinBlock'
    BY <1>1, <1>5, PollsFrameRing DEF WithinBlock
  <2> QED
    BY <2>1, <2>2, PollsFrameRing DEF RingInv
<1>7. LinkWhole'
  BY <1>3, Zenon DEF FlowInv, LinkWhole
<1>8. InStep'
  <2>1. SUFFICES ASSUME link.receive_status = "INPROGRESS",
                        \A i \in Requests(ring') : ring'[i].type = "CF"
                 PROVE  InStep'
    BY <1>3 DEF InStep
  <2>2. \A i \in Requests(ring) : ring[i].type = "CF"
    BY <1>4, <2>1
  <2>3. Requests(ring') # {} => Requests(ring) # {}
    BY <1>4
  <2> DEFINE len == Len(link.received)
  <2>4. /\ Requests(ring) # {} \/ flowControl \/ sender.state = "sending" =>
             link.received[1].pdu = sender.pdu
        /\ \A i \in Requests(ring) : len <= ring[i].index /\ ring[i].index < BlockEnd(len)
        /\ sender.state = "sending" => len <= sender.next /\ sender.next + sender.credit = BlockEnd(len)
        /\ sender.state = "waiting" /\ Requests(ring) # {} => sender.next = BlockEnd(len)
        /\ flowControl =>
             BlockEnd(len) = len + BlockSize /\ (sender.state = "waiting" => sender.next = len)
    BY <2>1, <2>2 DEF FlowInv, InStep
  <2>5. \A i \in Requests(ring') : len <= ring'[i].index /\ ring'[i].index < BlockEnd(len)
    BY <1>4, <2>4
  <2>6. Len(link'.received) = len /\ link'.received[1].pdu = link.received[1].pdu
    BY <1>3
  <2> HIDE DEF len
  <2> QED
    BY <1>1, <1>2, <2>3, <2>4, <2>5, <2>6 DEF InStep
<1> QED
  BY <1>6, <1>7, <1>8, PollsFrameRing DEF FlowInv

\* A first frame is alone in the ring, and starts the reception and the first block.
LEMMA PollsFirst ==
  ASSUME FlowInv, IdentityInv, PollsFrame, NextFrame.type \in {"SF", "FF"}
  PROVE  FlowInv'
<1> DEFINE ring == s_can_rx_queue
<1>1. /\ UNCHANGED sender
      /\ link' = IF Delivers(NextFrame) THEN isotp_on_can_message(link, NextFrame) ELSE link
      /\ flowControl' => flowControl \/ SendsFlowControl
  BY PollsFrameLink, Zenon
<1>2. /\ NextFrame = ring[1] /\ NextFrame \in Frames /\ 1 \in Requests(ring)
      /\ \A i \in Requests(ring') : i + 1 \in Requests(ring)
      /\ ring' \in Seq(Frames)
  BY RingPolledOnce
<1>3. /\ NextFrame.index = 0 /\ Requests(ring) = {1} /\ ~ flowControl
      /\ sender.state # "sending" /\ (sender.state = "waiting" => sender.next = 1)
      /\ NextFrame.pdu = sender.pdu
  BY <1>2 DEF FlowInv, RingInv, FirstAlone, OneRequest
<1>4. Requests(ring') = {}
  <2>1. SUFFICES ASSUME NEW i \in Requests(ring') PROVE FALSE
    OBVIOUS
  <2>2. i \in Nat /\ 1 <= i /\ i + 1 = 1
    BY <1>2, <1>3, RingFrame
  <2> QED
    BY <2>2
<1>5. RingInv'
  <2>1. FirstAlone'
    BY <1>4 DEF FirstAlone
  <2>2. WithinBlock'
    BY <1>1, <1>3, <1>4, PollsFrameRing DEF WithinBlock
  <2> QED
    BY <2>1, <2>2, PollsFrameRing DEF RingInv
<1>6. LinkWhole' /\ InStep'
  <2>1. CASE link.receive_status = "FULL"
    <3>1. link' = link /\ ~ SendsFlowControl
      BY <1>1, <2>1 DEF Delivers, SendsFlowControl
    <3>2. link'.receive_status = link.receive_status /\ link'.received = link.received
      BY <3>1
    <3>3. LinkWhole'
      BY <3>2, Zenon DEF FlowInv, LinkWhole
    <3>4. InStep'
      BY <2>1, <3>2 DEF InStep
    <3> QED
      BY <3>3, <3>4
  <2>2. CASE link.receive_status # "FULL" /\ NextFrame.type = "SF"
    <3>1. link' = [receive_status |-> "FULL", received |-> <<NextFrame>>,
                   send_status |-> link.send_status]
      BY <1>1, <2>2, FlowTypes DEF Delivers, isotp_on_can_message
    <3>2. link'.receive_status = "FULL" /\ Len(link'.received) = 1 /\ link'.received[1] = NextFrame
      BY <3>1
    <3> QED
      BY <1>3, <2>2, <3>2 DEF LinkWhole, InStep, ReceivedInOrder
  <2>3. CASE link.receive_status # "FULL" /\ NextFrame.type = "FF"
    <3>1. link' = [receive_status |-> "INPROGRESS", received |-> <<NextFrame>>,
                   send_status |-> link.send_status]
      BY <1>1, <2>3, FlowTypes DEF Delivers, isotp_on_can_message, FirstFrame
    <3>2. /\ link'.receive_status = "INPROGRESS" /\ Len(link'.received) = 1
          /\ link'.received[1] = NextFrame
      BY <3>1
    <3>3. LinkWhole'
      BY <1>3, <2>3, <3>2 DEF LinkWhole, ReceivedInOrder
    <3>4. BlockEnd(1) = 1 + BlockSize
      <4>1. (1 - 1) % BlockSize = 0
        BY FlowTypes
      <4> QED
        BY <4>1, Blocks
    <3>5. InStep'
      BY <1>1, <1>3, <1>4, <3>2, <3>4 DEF InStep
    <3> QED
      BY <3>3, <3>5
  <2> QED
    BY <2>1, <2>2, <2>3
<1> QED
  BY <1>5, <1>6, PollsFrameRing DEF FlowInv

\* Consecutive frames are all that is in the ring, one after the other.
LEMMA OnlyConsecutive ==
  ASSUME FlowInv, IdentityInv, PollsFrame, NextFrame.type = "CF"
  PROVE  LET ring == s_can_rx_queue IN
         /\ ~ flowControl /\ Requests(ring) # {}
         /\ NextFrame.pdu = sender.pdu
         /\ \A i \in Requests(ring) : ring[i].type = "CF"
         /\ \A i \in Requests(ring') : ring'[i].type = "CF" /\ NextFrame.index < ring'[i].index
         /\ sender.state # "idle" => NextFrame.index < sender.next
<1> DEFINE ring == s_can_rx_queue
<1>1. /\ NextFrame = ring[1] /\ 1 \in Requests(ring)
      /\ ring \in Seq(Frames) /\ ring' \in Seq(Frames)
      /\ \A i \in Requests(ring') : i + 1 \in Requests(ring) /\ ring'[i] = ring[i + 1]
  BY RingPolledOnce, FlowTypes
<1>2. ~ flowControl
  BY <1>1 DEF FlowInv, RingInv, WithinBlock
<1>3. \A i \in Requests(ring) : ring[i].type = "CF"
  BY <1>1 DEF FlowInv, RingInv, FirstAlone
<1>4. ASSUME NEW i \in Requests(ring')
      PROVE  ring'[i].type = "CF" /\ NextFrame.index < ring'[i].index
  <2>1. i \in Nat /\ 1 <= i
    BY <1>1, RingFrame
  <2>2. ring[1].index < ring[i + 1].index
    BY <1>1, <2>1 DEF FlowInv, RingInv, OneRequest
  <2> QED
    BY <1>1, <1>3, <2>2
<1>5. NextFrame.pdu = sender.pdu /\ (sender.state # "idle" => NextFrame.index < sender.next)
  BY <1>1 DEF FlowInv, RingInv, OneRequest, WithinBlock
<1> QED
  BY <1>1, <1>2, <1>3, <1>4, <1>5

\* The reception takes the frame only if it is the one that comes next.
LEMMA NextInOrder ==
  ASSUME FlowInv, IdentityInv, PollsFrame, NextFrame.type = "CF",
         link.receive_status = "INPROGRESS", ExpectedSn(link, NextFrame)
  PROVE  LET len == Len(link.received) IN
         /\ len \in Nat \ {0} /\ NextFrame.index = len
         /\ link.received[1].pdu = sender.pdu /\ link.received[1].type = "FF"
         /\ \A i \in Requests(s_can_rx_queue') : s_can_rx_queue'[i].index < BlockEnd(len)
         /\ sender.state = "sending" => sender.next + sender.credit = BlockEnd(len)
         /\ sender.state = "waiting" => sender.next = BlockEnd(len)
<1> DEFINE ring == s_can_rx_queue
           len == Len(link.received)
<1>1. len \in Nat \ {0} /\ link.received[1].type = "FF"
  BY FlowTypes DEF FlowInv, LinkWhole
<1>2. /\ link.received[1].pdu = sender.pdu
      /\ \A i \in Requests(ring) : len <= ring[i].index /\ ring[i].index < BlockEnd(len)
      /\ sender.state = "sending" => sender.next + sender.credit = BlockEnd(len)
      /\ sender.state = "waiting" => sender.next = BlockEnd(len)
  BY OnlyConsecutive DEF FlowInv, InStep
<1>3. /\ NextFrame = ring[1] /\ NextFrame \in Frames /\ 1 \in Requests(ring)
      /\ \A i \in Requests(ring') : i + 1 \in Requests(ring) /\ ring'[i] = ring[i + 1]
  BY RingPolledOnce
<1>4. NextFrame.index \in Nat /\ len <= NextFrame.index /\ NextFrame.index < BlockEnd(len)
  BY <1>2, <1>3, FlowTypes DEF Frames
<1>5. BlockEnd(len) \in Int /\ BlockEnd(len) <= len + BlockSize
  BY <1>1, Blocks
<1>6. NextFrame.index < len + SnModulus
  BY <1>1, <1>4, <1>5, FlowTypes
<1>7. len % SnModulus = NextFrame.index % SnModulus
  BY DEF ExpectedSn
<1>8. len = NextFrame.index
  BY <1>1, <1>4, <1>6, <1>7, FlowTypes, SequenceNumber
<1>9. \A i \in Requests(ring') : ring'[i].index < BlockEnd(len)
  BY <1>2, <1>3
<1> QED
  BY <1>1, <1>2, <1>8, <1>9

\* Then the reception is one frame longer, and whole if that was the last.
LEMMA TakesNext ==
  ASSUME FlowInv, IdentityInv, PollsFrame, NextFrame.type = "CF",
         link.receive_status = "INPROGRESS", ExpectedSn(link, NextFrame)
  PROVE  /\ LinkWhole'
         /\ Len(link'.received) = Len(link.received) + 1
         /\ link'.received[1].pdu = sender.pdu
<1> DEFINE longer == Append(link.received, NextFrame)
           len == Len(link.received)
<1>1. /\ len \in Nat \ {0} /\ NextFrame.index = len
      /\ link.received[1].pdu = sender.pdu /\ link.received[1].type = "FF"
      /\ NextFrame.pdu = sender.pdu
  BY NextInOrder, OnlyConsecutive
<1>2. link' = ConsecutiveFrame(link, NextFrame)
  BY PollsFrameLink DEF Delivers, isotp_on_can_message
<1>3. link' = [receive_status |-> IF Complete(longer) THEN "FULL" ELSE "INPROGRESS",
               received |-> longer, send_status |-> link.send_status]
  BY <1>2, FlowTypes DEF ConsecutiveFrame
<1>4. /\ link'.receive_status = IF Complete(longer) THEN "FULL" ELSE "INPROGRESS"
      /\ link'.received = longer
  BY <1>3
<1>5. /\ Len(longer) = len + 1 /\ longer[len + 1] = NextFrame /\ longer[1] = link.received[1]
      /\ \A i \in 1 .. len : longer[i] = link.received[i]
  BY <1>1, FlowTypes, RingPolledOnce
<1> HIDE DEF longer
<1>6. \A i \in 1 .. len : link.received[i].pdu = link.received[1].pdu /\ link.received[i].index = i - 1
  BY DEF FlowInv, LinkWhole, ReceivedInOrder
<1>7. ReceivedInOrder(longer)
  <2>1. SUFFICES ASSUME NEW i \in 1 .. Len(longer)
                 PROVE  longer[i].pdu = longer[1].pdu /\ longer[i].index = i - 1
    BY DEF ReceivedInOrder
  <2>2. CASE i \in 1 .. len
    BY <1>5, <1>6, <2>2
  <2>3. CASE i = len + 1
    BY <1>1, <1>5, <2>3
  <2> QED
    BY <1>1, <1>5, <2>2, <2>3
<1>8. LinkWhole'
  BY <1>1, <1>4, <1>5, <1>7 DEF LinkWhole, Complete
<1> QED
  BY <1>1, <1>4, <1>5, <1>8

\* A consecutive frame that the link does not take brings no flow control.
LEMMA PollsStrayConsecutive ==
  ASSUME FlowInv, IdentityInv, PollsFrame, NextFrame.type = "CF",
         link.receive_status # "INPROGRESS" \/ ~ ExpectedSn(link, NextFrame)
  PROVE  LinkWhole' /\ InStep' /\ ~ flowControl'
<1>1. /\ link' = IF Delivers(NextFrame) THEN isotp_on_can_message(link, NextFrame) ELSE link
      /\ flowControl' => flowControl \/ SendsFlowControl
  BY PollsFrameLink, Zenon
<1>2. CASE link.receive_status # "INPROGRESS"
  <2>1. link' = link
    BY <1>1, <1>2 DEF isotp_on_can_message, ConsecutiveFrame
  <2>2. ~ SendsFlowControl
    BY <2>1 DEF SendsFlowControl
  <2>3. LinkWhole'
    BY <2>1, Zenon DEF FlowInv, LinkWhole
  <2>4. InStep'
    BY <1>2, <2>1 DEF InStep
  <2> QED
    BY <1>1, <2>2, <2>3, <2>4, OnlyConsecutive, Zenon
<1>3. CASE link.receive_status = "INPROGRESS" /\ ~ ExpectedSn(link, NextFrame)
  <2>1. link' = [receive_status |-> "IDLE", received |-> <<>>, send_status |-> link.send_status]
    BY <1>1, <1>3, FlowTypes DEF Delivers, isotp_on_can_message, ConsecutiveFrame
  <2>2. link'.receive_status = "IDLE"
    BY <2>1
  <2>3. ~ SendsFlowControl
    BY <2>2 DEF SendsFlowControl, GrantsBlock
  <2>4. LinkWhole' /\ InStep'
    BY <2>2 DEF LinkWhole, InStep
  <2> QED
    BY <1>1, <2>3, <2>4, OnlyConsecutive, Zenon
<1> QED
  BY <1>2, <1>3

\* One that the link takes ends the block, or the block goes on.
LEMMA PollsNextConsecutive ==
  ASSUME FlowInv, IdentityInv, PollsFrame, NextFrame.type = "CF",
         link.receive_status = "INPROGRESS", ExpectedSn(link, NextFrame)
  PROVE  /\ LinkWhole' /\ InStep'
         /\ flowControl' => Requests(s_can_rx_queue') = {} /\ sender.state # "sending"
<1> DEFINE ring == s_can_rx_queue
           len == Len(link.received)
<1>1. /\ UNCHANGED sender
      /\ flowControl' => flowControl \/ SendsFlowControl
  BY PollsFrameLink, Zenon
<1>2. LinkWhole' /\ Len(link'.received) = len + 1 /\ link'.received[1].pdu = sender.pdu
  BY TakesNext
<1>3. /\ len \in Nat \ {0} /\ NextFrame.index = len
      /\ \A i \in Requests(ring') : ring'[i].index < BlockEnd(len)
      /\ sender.state = "sending" => sender.next + sender.credit = BlockEnd(len)
      /\ sender.state = "waiting" => sender.next = BlockEnd(len)
  BY NextInOrder
<1>4. /\ ~ flowControl
      /\ \A i \in Requests(ring') : len < ring'[i].index
      /\ sender.state # "idle" => len < sender.next
  BY <1>3, OnlyConsecutive
<1>5. /\ \A i \in Requests(ring') : ring'[i].index \in Nat
      /\ sender.state = "sending" => sender.credit >= 1
  BY RingPolledOnce, RingFrame, PollsFrameRing
<1>6. SendsFlowControl => len % BlockSize = 0
  <2>1. (len + 1) - 1 = len
    BY <1>3
  <2> QED
    BY <1>2, <2>1 DEF SendsFlowControl, GrantsBlock
<1>7. BlockEnd(len) \in Int /\ BlockEnd(len + 1) \in Int
  BY <1>3, Blocks
<1> HIDE DEF len
<1>8. CASE BlockEnd(len) # len + 1
  <2>1. ~ flowControl'
    <3>1. ~ SendsFlowControl
      BY <1>3, <1>6, <1>8, Blocks
    <3> QED
      BY <1>1, <1>4, <3>1, Zenon
  <2>2. BlockEnd(len + 1) = BlockEnd(len)
    BY <1>3, <1>8, Blocks
  <2>3. \A i \in Requests(ring') : len + 1 <= ring'[i].index /\ ring'[i].index < BlockEnd(len + 1)
    BY <1>3, <1>4, <1>5, <2>2
  <2>4. sender'.state = "sending" =>
          len + 1 <= sender'.next /\ sender'.next + sender'.credit = BlockEnd(len + 1)
    BY <1>1, <1>3, <1>4, <2>2, FlowTypes
  <2>5. sender'.state = "waiting" => sender'.next = BlockEnd(len + 1)
    BY <1>1, <1>3, <2>2
  <2>6. InStep'
    BY <1>1, <1>2, <2>1, <2>3, <2>4, <2>5 DEF InStep
  <2> QED
    BY <1>2, <2>1, <2>6, Zenon
<1>9. CASE BlockEnd(len) = len + 1
  <2>1. Requests(ring') = {} /\ sender.state # "sending"
    BY <1>3, <1>4, <1>5, <1>9, FlowTypes
  <2>2. sender'.state = "waiting" => sender'.next = len + 1
    BY <1>1, <1>3, <1>9
  <2>3. BlockEnd(len + 1) = (len + 1) + BlockSize
    <3>1. len % BlockSize = 0
      BY <1>3, <1>9, Blocks
    <3>2. len + 1 \in Nat \ {0} /\ (len + 1) - 1 = len
      BY <1>3
    <3>3. ((len + 1) - 1) % BlockSize = 0
      BY <3>1, <3>2
    <3> QED
      BY <3>2, <3>3, Blocks
  <2>4. InStep'
    BY <1>1, <1>2, <2>1, <2>2, <2>3 DEF InStep
  <2> QED
    BY <1>2, <2>1, <2>4, Zenon
<1> QED
  BY <1>8, <1>9

LEMMA PollsConsecutive ==
  ASSUME FlowInv, IdentityInv, PollsFrame, NextFrame.type = "CF"
  PROVE  FlowInv'
<1>1. UNCHANGED sender
  BY PollsFrameLink
<1>2. /\ LinkWhole' /\ InStep'
      /\ flowControl' => Requests(s_can_rx_queue') = {} /\ sender.state # "sending"
  <2>1. CASE link.receive_status = "INPROGRESS" /\ ExpectedSn(link, NextFrame)
    BY <2>1, PollsNextConsecutive, Zenon
  <2>2. CASE ~ (link.receive_status = "INPROGRESS" /\ ExpectedSn(link, NextFrame))
    BY <2>2, PollsStrayConsecutive, Zenon
  <2> QED
    BY <2>1, <2>2, Zenon
<1>3. FirstAlone'
  BY OnlyConsecutive DEF FirstAlone
<1>4. WithinBlock'
  BY <1>1, <1>2, PollsFrameRing DEF WithinBlock
<1> QED
  BY <1>2, <1>3, <1>4, PollsFrameRing DEF FlowInv, RingInv

LEMMA PollsFrameFlow ==
  ASSUME FlowInv, IdentityInv, PollsFrame
  PROVE  FlowInv'
<1>1. NextFrame.type \in {"SF", "FF", "CF", "FC"}
  BY RingPolledOnce DEF Frames
<1> QED
  BY <1>1, PollsControl, PollsFirst, PollsConsecutive, Zenon

----------------------------------------------------------------------------
(* Flow control: the theorems *)

LEMMA StepFlow ==
  ASSUME FlowInv, IdentityInv, [Next]_vars
  PROVE  FlowInv'
<1>1. ASSUME NEW pdu \in Pdus, StartRequest(pdu) PROVE FlowInv'
  BY <1>1, StartRequestFlow
<1>2. CASE SendConsecutive
  BY <1>2, SendConsecutiveFlow
<1>3. CASE FlowControlArrives
  BY <1>3, FlowControlArrivesFlow
<1>4. CASE GivesUp
  BY <1>4, GivesUpFlow
<1>5. CASE ClientFlowControl
  BY <1>5, ClientFlowControlFlow
<1>6. CASE LssFrame
  BY <1>6, FlowKept DEF LssFrame, busVars
<1>7. CASE Wakes
  BY <1>7, FlowKept DEF Wakes, busVars
<1>8. CASE PollsFrame
  BY <1>8, PollsFrameFlow
<1>9. CASE RingPolled
  BY <1>9, RingPolledFlow
<1>10. CASE UDS_Poll
  BY <1>10, UDS_PollFlow
<1>11. CASE MainThread
  BY <1>11, FlowKept DEF MainThread, busVars
<1>12. CASE ResetCommunication
  BY <1>12, FlowCleared DEF ResetCommunication
<1>13. CASE PowerFails
  BY <1>13, FlowCleared DEF PowerFails
<1>14. CASE Restart
  BY <1>14, FlowKept DEF Restart, busVars
<1>15. CASE UNCHANGED vars
  BY <1>15, FlowKept DEF vars, busVars
<1> QED
  BY <1>1, <1>2, <1>3, <1>4, <1>5, <1>6, <1>7, <1>8, <1>9, <1>10, <1>11, <1>12, <1>13, <1>14,
     <1>15, Zenon DEF Next

\* Whatever frames are lost and whenever either end restarts, the sender, the frames in the ring
\* and the reception agree on the request and on the block they are in (PollUdsCanFrames).
THEOREM FlowInvariant == Spec => [](IdentityInv /\ FlowInv)
<1>1. Init => FlowInv
  BY InitFlow
<1>2. FlowInv /\ IdentityInv /\ [Next]_vars => FlowInv'
  BY StepFlow
<1> QED
  BY <1>1, <1>2, IdentityInvariant, PTL DEF Spec

\* What the link hands to the server is one request, whole and in order (isotp_on_can_message).
THEOREM RequestIsWhole == Spec => []PduIsWhole
<1>1. IdentityInv /\ FlowInv => PduIsWhole
  <2> SUFFICES ASSUME IdentityInv, FlowInv, link.receive_status = "FULL"
               PROVE  WholePdu(link.received)
    BY DEF PduIsWhole
  <2>1. link.received \in Seq(Frames)
    BY FlowTypes
  <2> QED
    BY <2>1 DEF FlowInv, LinkWhole, ReceivedInOrder, WholePdu
<1> QED
  BY <1>1, FlowInvariant, PTL

\* A ring with room for a block, for the flow controls of two answers and for one more frame
\* never drops one (ReceiveUdsCanFrame; 32 slots and blocks of 8 frames in the product).
THEOREM RingNeverFull ==
  ASSUME BlockSize + 3 < CAN_RX_QUEUE_CAPACITY
  PROVE  Spec => []RingKeepsUp
<1>1. IdentityInv /\ FlowInv => RingKeepsUp
  <2> SUFFICES ASSUME IdentityInv, FlowInv PROVE ~ RingFull
    BY DEF RingKeepsUp
  <2> DEFINE requests == Cardinality(Requests(s_can_rx_queue))
             controls == Cardinality(Controls(s_can_rx_queue))
  <2>1. requests \in Nat /\ controls \in Nat /\ Len(s_can_rx_queue) <= requests + controls
    BY FlowTypes, RingPositions
  <2>2. requests <= BlockSize
    BY DEF FlowInv, RingInv, WithinBlock
  <2>3. controls <= 2
    BY <2>1 DEF FlowInv, FewControls
  <2>4. Len(s_can_rx_queue) \in Nat
    BY FlowTypes
  <2> HIDE DEF requests, controls
  <2> QED
    BY <2>1, <2>2, <2>3, <2>4, TransportSizes DEF RingFull
<1> QED
  BY <1>1, FlowInvariant, PTL
=============================================================================
