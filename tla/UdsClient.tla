----------------------------- MODULE UdsClient -----------------------------
(***************************************************************************)
(* The gateway's UDS client, uds_client.c on the client half of iso14229,  *)
(* and the channel between it and the node: isotp_channel.c, the kernel,   *)
(* the bus and the node's receive path.                                    *)
(*                                                                         *)
(* One request may wait at the node, one may be under way there, and       *)
(* answers queue in the socket.  Requests and answers may be lost.  A      *)
(* service is its SID and its subfunction or data identifier.              *)
(***************************************************************************)
EXTENDS Integers, Sequences

CONSTANT MaxAnswers   \* answers the socket holds (a bound)

ASSUME AnswerBound == MaxAnswers \in Nat \ {0}

VARIABLES
  connected,  \* the socket is open
  call,       \* the request the client waits with
  inbox,      \* the request the node has whole, but has not taken
  serving,    \* the answer the node will give to the request it took
  answers     \* what the socket has received

channelVars == <<connected, call, inbox, serving, answers>>

NoService == <<"none", "none">>
None == [service |-> NoService, code |-> "OK", number |-> 0, size |-> 0, data |-> <<>>,
         late |-> FALSE]

Empty(message) == message.service = NoService

\* A request: its number is a block counter or a token, its size one of a block or an image.
Request(service, number, size, data) ==
  [None EXCEPT !.service = service, !.number = number, !.size = size, !.data = data]

\* The client has turned to another request.
Belated(message) == IF Empty(message) THEN message ELSE [message EXCEPT !.late = TRUE]

BelatedAll(messages) == [i \in DOMAIN messages |-> Belated(messages[i])]

InitChannel ==
  /\ connected = FALSE
  /\ call = None /\ inbox = None /\ serving = None
  /\ answers = <<>>

----------------------------------------------------------------------------
(* Sending *)

\* STATE_SENDING takes one message that is there already, and throws it away.
Drained == IF answers = <<>> THEN answers ELSE Tail(answers)

\* write() took the request.  The node gets it unless the bus loses it, or one waits there.  What
\* the node has not taken or answered through a whole request of the client is not left (a bound).
UDSSendRequest(request) ==
  /\ connected /\ Empty(call)
  /\ ~ serving.late
  /\ call' = request
  /\ LET waiting == IF inbox.late THEN None ELSE Belated(inbox)
     IN  inbox' \in {waiting} \cup IF Empty(waiting) THEN {request} ELSE {}
  /\ serving' = Belated(serving)
  /\ answers' = BelatedAll(Drained)
  /\ UNCHANGED connected

\* gateway_tp_send answers UDS_ERR_TPORT; init_upstream leaves no request under way.
UDSSendFails ==
  /\ Empty(call)
  /\ call' = None
  /\ inbox' = inbox /\ serving' = serving

----------------------------------------------------------------------------
(* Receiving *)

SameSid(answer) == answer.service[1] = call.service[1]

\* What the typed functions compare: the subfunction, the data identifier, the block counter.
SameSubfunction(answer) ==
  /\ answer.service = call.service
  /\ call.service[1] = "0x36" => answer.number = call.number

\* ValidateServerResponse, then the checks of the typed functions.
Result(answer) ==
  IF ~ SameSid(answer) THEN "SID_MISMATCH"
  ELSE IF answer.code # "OK" THEN answer.code
  ELSE IF ~ SameSubfunction(answer) THEN "SUBFUNCTION_MISMATCH" ELSE "OK"

\* A result that is not of the client's own making.
Errors == {"TPORT", "TIMEOUT", "SID_MISMATCH", "SUBFUNCTION_MISMATCH"}
IsNrc(result) == result \notin Errors \cup {"OK"}

Hears == ~ Empty(call) /\ answers # <<>>
Waits == ~ Empty(call) /\ answers = <<>>

----------------------------------------------------------------------------
(* The socket *)

\* isotp_channel_open: what the old socket held is gone.
Reopen ==
  /\ connected' \in BOOLEAN
  /\ answers' = <<>>

isotp_channel_close ==
  /\ connected' = FALSE
  /\ answers' = <<>>
=============================================================================
