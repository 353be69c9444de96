--------------------------- MODULE UpdaterService ---------------------------
(***************************************************************************)
(* The mcu-updater process between SWUpdate and an update: the ZeroMQ      *)
(* endpoint of remote_handler.c, the transaction of install_remote_image   *)
(* in mcu_updater.c, and systemd, which starts the process again.          *)
(*                                                                         *)
(* SWUpdate is external: one session at a time, one request at a time, and *)
(* it may give up or be killed whenever it waits.  An update is one step   *)
(* here; LssCommissioning and OtaSystem are what happens in it.            *)
(***************************************************************************)
EXTENDS Integers, Sequences, SequencesExt

CONSTANTS
  MaxChunks,   \* an image comes in at most so many DATA requests
  MaxSessions  \* bound: sessions are numbered modulo this

ASSUME ServiceBounds == MaxChunks \in Nat \ {0} /\ MaxSessions \in Nat \ {0, 1}

VARIABLES
  updater,    \* where the process is, and the request it owes an answer (0: none)
  endpoint,   \* the socket file: "absent", "private" (mode 0700) or "shared" (0660)
  image,      \* the anonymous file: the DATA requests written to it
  expected,   \* expected_size
  inbox,      \* requests on their way
  reply,      \* the answer on its way, if its session still waits
  session,    \* SWUpdate's session: its number, how far it is, how it ended, and how many requests
              \* of sessions before it were left when it began (history)
  installed,  \* an update confirmed the artifact of this session, whole and in order (history)
  refused     \* how many INITs in a row were refused

vars == <<updater, endpoint, image, expected, inbox, reply, session, installed, refused>>

NoReply == [to |-> 0, code |-> "none"]

Init ==
  /\ updater = [at |-> "down", owes |-> 0]
  /\ endpoint = "absent"
  /\ image = <<>> /\ expected = 0
  /\ inbox = <<>> /\ reply = NoReply
  /\ session = [id |-> 1, size |-> 0, sent |-> 0, outcome |-> "failure", left |-> 0]
  /\ installed = FALSE /\ refused = 0

Running == updater.at \notin {"down", "expired"}
Waits == session.outcome = "pending"

Chunk(from, index) == [from |-> from, index |-> index]

\* What a session would have written.
Artifact(s) == [i \in 1 .. s.size |-> Chunk(s.id, i)]

----------------------------------------------------------------------------
(* Start and end of the process *)

\* prepare_endpoint and zmq_bind: a socket left behind is removed if it has the mode of ours, and
\* the new one gets the mode that umask leaves.
Binds ==
  /\ ~ Running
  /\ endpoint \in {"absent", "shared"}
  /\ endpoint' = "private"
  /\ updater' = [at |-> "bound", owes |-> 0]
  /\ UNCHANGED <<image, expected, inbox, reply, session, installed, refused>>

\* chmod, and the loop begins.
Serves ==
  /\ updater.at = "bound"
  /\ endpoint' = "shared"
  /\ updater' = [updater EXCEPT !.at = "init"]
  /\ UNCHANGED <<image, expected, inbox, reply, session, installed, refused>>

\* A request that was not delivered yet waits for the next process in the socket of its session.
Undelivered == {<<>>} \cup {<<inbox[i]>> : i \in {j \in DOMAIN inbox : inbox[j].from = session.id}}

Ends(at) ==
  /\ updater' = [at |-> at, owes |-> 0]
  /\ image' = <<>> /\ expected' = 0
  /\ inbox' \in Undelivered

remote_handler_close ==
  /\ updater.at = "closing"
  /\ endpoint' = "absent"
  /\ Ends("down")
  /\ UNCHANGED <<reply, session, installed, refused>>

Killed ==
  /\ Running
  /\ Ends("down")
  /\ UNCHANGED <<endpoint, reply, session, installed, refused>>

\* systemd stops the service: the directory of the endpoint goes, which it does not when the
\* process ended and is started again (RuntimeDirectoryPreserve=restart).
Stopped ==
  /\ endpoint' = "absent"
  /\ Ends("down")
  /\ UNCHANGED <<reply, session, installed, refused>>

\* The total timeout ends the process at any point of the update; the image may be confirmed.
update_watchdog_expired ==
  /\ updater.at = "install"
  /\ Ends("expired")
  /\ installed' \in {installed, installed \/ image = Artifact(session)}
  /\ UNCHANGED <<endpoint, reply, session, refused>>

----------------------------------------------------------------------------
(* install_remote_image *)

\* The answer to a session that is gone is dropped; one that is on its way arrives.
RHmsg_send_ack(from, code) ==
  reply' = IF Waits /\ from = session.id THEN [to |-> from, code |-> code] ELSE reply

\* A frame that is too long is not answered, and the process ends.
Unreadable(Request) ==
  /\ Request.command = "LONG"
  /\ updater' = [at |-> "closing", owes |-> Request.from]
  /\ UNCHANGED <<image, expected, reply, refused>>

Accepted(Request) ==
  /\ updater.at = "init"
  /\ Request.command = "INIT" /\ Request.size \in 1 .. MaxChunks
  /\ expected' = Request.size /\ image' = <<>>
  /\ updater' = [at |-> "data", owes |-> 0]
  /\ RHmsg_send_ack(Request.from, "ACK")
  /\ refused' = 0

\* Fault: the image that is under way goes on after the refusal.
Faulty_Refused(Request) ==
  /\ \/ updater.at = "init" /\ ~ (Request.command = "INIT" /\ Request.size \in 1 .. MaxChunks)
     \/ updater.at = "data" /\ Request.command = "INIT"
  /\ Request.command # "LONG"
  /\ UNCHANGED <<updater, image, expected>>
  /\ RHmsg_send_ack(Request.from, "NACK")
  /\ refused' = IF Request.command = "INIT" /\ Request.size \in 1 .. MaxChunks THEN refused + 1
                ELSE refused

\* A request that does not fit ends the transaction; so does DATA that cannot be written.
Refused(Request) ==
  /\ Request.command # "LONG"
  /\ \/ updater.at = "init" /\ ~ (Request.command = "INIT" /\ Request.size \in 1 .. MaxChunks)
     \/ updater.at = "data"
  /\ updater' = [at |-> "init", owes |-> 0]
  /\ image' = <<>> /\ expected' = 0
  /\ RHmsg_send_ack(Request.from, "NACK")
  /\ refused' = IF Request.command = "INIT" /\ Request.size \in 1 .. MaxChunks THEN refused + 1
                ELSE refused

\* Fault: a new INIT is taken as the start of the image that is under way.
Faulty_Written(Request) ==
  /\ updater.at = "data" /\ Request.command \in {"INIT", "DATA"}
  /\ image' = IF Request.command = "DATA" THEN Append(image, Chunk(Request.from, Request.index))
              ELSE image
  /\ updater' = IF Len(image') = expected THEN [at |-> "install", owes |-> Request.from]
                ELSE updater
  /\ IF Len(image') = expected THEN UNCHANGED reply ELSE RHmsg_send_ack(Request.from, "ACK")
  /\ UNCHANGED <<expected, refused>>

\* The answer to the last DATA waits for the update.
Written(Request) ==
  /\ updater.at = "data" /\ Request.command = "DATA"
  /\ image' = Append(image, Chunk(Request.from, Request.index))
  /\ IF Len(image') < expected
     THEN UNCHANGED updater /\ RHmsg_send_ack(Request.from, "ACK")
     ELSE updater' = [at |-> "install", owes |-> Request.from] /\ UNCHANGED reply
  /\ UNCHANGED <<expected, refused>>

\* The requests of one session stay in order, but a REP socket takes its clients in turn: what a
\* session that gave up left may come before, between or after the requests of the next ones.
remote_handler_receive ==
  /\ updater.at \in {"init", "data"}
  /\ \E i \in DOMAIN inbox :
       /\ \A j \in 1 .. i - 1 : inbox[j].from # inbox[i].from
       /\ inbox' = RemoveAt(inbox, i)
       /\ Unreadable(inbox[i]) \/ Accepted(inbox[i]) \/ Refused(inbox[i]) \/ Written(inbox[i])
  /\ UNCHANGED <<endpoint, session, installed>>

\* request_target_node and mcu_update_run_image, with the answer.
Installs(confirmed) ==
  /\ updater.at = "install"
  /\ installed' = (installed \/ (confirmed /\ image = Artifact(session)))
  /\ RHmsg_send_ack(updater.owes, IF confirmed THEN "ACK" ELSE "NACK")
  /\ updater' = [at |-> "init", owes |-> 0]
  /\ image' = <<>> /\ expected' = 0
  /\ UNCHANGED <<endpoint, inbox, session, refused>>

----------------------------------------------------------------------------
(* SWUpdate *)

Sends(command, s) ==
  inbox' = Append(inbox, [from |-> s.id, command |-> command, size |-> s.size, index |-> s.sent])

\* Nothing of the session that had this number is left.
Forgotten(id) ==
  /\ \A i \in DOMAIN inbox : inbox[i].from # id
  /\ \A i \in DOMAIN image : image[i].from # id
  /\ updater.owes # id

\* The artifact may be too large for the updater.
SessionBegins(size) ==
  /\ ~ Waits
  /\ LET id == (session.id % MaxSessions) + 1
     IN  /\ Forgotten(id)
         /\ session' = [id |-> id, size |-> size, sent |-> 0, outcome |-> "pending",
                        left |-> Len(inbox)]
  /\ installed' = FALSE
  /\ Sends("INIT", session')
  /\ reply' = NoReply
  /\ UNCHANGED <<updater, endpoint, image, expected, refused>>

\* The next DATA, or the end: the ACK of the last one is the result.
SessionGoesOn ==
  /\ Waits /\ reply.code = "ACK"
  /\ IF session.sent = session.size
     THEN session' = [session EXCEPT !.outcome = "success"] /\ UNCHANGED inbox
     ELSE /\ session' = [session EXCEPT !.sent = @ + 1]
          /\ Sends("DATA", session') \/ Sends("LONG", session')
  /\ reply' = NoReply
  /\ UNCHANGED <<updater, endpoint, image, expected, installed, refused>>

\* A NACK, a timeout, or the end of SWUpdate.
SessionFails ==
  /\ Waits
  /\ session' = [session EXCEPT !.outcome = "failure"]
  /\ reply' = NoReply
  /\ UNCHANGED <<updater, endpoint, image, expected, inbox, installed, refused>>

----------------------------------------------------------------------------

Next ==
  \/ Binds \/ Serves \/ remote_handler_close \/ Killed \/ Stopped
  \/ update_watchdog_expired
  \/ remote_handler_receive
  \/ \E confirmed \in BOOLEAN : Installs(confirmed)
  \/ \E size \in 1 .. MaxChunks + 1 : SessionBegins(size)
  \/ SessionGoesOn \/ SessionFails

Spec == Init /\ [][Next]_vars

----------------------------------------------------------------------------
(* Properties *)

\* SWUpdate reports success only for an artifact that an update confirmed, when not more than one
\* request of sessions that gave up was left as it began: the ACK after the last DATA is the one
\* that follows mcu_update_run_image, in whatever order the requests are received
\* (install_remote_image does not ask who sent them).
OneLeftIsHarmless == session.outcome = "success" /\ session.left <= 1 => installed

\* A session that was cut short costs one refusal, and not more: the one that finds its rest ends
\* it (the break after NACK).
RefusedOnce == refused <= 1

\* Claimed by gateway/docs/module-boundaries.md, that mcu-updater "returns ACK only after the
\* selected MCU is running the confirmed image", and by systemd-hawkbit-runtime.md, that the final
\* ACK comes "only when every MCU step succeeds": a session that succeeds was installed.
AckedIsInstalled == session.outcome = "success" => installed
=============================================================================
