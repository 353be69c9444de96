------------------------- MODULE UpdaterService_proofs -------------------------
(***************************************************************************)
(* Proofs about UpdaterService, for every length of an image and number of *)
(* sessions, and for every order in which the requests of different        *)
(* sessions are received.                                                  *)
(***************************************************************************)
EXTENDS UpdaterService, SequenceTheorems, TLAPS

Requests == [from : Nat \ {0}, command : {"INIT", "DATA", "LONG"}, size : Nat, index : Nat]
Chunks == [from : Nat \ {0}, index : Nat]
Updaters == [at : {"down", "expired", "bound", "init", "data", "install", "closing"}, owes : Nat]
Replies == [to : Nat, code : {"none", "ACK", "NACK"}]
Sessions == [id : Nat \ {0}, size : Nat, sent : Nat,
             outcome : {"pending", "success", "failure"}, left : Nat]

\* The fields the records of the model have, and where the process may be.
Shape ==
  /\ updater \in Updaters
  /\ image \in Seq(Chunks) /\ expected \in Nat
  /\ inbox \in Seq(Requests)
  /\ reply \in Replies
  /\ session \in Sessions
  /\ installed \in BOOLEAN
  /\ updater.at = "data" => Len(image) < expected

Own(i) == inbox[i].from = session.id

UpdateIsOwn == updater.at = "install" /\ updater.owes = session.id

\* The session that waits has one request on its way, or in the update, or an answer.
OneAtATime ==
  Waits =>
    /\ session.size >= 1 /\ session.sent <= session.size
    /\ \A i \in DOMAIN inbox : Own(i) =>
         /\ inbox[i].size = session.size /\ inbox[i].index = session.sent
         /\ inbox[i].command = "INIT" <=> session.sent = 0
         /\ reply.code = "none" /\ ~ UpdateIsOwn
    /\ \A i, j \in DOMAIN inbox : Own(i) /\ Own(j) => i = j
    /\ UpdateIsOwn => reply.code = "none" /\ session.sent >= 1

\* How many requests of the session were acknowledged.
Acks == IF reply.code = "ACK" THEN session.sent + 1 ELSE session.sent

OneIsLeft == \A i, j \in DOMAIN inbox : ~ Own(i) /\ ~ Own(j) => i = j
NoneIsLeft == \A i \in DOMAIN inbox : Own(i)

\* Its INIT was not accepted yet.
Beginning == session.sent = 0 /\ reply.code # "ACK"

\* The transaction is its own, and holds what it sent.
Undisturbed ==
  /\ updater.at = "data" /\ expected = session.size /\ Len(image) = Acks - 1
  /\ \A i \in DOMAIN image : image[i] = Chunk(session.id, i)

\* Its artifact is being installed.
Complete == UpdateIsOwn /\ session.sent = session.size /\ image = Artifact(session)

\* The one request that was left has been received since the INIT was accepted: the transaction has
\* ended, or holds a block too many and is full before the last one comes.
Disturbed ==
  /\ NoneIsLeft /\ Acks >= 1
  /\ updater.at = "data" => expected = session.size /\ Len(image) = Acks
  /\ UpdateIsOwn => session.sent < session.size
  /\ reply.code = "ACK" => session.sent < session.size

\* No ACK will come any more.
Unanswered ==
  /\ \A i \in DOMAIN inbox : ~ Own(i)
  /\ reply.code # "ACK" /\ ~ UpdateIsOwn

Fates == Beginning \/ Undisturbed \/ Complete \/ installed \/ Disturbed \/ Unanswered

Fate == Waits /\ session.left <= 1 => OneIsLeft /\ Fates

ServiceInv == Shape /\ OneAtATime /\ Fate /\ OneLeftIsHarmless

----------------------------------------------------------------------------
(* Queues *)

\* Where the elements of the shorter sequence come from.
Before(i, k) == IF k < i THEN k ELSE k + 1

LEMMA Removed ==
  ASSUME NEW S, NEW s \in Seq(S), NEW i \in DOMAIN s
  PROVE  /\ RemoveAt(s, i) \in Seq(S)
         /\ Len(RemoveAt(s, i)) = Len(s) - 1
         /\ \A k \in DOMAIN RemoveAt(s, i) :
              /\ Before(i, k) \in DOMAIN s \ {i}
              /\ RemoveAt(s, i)[k] = s[Before(i, k)]
<1> DEFINE a == SubSeq(s, 1, i - 1)
           b == SubSeq(s, i + 1, Len(s))
<1>1. i \in 1 .. Len(s) /\ Len(s) \in Nat
  OBVIOUS
<1>2. /\ a \in Seq(S) /\ Len(a) = i - 1
      /\ \A k \in 1 .. i - 1 : a[k] = s[k]
  <2>1. \A k \in 1 .. i - 1 : s[k] \in S
    BY <1>1
  <2> QED
    BY <1>1, <2>1, SubSeqProperties
<1>3. /\ b \in Seq(S) /\ Len(b) = Len(s) - i
      /\ \A k \in 1 .. Len(s) - i : b[k] = s[i + k]
  <2>1. \A k \in i + 1 .. Len(s) : s[k] \in S
    BY <1>1
  <2>2. /\ b \in Seq(S)
        /\ Len(b) = IF i + 1 <= Len(s) THEN Len(s) - (i + 1) + 1 ELSE 0
        /\ \A k \in 1 .. Len(s) - (i + 1) + 1 : b[k] = s[i + 1 + k - 1]
    BY <1>1, <2>1, SubSeqProperties
  <2> QED
    BY <1>1, <2>2
<1> HIDE DEF a, b
<1> DEFINE t == a \o b
<1>4. RemoveAt(s, i) = t
  BY DEF RemoveAt, a, b
<1>5. /\ t \in Seq(S) /\ Len(t) = Len(a) + Len(b)
      /\ \A k \in 1 .. Len(a) + Len(b) : t[k] = IF k <= Len(a) THEN a[k] ELSE b[k - Len(a)]
  BY <1>2, <1>3, ConcatProperties
<1> HIDE DEF t
<1>6. Len(a) + Len(b) = Len(s) - 1 /\ Len(a) = i - 1
  BY <1>1, <1>2, <1>3
<1>7. \A k \in 1 .. Len(s) - 1 : t[k] = IF k <= i - 1 THEN a[k] ELSE b[k - (i - 1)]
  BY <1>5, <1>6
<1>8. ASSUME NEW k \in 1 .. Len(s) - 1
      PROVE  Before(i, k) \in DOMAIN s \ {i} /\ t[k] = s[Before(i, k)]
  <2>1. CASE k < i
    BY <1>1, <1>2, <1>7, <2>1 DEF Before
  <2>2. CASE ~ k < i
    <3>1. k - (i - 1) \in 1 .. Len(s) - i /\ i + (k - (i - 1)) = k + 1
      BY <1>1, <2>2
    <3>2. t[k] = b[k - (i - 1)]
      BY <1>1, <1>7, <2>2
    <3> QED
      BY <1>1, <1>3, <2>2, <3>1, <3>2 DEF Before
  <2> QED
    BY <2>1, <2>2
<1>9. Len(t) = Len(s) - 1 /\ DOMAIN t = 1 .. Len(s) - 1
  BY <1>1, <1>5, <1>6
<1> QED
  BY <1>4, <1>5, <1>8, <1>9

\* What receiving does to the queue.
Received(i) ==
  /\ i \in DOMAIN inbox /\ inbox[i] \in Requests
  /\ inbox' \in Seq(Requests)
  /\ \A k \in DOMAIN inbox' : /\ k \in Nat /\ Before(i, k) \in DOMAIN inbox \ {i}
                              /\ inbox'[k] = inbox[Before(i, k)]

LEMMA OneIsReceived ==
  ASSUME ServiceInv, remote_handler_receive
  PROVE  /\ updater.at \in {"init", "data"}
         /\ UNCHANGED <<session, installed>>
         /\ \E i \in DOMAIN inbox :
              /\ Received(i)
              /\ Unreadable(inbox[i]) \/ Accepted(inbox[i]) \/ Refused(inbox[i]) \/ Written(inbox[i])
<1>1. inbox \in Seq(Requests)
  BY DEF ServiceInv, Shape
<1>2. PICK i \in DOMAIN inbox :
        /\ inbox' = RemoveAt(inbox, i)
        /\ Unreadable(inbox[i]) \/ Accepted(inbox[i]) \/ Refused(inbox[i]) \/ Written(inbox[i])
  BY DEF remote_handler_receive
<1>3. /\ inbox' \in Seq(Requests)
      /\ \A k \in DOMAIN inbox' : /\ Before(i, k) \in DOMAIN inbox \ {i}
                                  /\ inbox'[k] = inbox[Before(i, k)]
  BY <1>1, <1>2, Removed
<1>4. Received(i)
  BY <1>1, <1>3 DEF Received
<1> QED
  BY <1>2, <1>4 DEF remote_handler_receive

LEMMA QueueShrinks ==
  ASSUME ServiceInv, NEW i, Received(i), UNCHANGED session
  PROVE  /\ \A k \in DOMAIN inbox' : \E m \in DOMAIN inbox : inbox'[k] = inbox[m]
         /\ Waits => \A k, m \in DOMAIN inbox' : Own(k)' /\ Own(m)' => k = m
         /\ Waits /\ Own(i) => \A k \in DOMAIN inbox' : ~ Own(k)'
         /\ OneIsLeft => OneIsLeft'
         /\ OneIsLeft /\ ~ Own(i) => NoneIsLeft'
         /\ NoneIsLeft => NoneIsLeft'
         /\ (\A k \in DOMAIN inbox : ~ Own(k)) => \A k \in DOMAIN inbox' : ~ Own(k)'
<1>1. /\ i \in DOMAIN inbox /\ DOMAIN inbox = 1 .. Len(inbox)
      /\ \A k \in DOMAIN inbox' : /\ k \in Nat /\ Before(i, k) \in DOMAIN inbox \ {i}
                                  /\ inbox'[k] = inbox[Before(i, k)]
  BY DEF Received, ServiceInv, Shape
<1>2. \A k \in DOMAIN inbox' : Own(k)' <=> Own(Before(i, k))
  BY <1>1 DEF Own
<1>3. ASSUME NEW k \in DOMAIN inbox', NEW m \in DOMAIN inbox', Before(i, k) = Before(i, m)
      PROVE  k = m
  BY <1>1, <1>3 DEF Before
<1>4. Waits => \A k, m \in DOMAIN inbox : Own(k) /\ Own(m) => k = m
  BY DEF ServiceInv, OneAtATime
<1>5. Waits => \A k, m \in DOMAIN inbox' : Own(k)' /\ Own(m)' => k = m
  BY <1>1, <1>2, <1>3, <1>4
<1>6. Waits /\ Own(i) => \A k \in DOMAIN inbox' : ~ Own(k)'
  BY <1>1, <1>2, <1>4
<1>7. OneIsLeft => \A k, m \in DOMAIN inbox' : ~ Own(k)' /\ ~ Own(m)' => k = m
  BY <1>1, <1>2, <1>3 DEF OneIsLeft
<1>8. OneIsLeft /\ ~ Own(i) => \A k \in DOMAIN inbox' : Own(k)'
  BY <1>1, <1>2 DEF OneIsLeft
<1>9. NoneIsLeft => \A k \in DOMAIN inbox' : Own(k)'
  BY <1>1, <1>2 DEF NoneIsLeft
<1>10. (\A k \in DOMAIN inbox : ~ Own(k)) => \A k \in DOMAIN inbox' : ~ Own(k)'
  BY <1>1, <1>2
<1> QED
  BY <1>1, <1>5, <1>6, <1>7, <1>8, <1>9, <1>10 DEF OneIsLeft, NoneIsLeft

----------------------------------------------------------------------------
(* install_remote_image *)

LEMMA Types ==
  ASSUME ServiceInv
  PROVE  /\ updater.at \in {"down", "expired", "bound", "init", "data", "install", "closing"}
         /\ updater.owes \in Nat
         /\ session.id \in Nat \ {0} /\ session.size \in Nat /\ session.sent \in Nat
         /\ session.left \in Nat
         /\ image \in Seq(Chunks) /\ expected \in Nat /\ Len(image) \in Nat
         /\ DOMAIN image = 1 .. Len(image)
         /\ updater.at = "data" => Len(image) < expected
         /\ reply.code \in {"none", "ACK", "NACK"}
BY DEF ServiceInv, Shape, Updaters, Sessions, Replies

\* Only the session that waits for it gets an answer.
LEMMA Answered ==
  ASSUME ServiceInv, NEW from \in Nat, NEW code \in {"ACK", "NACK"}, RHmsg_send_ack(from, code)
  PROVE  /\ reply' \in Replies
         /\ ~ (Waits /\ from = session.id) => reply' = reply
         /\ Waits /\ from = session.id => reply'.code = code
BY DEF RHmsg_send_ack, ServiceInv, Shape, Replies

\* A block is added to the image, which is full or goes on.
LEMMA BlockIsWritten ==
  ASSUME ServiceInv, NEW Request \in Requests, Written(Request)
  PROVE  /\ updater.at = "data" /\ Request.command = "DATA" /\ expected' = expected
         /\ image' \in Seq(Chunks) /\ Len(image') = Len(image) + 1
         /\ \A k \in 1 .. Len(image) : image'[k] = image[k]
         /\ image'[Len(image) + 1] = Chunk(Request.from, Request.index)
         /\ \/ /\ Len(image') < expected /\ updater' = updater
               /\ RHmsg_send_ack(Request.from, "ACK")
            \/ /\ Len(image') = expected /\ reply' = reply
               /\ updater' = [at |-> "install", owes |-> Request.from]
<1>1. /\ updater.at = "data" /\ Request.command = "DATA" /\ expected' = expected
      /\ image' = Append(image, Chunk(Request.from, Request.index))
      /\ IF Len(image') < expected
         THEN UNCHANGED updater /\ RHmsg_send_ack(Request.from, "ACK")
         ELSE updater' = [at |-> "install", owes |-> Request.from] /\ UNCHANGED reply
  BY DEF Written
<1>2. Chunk(Request.from, Request.index) \in Chunks
  BY DEF Chunk, Chunks, Requests
<1>3. /\ image' \in Seq(Chunks) /\ Len(image') = Len(image) + 1
      /\ \A k \in 1 .. Len(image) : image'[k] = image[k]
      /\ image'[Len(image) + 1] = Chunk(Request.from, Request.index)
  BY <1>1, <1>2, Types, AppendProperties
<1>4. Len(image') < expected \/ Len(image') = expected
  BY <1>1, <1>3, Types
<1> QED
  BY <1>1, <1>3, <1>4, Types

LEMMA ReceiveKeepsShape ==
  ASSUME ServiceInv, NEW i, Received(i), UNCHANGED <<session, installed>>,
         Unreadable(inbox[i]) \/ Accepted(inbox[i]) \/ Refused(inbox[i]) \/ Written(inbox[i])
  PROVE  Shape'
<1> DEFINE Request == inbox[i]
<1>1. /\ Request \in Requests /\ inbox' \in Seq(Requests)
      /\ session' \in Sessions /\ installed' \in BOOLEAN
  BY DEF Received, ServiceInv, Shape
<1>2. Request.from \in Nat /\ Request.size \in Nat
  BY <1>1 DEF Requests
<1> HIDE DEF Request
<1>3. CASE Unreadable(Request)
  BY <1>1, <1>2, <1>3 DEF Unreadable, ServiceInv, Shape, Updaters
<1>4. CASE Accepted(Request)
  <2>1. /\ updater' = [at |-> "data", owes |-> 0] /\ image' = <<>> /\ expected' = Request.size
        /\ Request.size \in 1 .. MaxChunks /\ RHmsg_send_ack(Request.from, "ACK")
    BY <1>4 DEF Accepted
  <2>2. reply' \in Replies
    BY <1>2, <2>1, Answered
  <2>3. Len(image') < expected'
    BY <1>2, <2>1, ServiceBounds
  <2> QED
    BY <1>1, <1>2, <2>1, <2>2, <2>3 DEF Shape, Updaters
<1>5. CASE Refused(Request)
  <2>1. /\ updater' = [at |-> "init", owes |-> 0] /\ image' = <<>> /\ expected' = 0
        /\ RHmsg_send_ack(Request.from, "NACK")
    BY <1>5 DEF Refused
  <2>2. reply' \in Replies
    BY <1>2, <2>1, Answered
  <2> QED
    BY <1>1, <2>1, <2>2 DEF Shape, Updaters
<1>6. CASE Written(Request)
  <2>1. /\ expected' = expected /\ image' \in Seq(Chunks)
        /\ \/ /\ Len(image') < expected /\ updater' = updater
              /\ RHmsg_send_ack(Request.from, "ACK")
           \/ /\ Len(image') = expected /\ reply' = reply
              /\ updater' = [at |-> "install", owes |-> Request.from]
    BY <1>1, <1>6, BlockIsWritten
  <2>2. reply' \in Replies
    BY <1>2, <2>1, Answered DEF ServiceInv, Shape
  <2> QED
    BY <1>1, <1>2, <2>1, <2>2 DEF ServiceInv, Shape, Updaters
<1> QED
  BY <1>3, <1>4, <1>5, <1>6 DEF Request

\* What a session that gave up had sent is received.
LEMMA OtherIsReceived ==
  ASSUME ServiceInv, NEW i, Received(i), ~ Own(i), Waits,
         updater.at \in {"init", "data"}, UNCHANGED <<session, installed>>,
         Unreadable(inbox[i]) \/ Accepted(inbox[i]) \/ Refused(inbox[i]) \/ Written(inbox[i])
  PROVE  OneAtATime' /\ Fate'
<1> DEFINE Request == inbox[i]
<1>1. Request \in Requests /\ Request.from \in Nat /\ Request.from # session.id
  BY DEF Received, Requests, Own
<1> HIDE DEF Request
<1>2. /\ reply' = reply /\ ~ UpdateIsOwn'
      /\ updater.at = "data" =>
           \/ updater'.at # "data"
           \/ expected' = expected /\ Len(image') = Len(image) + 1
  <2>1. CASE Unreadable(Request)
    BY <2>1 DEF Unreadable, UpdateIsOwn
  <2>2. CASE Accepted(Request)
    <3>1. updater.at = "init" /\ updater'.at = "data" /\ RHmsg_send_ack(Request.from, "ACK")
      BY <2>2 DEF Accepted
    <3> QED
      BY <1>1, <3>1, Answered DEF UpdateIsOwn
  <2>3. CASE Refused(Request)
    <3>1. updater'.at = "init" /\ RHmsg_send_ack(Request.from, "NACK")
      BY <2>3 DEF Refused
    <3> QED
      BY <1>1, <3>1, Answered DEF UpdateIsOwn
  <2>4. CASE Written(Request)
    <3>1. /\ updater.at = "data" /\ expected' = expected /\ Len(image') = Len(image) + 1
          /\ \/ updater' = updater /\ RHmsg_send_ack(Request.from, "ACK")
             \/ reply' = reply /\ updater' = [at |-> "install", owes |-> Request.from]
      BY <1>1, <2>4, BlockIsWritten
    <3> QED
      BY <1>1, <3>1, Answered DEF UpdateIsOwn
  <2> QED
    BY <2>1, <2>2, <2>3, <2>4 DEF Request
<1>3. OneAtATime'
  <2>1. ASSUME NEW k \in DOMAIN inbox', Own(k)'
        PROVE  /\ inbox'[k].size = session.size /\ inbox'[k].index = session.sent
               /\ inbox'[k].command = "INIT" <=> session.sent = 0
               /\ reply.code = "none"
    <3>1. PICK m \in DOMAIN inbox : inbox'[k] = inbox[m]
      BY QueueShrinks
    <3>2. Own(m)
      BY <2>1, <3>1 DEF Own
    <3> QED
      BY <3>1, <3>2 DEF ServiceInv, OneAtATime
  <2>2. \A k, m \in DOMAIN inbox' : Own(k)' /\ Own(m)' => k = m
    BY QueueShrinks
  <2>3. session.size >= 1 /\ session.sent <= session.size
    BY DEF ServiceInv, OneAtATime
  <2> QED
    BY <1>2, <2>1, <2>2, <2>3 DEF OneAtATime, Waits
<1>4. ASSUME session.left <= 1
      PROVE  OneIsLeft' /\ Fates'
  <2>1. OneIsLeft /\ Fates
    BY <1>4 DEF ServiceInv, Fate
  <2>2. OneIsLeft' /\ NoneIsLeft'
    BY <2>1, QueueShrinks
  <2>3. CASE Beginning
    BY <1>2, <2>2, <2>3 DEF Fates, Beginning
  <2>4. CASE Undisturbed
    <3>1. /\ updater.at = "data" /\ expected = session.size /\ Len(image) = Acks - 1
          /\ Len(image) < expected /\ Len(image) \in Nat /\ session.sent \in Nat
      BY <2>4, Types DEF Undisturbed
    <3>2. Acks' = Acks /\ Acks \in Nat /\ Acks >= 1
      BY <1>2, <3>1 DEF Acks
    <3>3. reply.code = "ACK" => session.sent < session.size
      BY <3>1 DEF Acks
    <3>4. Disturbed'
      BY <1>2, <2>2, <3>1, <3>2, <3>3 DEF Disturbed
    <3> QED
      BY <2>2, <3>4 DEF Fates
  <2>5. CASE Complete
    BY <2>5 DEF Complete, UpdateIsOwn
  <2>6. CASE installed
    BY <2>2, <2>6 DEF Fates
  <2>7. CASE Disturbed
    BY <2>7 DEF Disturbed, NoneIsLeft, Received
  <2>8. CASE Unanswered
    <3>1. \A k \in DOMAIN inbox' : ~ Own(k)'
      BY <2>8, QueueShrinks DEF Unanswered
    <3>2. Unanswered'
      BY <1>2, <2>8, <3>1 DEF Unanswered
    <3> QED
      BY <2>2, <3>2 DEF Fates
  <2> QED
    BY <2>1, <2>3, <2>4, <2>5, <2>6, <2>7, <2>8 DEF Fates
<1> QED
  BY <1>3, <1>4 DEF Fate

\* What the session that waits had sent is received.
LEMMA OwnIsReceived ==
  ASSUME ServiceInv, NEW i, Received(i), Own(i), Waits,
         UNCHANGED <<session, installed>>,
         Unreadable(inbox[i]) \/ Accepted(inbox[i]) \/ Refused(inbox[i]) \/ Written(inbox[i])
  PROVE  OneAtATime' /\ Fate'
<1> DEFINE Request == inbox[i]
<1>1. /\ Request \in Requests /\ Request.from = session.id /\ Request.from \in Nat
      /\ Request.size = session.size /\ Request.index = session.sent
      /\ Request.command = "INIT" <=> session.sent = 0
      /\ reply.code = "none" /\ ~ UpdateIsOwn
      /\ session.size >= 1 /\ session.sent <= session.size
  BY DEF Received, Requests, Own, ServiceInv, OneAtATime
<1>2. /\ \A k \in DOMAIN inbox' : ~ Own(k)'
      /\ OneIsLeft => OneIsLeft'
      /\ NoneIsLeft => NoneIsLeft'
  BY QueueShrinks
<1>3. ~ Unanswered /\ Acks = session.sent
  BY <1>1 DEF Unanswered, Received, Acks
<1> HIDE DEF Request
<1>4. ASSUME UpdateIsOwn' => reply'.code = "none" /\ session.sent >= 1
      PROVE  OneAtATime'
  BY <1>1, <1>2, <1>4 DEF OneAtATime, Waits
<1>5. Waits /\ session.left <= 1 => OneIsLeft /\ Fates
  BY DEF ServiceInv, Fate
<1>6. CASE Unreadable(Request)
  <2>1. ~ UpdateIsOwn' /\ reply' = reply
    BY <1>6 DEF Unreadable, UpdateIsOwn
  <2>2. Unanswered'
    BY <1>1, <1>2, <2>1 DEF Unanswered
  <2> QED
    BY <1>2, <1>4, <1>5, <2>1, <2>2 DEF Fate, Fates, Waits
<1>7. CASE Refused(Request)
  <2>1. ~ UpdateIsOwn' /\ reply'.code = "NACK"
    <3>1. updater'.at = "init" /\ RHmsg_send_ack(Request.from, "NACK")
      BY <1>7 DEF Refused
    <3> QED
      BY <1>1, <3>1, Answered DEF UpdateIsOwn
  <2>2. Unanswered'
    BY <1>1, <1>2, <2>1 DEF Unanswered
  <2> QED
    BY <1>2, <1>4, <1>5, <2>1, <2>2 DEF Fate, Fates, Waits
<1>8. CASE Accepted(Request)
  <2>1. /\ Request.command = "INIT" /\ expected' = Request.size /\ image' = <<>>
        /\ updater'.at = "data" /\ RHmsg_send_ack(Request.from, "ACK")
    BY <1>8 DEF Accepted
  <2>2. reply'.code = "ACK" /\ session.sent = 0
    BY <1>1, <2>1, Answered
  <2>3. Undisturbed'
    BY <1>1, <2>1, <2>2 DEF Undisturbed, Acks
  <2>4. ~ UpdateIsOwn'
    BY <2>1 DEF UpdateIsOwn
  <2> QED
    BY <1>2, <1>4, <1>5, <2>3, <2>4 DEF Fate, Fates, Waits
<1>9. CASE Written(Request)
  <2>1. /\ updater.at = "data" /\ Request.command = "DATA" /\ expected' = expected
        /\ image' \in Seq(Chunks) /\ Len(image') = Len(image) + 1
        /\ \A k \in 1 .. Len(image) : image'[k] = image[k]
        /\ image'[Len(image) + 1] = Chunk(session.id, session.sent)
    BY <1>1, <1>9, BlockIsWritten
  <2>2. \/ Len(image') < expected /\ updater' = updater /\ reply'.code = "ACK"
        \/ /\ Len(image') = expected /\ reply' = reply
           /\ updater' = [at |-> "install", owes |-> session.id]
    <3>1. \/ /\ Len(image') < expected /\ updater' = updater
             /\ RHmsg_send_ack(Request.from, "ACK")
          \/ /\ Len(image') = expected /\ reply' = reply
             /\ updater' = [at |-> "install", owes |-> Request.from]
      BY <1>1, <1>9, BlockIsWritten
    <3> QED
      BY <1>1, <3>1, Answered
  <2>3. session.sent \in Nat \ {0} /\ session.size \in Nat /\ Len(image) \in Nat
    BY <1>1, <2>1, Types
  <2>4. OneAtATime'
    BY <1>1, <1>4, <2>1, <2>2, <2>3 DEF UpdateIsOwn
  <2>5. \/ /\ updater'.at = "data" /\ Len(image') < expected /\ Acks' = session.sent + 1
           /\ ~ UpdateIsOwn' /\ reply'.code = "ACK"
        \/ /\ updater'.at = "install" /\ Len(image') = expected /\ UpdateIsOwn'
           /\ Acks' = session.sent /\ reply'.code # "ACK"
    BY <1>1, <2>1, <2>2, <2>3 DEF Acks, UpdateIsOwn
  <2>6. ASSUME session.left <= 1
        PROVE  OneIsLeft' /\ Fates'
    <3>1. OneIsLeft /\ Fates
      BY <1>5, <2>6
    <3>2. CASE Beginning
      BY <2>3, <3>2 DEF Beginning
    <3>3. CASE Undisturbed
      <4>1. /\ expected = session.size /\ Len(image) = session.sent - 1
            /\ \A k \in DOMAIN image : image[k] = Chunk(session.id, k)
        BY <1>3, <3>3 DEF Undisturbed
      <4>2. /\ Len(image') = session.sent /\ DOMAIN image' = 1 .. session.sent
            /\ DOMAIN image = 1 .. Len(image)
        BY <2>1, <2>3, <4>1, Types
      <4>3. \A k \in 1 .. session.sent : image'[k] = Chunk(session.id, k)
        BY <2>1, <2>3, <4>1, <4>2
      <4>4. CASE updater'.at = "data"
        <5>1. Acks' = session.sent + 1
          BY <2>5, <4>4
        <5>2. Undisturbed'
          BY <2>1, <2>3, <4>1, <4>2, <4>3, <4>4, <5>1 DEF Undisturbed
        <5> QED
          BY <1>2, <3>1, <5>2 DEF Fates
      <4>5. CASE updater'.at = "install"
        <5>1. UpdateIsOwn' /\ session.sent = session.size
          BY <2>5, <4>1, <4>2, <4>5
        <5>2. image' = [k \in 1 .. session.sent |-> Chunk(session.id, k)]
          BY <2>1, <4>2, <4>3
        <5>3. image' = Artifact(session)
          BY <5>1, <5>2 DEF Artifact
        <5>4. Complete'
          BY <5>1, <5>3 DEF Complete
        <5> QED
          BY <1>2, <3>1, <5>4 DEF Fates
      <4> QED
        BY <2>5, <4>4, <4>5
    <3>4. CASE Complete
      BY <2>1, <3>4 DEF Complete, UpdateIsOwn
    <3>5. CASE installed
      BY <1>2, <3>1, <3>5 DEF Fates
    <3>6. CASE Disturbed
      <4>1. expected = session.size /\ Len(image) = session.sent /\ NoneIsLeft
        BY <1>3, <2>1, <3>6 DEF Disturbed
      <4>2. session.sent < session.size /\ Acks' >= 1
        BY <2>1, <2>3, <2>5, <4>1
      <4>3. updater'.at = "data" => expected' = session.size /\ Len(image') = Acks'
        BY <2>1, <2>5, <4>1
      <4>4. NoneIsLeft'
        BY <1>2, <4>1
      <4>5. Disturbed'
        BY <4>2, <4>3, <4>4 DEF Disturbed
      <4> QED
        BY <1>2, <3>1, <4>5 DEF Fates
    <3> QED
      BY <1>3, <3>1, <3>2, <3>3, <3>4, <3>5, <3>6 DEF Fates
  <2> QED
    BY <2>4, <2>6 DEF Fate
<1> QED
  BY <1>6, <1>7, <1>8, <1>9 DEF Request

LEMMA ReceiveKeepsInv ==
  ASSUME ServiceInv, remote_handler_receive
  PROVE  ServiceInv'
<1>1. updater.at \in {"init", "data"} /\ UNCHANGED <<session, installed>>
  BY OneIsReceived
<1>2. PICK i \in DOMAIN inbox :
        /\ Received(i)
        /\ Unreadable(inbox[i]) \/ Accepted(inbox[i]) \/ Refused(inbox[i]) \/ Written(inbox[i])
  BY OneIsReceived
<1>3. Shape'
  BY <1>1, <1>2, ReceiveKeepsShape
<1>4. OneAtATime' /\ Fate'
  <2>1. CASE ~ Waits
    BY <1>1, <2>1 DEF OneAtATime, Fate, Waits
  <2>2. CASE Waits /\ Own(i)
    BY <1>1, <1>2, <2>2, OwnIsReceived
  <2>3. CASE Waits /\ ~ Own(i)
    BY <1>1, <1>2, <2>3, OtherIsReceived
  <2> QED
    BY <2>1, <2>2, <2>3
<1>5. OneLeftIsHarmless'
  BY <1>1 DEF ServiceInv, OneLeftIsHarmless
<1> QED
  BY <1>3, <1>4, <1>5 DEF ServiceInv

----------------------------------------------------------------------------
(* Start and end of the process *)

LEMMA StartKeepsInv ==
  ASSUME ServiceInv, Binds \/ Serves
  PROVE  ServiceInv'
<1>1. UNCHANGED <<image, expected, inbox, reply, session, installed>>
  BY DEF Binds, Serves
<1>2. updater' \in Updaters /\ updater'.at \in {"bound", "init"}
  BY DEF Binds, Serves, ServiceInv, Shape, Updaters
<1>3. updater.at \in {"down", "expired", "bound"}
  BY Types DEF Binds, Serves, Running
<1>4. Shape'
  BY <1>1, <1>2 DEF ServiceInv, Shape
<1>5. OneAtATime'
  BY <1>1, <1>2 DEF ServiceInv, OneAtATime, UpdateIsOwn, Own, Waits
<1>6. Fate'
  <2>1. ~ Undisturbed /\ ~ Complete
    BY <1>3 DEF Undisturbed, Complete, UpdateIsOwn
  <2>2. Beginning => Beginning'
    BY <1>1 DEF Beginning
  <2>3. Disturbed => Disturbed'
    BY <1>1, <1>2 DEF Disturbed, NoneIsLeft, Own, Acks, UpdateIsOwn
  <2>4. Unanswered => Unanswered'
    BY <1>1, <1>2 DEF Unanswered, Own, UpdateIsOwn
  <2>5. OneIsLeft => OneIsLeft'
    BY <1>1 DEF OneIsLeft, Own
  <2> QED
    BY <1>1, <2>1, <2>2, <2>3, <2>4, <2>5 DEF ServiceInv, Fate, Fates, Waits
<1>7. OneLeftIsHarmless'
  BY <1>1 DEF ServiceInv, OneLeftIsHarmless
<1> QED
  BY <1>4, <1>5, <1>6, <1>7 DEF ServiceInv

LEMMA EndKeepsInv ==
  ASSUME ServiceInv,
         remote_handler_close \/ Killed \/ Stopped \/ update_watchdog_expired
  PROVE  ServiceInv'
<1>1. /\ UNCHANGED <<reply, session>> /\ installed' \in BOOLEAN
      /\ installed => installed'
  BY DEF remote_handler_close, Killed, Stopped, update_watchdog_expired, ServiceInv, Shape
<1>2. /\ updater' \in Updaters /\ updater'.at \in {"down", "expired"}
      /\ image' = <<>> /\ expected' = 0 /\ inbox' \in Undelivered
  BY DEF remote_handler_close, Killed, Stopped, update_watchdog_expired, Ends, Updaters
<1>3. /\ inbox' \in Seq(Requests)
      /\ \A k, m \in DOMAIN inbox' : k = m
      /\ \A k \in DOMAIN inbox' : \E m \in DOMAIN inbox : inbox'[k] = inbox[m] /\ Own(m)
  <2>1. inbox \in Seq(Requests)
    BY DEF ServiceInv, Shape
  <2>2. CASE inbox' = <<>>
    BY <2>2
  <2>3. CASE \E m \in DOMAIN inbox : inbox' = <<inbox[m]>> /\ Own(m)
    <3>1. PICK m \in DOMAIN inbox : inbox' = <<inbox[m]>> /\ Own(m)
      BY <2>3
    <3>2. inbox[m] \in Requests
      BY <2>1, <3>1
    <3>3. DOMAIN inbox' = {1} /\ inbox'[1] = inbox[m] /\ inbox' \in Seq(Requests)
      BY <3>1, <3>2
    <3> QED
      BY <3>1, <3>3
  <2> QED
    BY <1>2, <2>2, <2>3 DEF Undelivered, Own
<1>4. Shape'
  BY <1>1, <1>2, <1>3 DEF ServiceInv, Shape
<1>5. NoneIsLeft' /\ OneIsLeft'
  BY <1>1, <1>3 DEF NoneIsLeft, OneIsLeft, Own
<1>6. OneAtATime'
  BY <1>1, <1>2, <1>3 DEF ServiceInv, OneAtATime, UpdateIsOwn, Own, Waits
<1>7. ASSUME Waits, session.left <= 1
      PROVE  Fates'
  <2>1. Fates /\ session.size >= 1 /\ session.sent \in Nat /\ session.size \in Nat
    BY <1>7, Types DEF ServiceInv, Fate, OneAtATime
  <2>2. Acks' = Acks /\ Acks \in Nat
    BY <1>1, <2>1 DEF Acks
  <2>3. ASSUME Acks >= 1, reply.code = "ACK" => session.sent < session.size
        PROVE  Disturbed'
    BY <1>1, <1>2, <1>5, <2>2, <2>3 DEF Disturbed, UpdateIsOwn
  <2>4. CASE Beginning
    BY <1>1, <2>4 DEF Beginning, Fates
  <2>5. CASE Undisturbed
    <3>1. Len(image) = Acks - 1 /\ Len(image) < session.size /\ Len(image) \in Nat
      BY <2>5, Types DEF Undisturbed
    <3>2. Acks >= 1 /\ (reply.code = "ACK" => session.sent < session.size)
      BY <2>1, <2>2, <3>1 DEF Acks
    <3> QED
      BY <2>3, <3>2 DEF Fates
  <2>6. CASE Complete
    <3>1. reply.code = "none" /\ session.sent >= 1
      BY <1>7, <2>6 DEF Complete, ServiceInv, OneAtATime
    <3> QED
      BY <2>3, <3>1 DEF Fates, Acks
  <2>7. CASE installed
    BY <1>1, <2>7 DEF Fates
  <2>8. CASE Disturbed
    BY <2>3, <2>8 DEF Fates, Disturbed
  <2>9. CASE Unanswered
    <3>1. DOMAIN inbox' = {}
      BY <1>3, <2>9 DEF Unanswered
    <3>2. Unanswered'
      BY <1>1, <1>2, <2>9, <3>1 DEF Unanswered, UpdateIsOwn
    <3> QED
      BY <3>2 DEF Fates
  <2> QED
    BY <2>1, <2>4, <2>5, <2>6, <2>7, <2>8, <2>9 DEF Fates
<1>8. Fate'
  BY <1>1, <1>5, <1>7 DEF Fate, Waits
<1>9. OneLeftIsHarmless'
  BY <1>1 DEF ServiceInv, OneLeftIsHarmless
<1> QED
  BY <1>4, <1>6, <1>8, <1>9 DEF ServiceInv

----------------------------------------------------------------------------
(* The update *)

LEMMA InstallKeepsInv ==
  ASSUME ServiceInv, NEW confirmed \in BOOLEAN, Installs(confirmed)
  PROVE  ServiceInv'
<1> DEFINE code == IF confirmed THEN "ACK" ELSE "NACK"
<1>1. /\ updater.at = "install" /\ updater' = [at |-> "init", owes |-> 0]
      /\ image' = <<>> /\ expected' = 0
      /\ installed' = (installed \/ (confirmed /\ image = Artifact(session)))
      /\ RHmsg_send_ack(updater.owes, code)
      /\ UNCHANGED <<inbox, session>>
  BY DEF Installs
<1>2. code \in {"ACK", "NACK"} /\ (confirmed => code = "ACK") /\ (~ confirmed => code = "NACK")
  OBVIOUS
<1> HIDE DEF code
<1>3. /\ reply' \in Replies
      /\ ~ (Waits /\ updater.owes = session.id) => reply' = reply
      /\ Waits /\ updater.owes = session.id => reply'.code = code
  BY <1>1, <1>2, Answered, Types
<1>4. Shape'
  BY <1>1, <1>3 DEF ServiceInv, Shape, Updaters
<1>5. ~ UpdateIsOwn'
  BY <1>1 DEF UpdateIsOwn
<1>6. Waits => (UpdateIsOwn <=> updater.owes = session.id)
  BY <1>1 DEF UpdateIsOwn
<1>7. OneAtATime'
  BY <1>1, <1>3, <1>5, <1>6 DEF ServiceInv, OneAtATime, Own, Waits
<1>8. /\ NoneIsLeft => NoneIsLeft'
      /\ OneIsLeft => OneIsLeft'
      /\ (\A k \in DOMAIN inbox : ~ Own(k)) => \A k \in DOMAIN inbox' : ~ Own(k)'
  BY <1>1 DEF NoneIsLeft, OneIsLeft, Own
<1>9. ASSUME Waits, session.left <= 1
      PROVE  Fates'
  <2>1. Fates /\ ~ Undisturbed
    BY <1>1, <1>9 DEF ServiceInv, Fate, Undisturbed
  <2>2. CASE UpdateIsOwn
    <3>1. /\ \A k \in DOMAIN inbox : ~ Own(k)
          /\ session.sent >= 1 /\ session.sent \in Nat /\ reply'.code = code
      BY <1>3, <1>6, <1>9, <2>2, Types DEF ServiceInv, OneAtATime
    <3>2. CASE ~ confirmed
      <4>1. Unanswered'
        BY <1>2, <1>5, <1>8, <3>1, <3>2 DEF Unanswered
      <4> QED
        BY <4>1 DEF Fates
    <3>3. CASE confirmed
      <4>1. ~ Beginning /\ ~ Unanswered
        BY <2>2, <3>1 DEF Beginning, Unanswered
      <4>2. Complete => installed'
        BY <1>1, <3>3 DEF Complete
      <4>3. installed => installed'
        BY <1>1
      <4>4. Disturbed => Disturbed'
        <5>1. Acks' >= 1
          BY <1>1, <3>1 DEF Acks
        <5> QED
          BY <1>1, <1>5, <1>8, <2>2, <5>1 DEF Disturbed
      <4> QED
        BY <2>1, <4>1, <4>2, <4>3, <4>4 DEF Fates
    <3> QED
      BY <3>2, <3>3
  <2>3. CASE ~ UpdateIsOwn
    <3>1. reply' = reply
      BY <1>3, <1>6, <1>9, <2>3
    <3>2. ~ Complete /\ (installed => installed')
      BY <1>1, <2>3 DEF Complete
    <3>3. Beginning => Beginning'
      BY <1>1, <3>1 DEF Beginning
    <3>4. Disturbed => Disturbed'
      BY <1>1, <1>5, <1>8, <3>1 DEF Disturbed, Acks
    <3>5. Unanswered => Unanswered'
      BY <1>5, <1>8, <3>1 DEF Unanswered
    <3> QED
      BY <2>1, <3>2, <3>3, <3>4, <3>5 DEF Fates
  <2> QED
    BY <2>2, <2>3
<1>10. Fate'
  BY <1>1, <1>8, <1>9 DEF ServiceInv, Fate, Waits
<1>11. OneLeftIsHarmless'
  BY <1>1 DEF ServiceInv, OneLeftIsHarmless
<1> QED
  BY <1>4, <1>7, <1>10, <1>11 DEF ServiceInv

----------------------------------------------------------------------------
(* SWUpdate *)

\* A request that follows the queue.
LEMMA Sent ==
  ASSUME ServiceInv, NEW command \in {"INIT", "DATA", "LONG"}, NEW s \in Sessions,
         Sends(command, s)
  PROVE  /\ inbox' \in Seq(Requests) /\ Len(inbox) \in Nat /\ DOMAIN inbox = 1 .. Len(inbox)
         /\ \A i \in DOMAIN inbox' :
              \/ i \in DOMAIN inbox /\ inbox'[i] = inbox[i]
              \/ /\ i = Len(inbox) + 1
                 /\ inbox'[i].from = s.id /\ inbox'[i].command = command
                 /\ inbox'[i].size = s.size /\ inbox'[i].index = s.sent
<1> DEFINE request == [from |-> s.id, command |-> command, size |-> s.size, index |-> s.sent]
<1>1. inbox \in Seq(Requests) /\ inbox' = Append(inbox, request)
  BY DEF ServiceInv, Shape, Sends
<1>2. request \in Requests
  BY DEF Requests, Sessions
<1>3. /\ request.from = s.id /\ request.command = command
      /\ request.size = s.size /\ request.index = s.sent
  OBVIOUS
<1> HIDE DEF request
<1>4. /\ inbox' \in Seq(Requests) /\ Len(inbox') = Len(inbox) + 1
      /\ \A i \in 1 .. Len(inbox) : inbox'[i] = inbox[i]
      /\ inbox'[Len(inbox) + 1] = request
  BY <1>1, <1>2, AppendProperties
<1>5. DOMAIN inbox' = 1 .. Len(inbox) + 1 /\ Len(inbox) \in Nat /\ DOMAIN inbox = 1 .. Len(inbox)
  BY <1>1, <1>4
<1>6. ASSUME NEW i \in 1 .. Len(inbox) + 1
      PROVE  i = Len(inbox) + 1 \/ i \in 1 .. Len(inbox)
  BY <1>5
<1> QED
  BY <1>3, <1>4, <1>5, <1>6

LEMMA BeginKeepsInv ==
  ASSUME ServiceInv, NEW size \in 1 .. MaxChunks + 1, SessionBegins(size)
  PROVE  ServiceInv'
<1> DEFINE id == (session.id % MaxSessions) + 1
<1>1. /\ Forgotten(id)
      /\ session' = [id |-> id, size |-> size, sent |-> 0, outcome |-> "pending",
                     left |-> Len(inbox)]
      /\ installed' = FALSE
      /\ Sends("INIT", session') /\ reply' = NoReply
      /\ UNCHANGED <<updater, image, expected>>
  BY DEF SessionBegins
<1>2. id \in Nat \ {0} /\ size \in Nat /\ size >= 1
  <2>1. session.id \in Nat /\ MaxSessions \in Nat \ {0} /\ MaxChunks \in Nat
    BY ServiceBounds, Types
  <2>2. session.id % MaxSessions \in Nat
    BY <2>1
  <2> QED
    BY <2>1, <2>2
<1> HIDE DEF id
<1>3. Len(inbox) \in Nat
  BY DEF ServiceInv, Shape
<1>4. /\ session' \in Sessions /\ session'.id = id /\ session'.size = size /\ session'.sent = 0
      /\ session'.outcome = "pending" /\ session'.left = Len(inbox)
  BY <1>1, <1>2, <1>3 DEF Sessions
<1>5. /\ inbox' \in Seq(Requests) /\ DOMAIN inbox = 1 .. Len(inbox)
      /\ \A i \in DOMAIN inbox' :
           \/ i \in DOMAIN inbox /\ inbox'[i] = inbox[i]
           \/ /\ i = Len(inbox) + 1
              /\ inbox'[i].from = id /\ inbox'[i].command = "INIT"
              /\ inbox'[i].size = size /\ inbox'[i].index = 0
  BY <1>1, <1>4, Sent
<1>6. Shape'
  BY <1>1, <1>4, <1>5 DEF ServiceInv, Shape, Replies, NoReply
<1>7. \A i \in DOMAIN inbox' :
        IF i \in DOMAIN inbox THEN ~ Own(i)'
        ELSE /\ i = Len(inbox) + 1 /\ inbox'[i].command = "INIT"
             /\ inbox'[i].size = size /\ inbox'[i].index = 0
  BY <1>1, <1>4, <1>5 DEF Forgotten, Own
<1>8. ~ UpdateIsOwn' /\ reply'.code = "none"
  BY <1>1, <1>4 DEF Forgotten, UpdateIsOwn, NoReply
<1>9. OneAtATime'
  BY <1>2, <1>4, <1>7, <1>8 DEF OneAtATime
<1>10. Beginning'
  BY <1>4, <1>8 DEF Beginning
<1>11. ASSUME session'.left <= 1
       PROVE  OneIsLeft'
  <2>1. \A i \in DOMAIN inbox' : ~ Own(i)' => i \in 1 .. Len(inbox)
    BY <1>4, <1>5 DEF Own
  <2> QED
    BY <1>3, <1>4, <1>11, <2>1 DEF OneIsLeft
<1>12. Fate' /\ OneLeftIsHarmless'
  BY <1>4, <1>10, <1>11 DEF Fate, Fates, OneLeftIsHarmless
<1> QED
  BY <1>6, <1>9, <1>12 DEF ServiceInv

LEMMA GoesOnKeepsInv ==
  ASSUME ServiceInv, SessionGoesOn
  PROVE  ServiceInv'
<1>1. /\ Waits /\ reply.code = "ACK" /\ reply' = NoReply
      /\ UNCHANGED <<updater, image, expected, installed>>
  BY DEF SessionGoesOn
<1>2. /\ session \in Sessions /\ reply' \in Replies /\ reply'.code = "none"
      /\ session.sent \in Nat /\ session.size \in Nat
  BY <1>1 DEF ServiceInv, Shape, NoReply, Replies, Sessions
<1>3. /\ \A i \in DOMAIN inbox : ~ Own(i)
      /\ ~ UpdateIsOwn /\ session.size >= 1 /\ session.sent <= session.size
  BY <1>1 DEF ServiceInv, OneAtATime
<1>4. Acks = session.sent + 1 /\ ~ Beginning /\ ~ Complete /\ ~ Unanswered
  BY <1>1, <1>3 DEF Acks, Beginning, Complete, Unanswered
<1>5. session.left <= 1 => OneIsLeft /\ (Undisturbed \/ installed \/ Disturbed)
  BY <1>1, <1>4 DEF ServiceInv, Fate, Fates
<1>6. CASE session.sent = session.size
  <2>1. session' = [session EXCEPT !.outcome = "success"] /\ UNCHANGED inbox
    BY <1>6 DEF SessionGoesOn
  <2>2. session'.outcome = "success" /\ session'.left = session.left /\ session' \in Sessions
    BY <1>2, <2>1 DEF Sessions
  <2>3. Shape'
    BY <1>1, <1>2, <2>1, <2>2 DEF ServiceInv, Shape
  <2>4. ~ Undisturbed
    BY <1>2, <1>4, <1>6, Types DEF Undisturbed
  <2>5. ~ Disturbed
    BY <1>1, <1>2, <1>6 DEF Disturbed
  <2>6. OneLeftIsHarmless'
    BY <1>1, <1>5, <2>2, <2>4, <2>5 DEF OneLeftIsHarmless
  <2>7. OneAtATime' /\ Fate'
    BY <2>2 DEF OneAtATime, Fate, Waits
  <2> QED
    BY <2>3, <2>6, <2>7 DEF ServiceInv
<1>7. CASE session.sent # session.size
  <2>1. PICK command \in {"DATA", "LONG"} : Sends(command, session')
    BY <1>7 DEF SessionGoesOn
  <2>2. session' = [session EXCEPT !.sent = @ + 1]
    BY <1>7 DEF SessionGoesOn
  <2>3. /\ session' \in Sessions /\ session'.id = session.id /\ session'.size = session.size
        /\ session'.sent = session.sent + 1 /\ session'.outcome = "pending"
        /\ session'.left = session.left
    BY <1>1, <1>2, <2>2 DEF Waits, Sessions
  <2>4. /\ inbox' \in Seq(Requests)
        /\ \A i \in DOMAIN inbox' :
             \/ i \in DOMAIN inbox /\ inbox'[i] = inbox[i]
             \/ /\ i = Len(inbox) + 1
                /\ inbox'[i].from = session.id /\ inbox'[i].command = command
                /\ inbox'[i].size = session.size /\ inbox'[i].index = session.sent + 1
    BY <2>1, <2>3, Sent
  <2>5. Shape'
    BY <1>1, <1>2, <2>3, <2>4 DEF ServiceInv, Shape
  <2>6. \A i \in DOMAIN inbox' :
          \/ i \in DOMAIN inbox /\ ~ Own(i) /\ ~ Own(i)'
          \/ /\ i = Len(inbox) + 1 /\ Own(i)'
             /\ inbox'[i].command # "INIT"
             /\ inbox'[i].size = session.size /\ inbox'[i].index = session.sent + 1
    BY <1>3, <2>1, <2>3, <2>4 DEF Own
  <2>7. ~ UpdateIsOwn'
    BY <1>1, <1>3, <2>3 DEF UpdateIsOwn
  <2>8. OneAtATime'
    BY <1>2, <1>3, <1>7, <2>3, <2>6, <2>7 DEF OneAtATime
  <2>9. Acks' = Acks
    BY <1>2, <1>4, <2>3 DEF Acks
  <2>10. ASSUME session.left <= 1
         PROVE  OneIsLeft' /\ Fates'
    <3>1. OneIsLeft'
      BY <1>5, <2>6, <2>10 DEF OneIsLeft
    <3>2. Undisturbed => Undisturbed'
      BY <1>1, <2>3, <2>9 DEF Undisturbed
    <3>3. Disturbed => Disturbed'
      <4>1. NoneIsLeft => NoneIsLeft'
        BY <2>6 DEF NoneIsLeft
      <4> QED
        BY <1>1, <1>2, <2>3, <2>7, <2>9, <4>1 DEF Disturbed
    <3> QED
      BY <1>1, <1>5, <2>10, <3>1, <3>2, <3>3 DEF Fates
  <2>11. Fate' /\ OneLeftIsHarmless'
    BY <2>3, <2>10 DEF Fate, OneLeftIsHarmless
  <2> QED
    BY <2>5, <2>8, <2>11 DEF ServiceInv
<1> QED
  BY <1>6, <1>7

LEMMA FailKeepsInv ==
  ASSUME ServiceInv, SessionFails
  PROVE  ServiceInv'
<1>1. /\ session' = [session EXCEPT !.outcome = "failure"] /\ reply' = NoReply
      /\ UNCHANGED <<updater, image, expected, inbox, installed>>
  BY DEF SessionFails
<1>2. session'.outcome = "failure" /\ session' \in Sessions
  BY <1>1 DEF ServiceInv, Shape, Sessions
<1>3. Shape'
  BY <1>1, <1>2 DEF ServiceInv, Shape, NoReply, Replies
<1>4. OneAtATime' /\ Fate' /\ OneLeftIsHarmless'
  BY <1>2 DEF OneAtATime, Fate, OneLeftIsHarmless, Waits
<1> QED
  BY <1>3, <1>4 DEF ServiceInv

----------------------------------------------------------------------------
(* The theorem *)

THEOREM ServiceInvHolds == Spec => []ServiceInv
<1>1. Init => ServiceInv
  <2> SUFFICES ASSUME Init PROVE ServiceInv
    OBVIOUS
  <2>1. session.outcome = "failure" /\ updater.at = "down"
    BY DEF Init
  <2>2. Shape
    <3>1. updater \in Updaters /\ reply \in Replies /\ session \in Sessions
      BY DEF Init, Updaters, Replies, Sessions, NoReply
    <3>2. image \in Seq(Chunks) /\ inbox \in Seq(Requests)
      BY DEF Init
    <3> QED
      BY <2>1, <3>1, <3>2 DEF Init, Shape
  <2> QED
    BY <2>1, <2>2 DEF ServiceInv, OneAtATime, Fate, OneLeftIsHarmless, Waits
<1>2. ServiceInv /\ [Next]_vars => ServiceInv'
  <2> SUFFICES ASSUME ServiceInv, [Next]_vars PROVE ServiceInv'
    OBVIOUS
  <2>1. CASE UNCHANGED vars
    BY <2>1 DEF vars, ServiceInv, Shape, OneAtATime, Fate, OneLeftIsHarmless, Waits, Own,
                UpdateIsOwn, OneIsLeft, NoneIsLeft, Fates, Beginning, Undisturbed, Complete,
                Disturbed, Unanswered, Acks
  <2>2. CASE Binds \/ Serves
    BY <2>2, StartKeepsInv
  <2>3. CASE remote_handler_close \/ Killed \/ Stopped \/ update_watchdog_expired
    BY <2>3, EndKeepsInv
  <2>4. CASE remote_handler_receive
    BY <2>4, ReceiveKeepsInv
  <2>5. CASE \E confirmed \in BOOLEAN : Installs(confirmed)
    BY <2>5, InstallKeepsInv
  <2>6. CASE \E size \in 1 .. MaxChunks + 1 : SessionBegins(size)
    BY <2>6, BeginKeepsInv
  <2>7. CASE SessionGoesOn
    BY <2>7, GoesOnKeepsInv
  <2>8. CASE SessionFails
    BY <2>8, FailKeepsInv
  <2> QED
    BY <2>1, <2>2, <2>3, <2>4, <2>5, <2>6, <2>7, <2>8 DEF Next
<1> QED
  BY <1>1, <1>2, PTL DEF Spec

\* SWUpdate reports success only for an artifact that an update confirmed, whole and in order, when
\* not more than one request of the sessions that gave up was left as its session began, however
\* many blocks it has and in whatever order the requests are received.
THEOREM OneLeftDoesNoHarm == Spec => []OneLeftIsHarmless
<1>1. ServiceInv => OneLeftIsHarmless
  BY DEF ServiceInv
<1> QED
  BY <1>1, ServiceInvHolds, PTL

----------------------------------------------------------------------------
(* Refusals *)

\* No INIT was refused since the image that is under way was accepted.
RefusalInv ==
  /\ updater = [at |-> updater.at, owes |-> updater.owes]
  /\ refused \in 0 .. 1
  /\ updater.at \in {"data", "install"} => refused = 0

\* A session that was cut short costs the next one at most one refusal, in whatever order the
\* requests are received (the break after NACK in install_remote_image).
THEOREM OneRefusal == Spec => []RefusedOnce
<1>1. Init => RefusalInv
  BY DEF Init, RefusalInv
<1>2. RefusalInv /\ [Next]_vars => RefusalInv'
  <2> SUFFICES ASSUME RefusalInv, [Next]_vars PROVE RefusalInv'
    OBVIOUS
  <2>1. CASE Binds \/ Serves
    BY <2>1 DEF RefusalInv, Binds, Serves
  <2>2. CASE remote_handler_close \/ Killed \/ Stopped \/ update_watchdog_expired
    BY <2>2 DEF RefusalInv, remote_handler_close, Killed, Stopped, update_watchdog_expired, Ends
  <2>3. CASE remote_handler_receive
    <3>1. PICK i \in DOMAIN inbox :
            Unreadable(inbox[i]) \/ Accepted(inbox[i]) \/ Refused(inbox[i]) \/ Written(inbox[i])
      BY <2>3 DEF remote_handler_receive
    <3>2. CASE Unreadable(inbox[i])
      BY <3>2 DEF RefusalInv, Unreadable
    <3>3. CASE Accepted(inbox[i])
      BY <3>3 DEF RefusalInv, Accepted
    <3>4. CASE Refused(inbox[i])
      BY <3>4 DEF RefusalInv, Refused
    <3>5. CASE Written(inbox[i])
      BY <3>5 DEF RefusalInv, Written
    <3> QED
      BY <3>1, <3>2, <3>3, <3>4, <3>5
  <2>4. CASE \E confirmed \in BOOLEAN : Installs(confirmed)
    BY <2>4 DEF RefusalInv, Installs
  <2>5. CASE UNCHANGED <<updater, refused>>
    BY <2>5 DEF RefusalInv
  <2> QED
    BY <2>1, <2>2, <2>3, <2>4, <2>5 DEF Next, vars, SessionBegins, SessionGoesOn, SessionFails
<1>3. RefusalInv => RefusedOnce
  BY DEF RefusalInv, RefusedOnce
<1> QED
  BY <1>1, <1>2, <1>3, PTL DEF Spec

=============================================================================
