---------------------------- MODULE BrokerSession ----------------------------
(***************************************************************************)
(* The RabbitMQ connection with its reconnect handler (connection.go) and  *)
(* the two dead-letter migrators that run on it (app.go).                  *)
(*                                                                         *)
(* Connections are numbered in the order in which they were dialled.  mu   *)
(* is held from Dial to Register: Close and NewChannel wait for it.  A     *)
(* migrator opens one channel on the connection it finds and consumes,     *)
(* publishes and acknowledges on that channel.                             *)
(*                                                                         *)
(* Publishing and acknowledging only write a frame.  Frames of one channel *)
(* are handled in order; those the broker has not handled when it gives up *)
(* a dead connection are lost, and what was unacked on it is queued again. *)
(* The client may know that a connection is dead before the broker does.   *)
(***************************************************************************)
EXTENDS Integers, Sequences, FiniteSets

CONSTANTS
  Letter,      \* messages of the source queues: single messages or batches
  Migrator,    \* the migrator goroutines
  Lane,        \* Lane[l]: the migrator whose source queue l is in
  None,
  MaxFaults    \* bound: lost connections, failed dials, failed publishes

ASSUME SessionConstantsOK ==
  /\ IsFiniteSet(Letter) /\ Lane \in [Letter -> Migrator]
  /\ None \notin Letter
  /\ MaxFaults \in Nat

Conn   == 1 .. MaxFaults + 1
NoConn == 0

\* Where the broker has a letter of a source queue: queued, unacked on the
\* channel its migrator has on a connection, or removed.
Queued  == 0
Removed == -1

VARIABLES
  open,       \* connections whose client side is open
  conn,       \* c.conn
  dialled,    \* the newest connection
  notify,     \* c.notifyClose: "quiet", holding an "error", or "closed"
  handler,    \* where handleReconnect is
  closed,     \* c.closed
  phase,      \* phase[r]: where migrator r is
  on,         \* on[r]: the connection of r's channel
  hand,       \* hand[r]: the delivery r is handling
  frames,     \* frames[r][c]: what the broker has still to handle of r's channel on c
  holder,     \* holder[l]: Queued, Removed, or the connection it is unacked on
  copies,     \* copies[l]: how often l has arrived in its destination queue,
              \* which depends on nothing but its contents
  forgotten,  \* history: how often l was queued again because a channel died
  lateDials,  \* history: dials after Close
  ctxDone, faults

session == <<open, conn, dialled, notify, handler, closed>>
jobs    == <<phase, on, hand>>
broker  == <<frames, holder, copies, forgotten>>
vars    == <<open, conn, dialled, notify, handler, closed, phase, on, hand,
             frames, holder, copies, forgotten, lateDials, ctxDone, faults>>

HandlerState == {"waiting", "retrying", "sleeping", "dialled", "opened", "gone"}
Phase        == {"starting", "backoff", "reading", "publishing", "acking", "stopped"}
Frame        == [op : {"publish", "ack", "nack"}, letter : Letter]

TypeOK ==
  /\ open \subseteq Conn /\ conn \in Conn /\ dialled \in Conn
  /\ notify \in {"quiet", "error", "closed"}
  /\ handler \in HandlerState /\ closed \in BOOLEAN
  /\ phase \in [Migrator -> Phase] /\ on \in [Migrator -> Conn \cup {NoConn}]
  /\ hand \in [Migrator -> Letter \cup {None}]
  /\ \A r \in Migrator : hand[r] # None <=> phase[r] \in {"publishing", "acking"}
  /\ frames \in [Migrator -> [Conn -> Seq(Frame)]]
  /\ holder \in [Letter -> Conn \cup {Queued, Removed}]
  /\ copies \in [Letter -> Nat] /\ forgotten \in [Letter -> Nat]
  /\ lateDials \in Nat /\ ctxDone \in BOOLEAN /\ faults \in 0 .. MaxFaults

-----------------------------------------------------------------------------
Fault    == faults < MaxFaults /\ faults' = faults + 1
Locked   == handler \in {"dialled", "opened"}            \* connect holds c.mu
Usable(r) == on[r] \in open

\* r writes frame op about its delivery.
Write(r, op) ==
  frames' = [frames EXCEPT ![r][on[r]] = Append(@, [op |-> op, letter |-> hand[r]])]

Goto(r, p) == phase' = [phase EXCEPT ![r] = p]

LetGo(r, p) == Goto(r, p) /\ hand' = [hand EXCEPT ![r] = None]

-----------------------------------------------------------------------------
(* Faulty variants of the actions below. *)

\* The loop of handleReconnect does not look at closed again.
RetryUnchecked ==
  /\ handler = "retrying" /\ handler' = "sleeping"
  /\ UNCHANGED <<open, conn, dialled, notify, closed, jobs, broker, lateDials, ctxDone, faults>>

\* The inner loop of handleReconnect is not left after a successful connect.
RegisterLoops ==
  /\ handler = "opened"
  /\ conn' = dialled
  /\ notify' = IF dialled \in open THEN "quiet" ELSE "closed"
  /\ handler' = "retrying"
  /\ UNCHANGED <<open, dialled, closed, jobs, broker, lateDials, ctxDone, faults>>

\* A failed dial ends the handler.
DialFailsForGood ==
  /\ handler = "sleeping" /\ Fault
  /\ handler' = "gone"
  /\ UNCHANGED <<open, conn, dialled, notify, closed, jobs, broker, lateDials, ctxDone>>

\* The delivery is acknowledged whether or not it could be published.
PublishErrorAcks(r) ==
  /\ phase[r] = "publishing"
  /\ \/ ~Usable(r) /\ UNCHANGED <<frames, faults>>
     \/ Usable(r) /\ Fault /\ Write(r, "ack")
  /\ LetGo(r, "reading")
  /\ UNCHANGED <<session, on, holder, copies, forgotten, lateDials, ctxDone>>

\* The delivery is requeued after it was forwarded.
AckRequeues(r) ==
  /\ phase[r] = "acking"
  /\ IF Usable(r) THEN Write(r, "nack") ELSE UNCHANGED frames
  /\ LetGo(r, "reading")
  /\ UNCHANGED <<session, on, holder, copies, forgotten, lateDials, ctxDone, faults>>

-----------------------------------------------------------------------------
(* The connection. *)

\* NewConnection has returned and the migrators have been started.
Init ==
  /\ open = {1} /\ conn = 1 /\ dialled = 1
  /\ notify = "quiet" /\ handler = "waiting" /\ closed = FALSE
  /\ phase = [r \in Migrator |-> "starting"]
  /\ on = [r \in Migrator |-> NoConn] /\ hand = [r \in Migrator |-> None]
  /\ frames = [r \in Migrator |-> [c \in Conn |-> <<>>]]
  /\ holder = [l \in Letter |-> Queued]
  /\ copies = [l \in Letter |-> 0] /\ forgotten = [l \in Letter |-> 0]
  /\ lateDials = 0 /\ ctxDone = FALSE /\ faults = 0

\* A connection breaks.  The library tells whoever it has registered.
ConnectionLost(c) ==
  /\ c \in open /\ Fault
  /\ open' = open \ {c}
  /\ notify' = IF c = conn /\ notify = "quiet" THEN "error" ELSE notify
  /\ UNCHANGED <<conn, dialled, handler, closed, jobs, broker, lateDials, ctxDone>>

\* handleReconnect receives from notifyClose: a closed channel means a close of
\* our own making, and the handler returns.
Notified ==
  /\ handler = "waiting" /\ notify # "quiet"
  /\ handler' = IF notify = "closed" \/ closed THEN "gone" ELSE "retrying"
  /\ UNCHANGED <<open, conn, dialled, notify, closed, jobs, broker, lateDials, ctxDone, faults>>

\* The head of its inner loop; closed is read without the lock.
Retry ==
  /\ handler = "retrying"
  /\ handler' = IF closed THEN "gone" ELSE "sleeping"
  /\ UNCHANGED <<open, conn, dialled, notify, closed, jobs, broker, lateDials, ctxDone, faults>>

\* reconnectWait is over: connect locks mu, closes what is left of the old
\* connection and dials.
Dial ==
  /\ handler = "sleeping"
  /\ dialled' = dialled + 1
  /\ open' = (open \ {conn}) \cup {dialled + 1}
  /\ handler' = "dialled"
  /\ lateDials' = lateDials + IF closed THEN 1 ELSE 0
  /\ UNCHANGED <<conn, notify, closed, jobs, broker, ctxDone, faults>>

DialFails ==
  /\ handler = "sleeping" /\ Fault
  /\ open' = open \ {conn}
  /\ handler' = "retrying"
  /\ lateDials' = lateDials + IF closed THEN 1 ELSE 0
  /\ UNCHANGED <<conn, dialled, notify, closed, jobs, broker, ctxDone>>

\* conn.Channel() fails: connect closes the new connection and gives up.
ChannelFails ==
  /\ handler = "dialled"
  /\ (dialled \notin open /\ UNCHANGED faults) \/ Fault
  /\ open' = open \ {dialled}
  /\ handler' = "retrying"
  /\ UNCHANGED <<conn, dialled, notify, closed, jobs, broker, lateDials, ctxDone>>

OpenSharedChannel ==
  /\ handler = "dialled" /\ dialled \in open
  /\ handler' = "opened"
  /\ UNCHANGED <<open, conn, dialled, notify, closed, jobs, broker, lateDials, ctxDone, faults>>

\* The rest of connect: NotifyClose on a connection that is already dead closes
\* the receiver at once, as after a close of our own.  A new handler starts.
Register ==
  /\ handler = "opened"
  /\ conn' = dialled
  /\ notify' = IF dialled \in open THEN "quiet" ELSE "closed"
  /\ handler' = "waiting"
  /\ UNCHANGED <<open, dialled, closed, jobs, broker, lateDials, ctxDone, faults>>

\* Shutdown, after main has cancelled the context.
Close ==
  /\ ctxDone /\ ~closed /\ ~Locked
  /\ closed' = TRUE
  /\ open' = open \ {conn}
  /\ notify' = IF conn \in open THEN "closed" ELSE notify
  /\ UNCHANGED <<conn, dialled, handler, jobs, broker, lateDials, ctxDone, faults>>

Cancel ==
  /\ ~ctxDone /\ ctxDone' = TRUE
  /\ UNCHANGED <<session, jobs, broker, lateDials, faults>>

-----------------------------------------------------------------------------
(* The migrators. *)

\* runDLQMigratorOnce: NewChannel on whatever connection there is, the queue
\* declarations and Consume.
OpenChannel(r) ==
  /\ phase[r] = "starting" /\ ~ctxDone /\ ~Locked /\ conn \in open
  /\ Goto(r, "reading") /\ on' = [on EXCEPT ![r] = conn]
  /\ UNCHANGED <<session, hand, broker, lateDials, ctxDone, faults>>

OpenFails(r) ==
  /\ phase[r] = "starting" /\ ~ctxDone /\ ~Locked /\ conn \notin open
  /\ Goto(r, "backoff")
  /\ UNCHANGED <<session, on, hand, broker, lateDials, ctxDone, faults>>

\* The five seconds are over.
Restart(r) ==
  /\ phase[r] = "backoff" /\ Goto(r, "starting")
  /\ UNCHANGED <<session, on, hand, broker, lateDials, ctxDone, faults>>

\* A delivery; select may choose it although the context is done.
Take(r, l) ==
  /\ phase[r] = "reading" /\ Usable(r)
  /\ Lane[l] = r /\ holder[l] = Queued
  /\ holder' = [holder EXCEPT ![l] = on[r]]
  /\ hand' = [hand EXCEPT ![r] = l] /\ Goto(r, "publishing")
  /\ UNCHANGED <<session, on, frames, copies, forgotten, lateDials, ctxDone, faults>>

Publish(r) ==
  /\ phase[r] = "publishing" /\ Usable(r)
  /\ Write(r, "publish") /\ Goto(r, "acking")
  /\ UNCHANGED <<session, on, hand, holder, copies, forgotten, lateDials, ctxDone, faults>>

\* The delivery is nacked, which reaches nobody on a dead channel.
PublishError(r) ==
  /\ phase[r] = "publishing"
  /\ \/ ~Usable(r) /\ UNCHANGED <<frames, faults>>
     \/ Usable(r) /\ Fault /\ Write(r, "nack")
  /\ LetGo(r, "reading")
  /\ UNCHANGED <<session, on, holder, copies, forgotten, lateDials, ctxDone>>

Ack(r) ==
  /\ phase[r] = "acking"
  /\ IF Usable(r) THEN Write(r, "ack") ELSE UNCHANGED frames
  /\ LetGo(r, "reading")
  /\ UNCHANGED <<session, on, holder, copies, forgotten, lateDials, ctxDone, faults>>

\* msgs is closed: an error, and a restart unless the context is done.
ChannelClosed(r) ==
  /\ phase[r] = "reading" /\ ~Usable(r)
  /\ Goto(r, IF ctxDone THEN "stopped" ELSE "backoff")
  /\ UNCHANGED <<session, on, hand, broker, lateDials, ctxDone, faults>>

\* The context is done: the deferred ch.Close runs and the goroutine ends.
Stop(r) ==
  /\ ctxDone /\ phase[r] \in {"starting", "backoff", "reading"}
  /\ Goto(r, "stopped")
  /\ UNCHANGED <<session, on, hand, broker, lateDials, ctxDone, faults>>

-----------------------------------------------------------------------------
(* The broker. *)

Handle(r, c) ==
  LET f == Head(frames[r][c])
      l == f.letter
  IN  /\ frames[r][c] # <<>>
      /\ frames' = [frames EXCEPT ![r][c] = Tail(@)]
      /\ copies' = IF f.op = "publish" THEN [copies EXCEPT ![l] = @ + 1] ELSE copies
      /\ holder' = CASE f.op = "ack"     -> [holder EXCEPT ![l] = Removed]
                     [] f.op = "nack"    -> [holder EXCEPT ![l] = Queued]
                     [] f.op = "publish" -> holder
      /\ UNCHANGED <<session, jobs, forgotten, lateDials, ctxDone, faults>>

\* A channel ends: frames on a dead connection are lost, a channel that was
\* closed properly has none left.  Its unacked letters are queued again.
Forget(r, c) ==
  LET unacked == {l \in Letter : Lane[l] = r /\ holder[l] = c}
  IN  /\ c \notin open \/ (frames[r][c] = <<>> /\ phase[r] = "stopped")
      /\ frames[r][c] # <<>> \/ unacked # {}
      /\ frames' = [frames EXCEPT ![r][c] = <<>>]
      /\ holder' = [l \in Letter |-> IF l \in unacked THEN Queued ELSE holder[l]]
      /\ forgotten' = [l \in Letter |-> forgotten[l] + IF l \in unacked THEN 1 ELSE 0]
      /\ UNCHANGED <<session, jobs, copies, lateDials, ctxDone, faults>>

Reconnect == Notified \/ Retry \/ Dial \/ DialFails \/ ChannelFails
             \/ OpenSharedChannel \/ Register
Migrate(r) == \/ OpenChannel(r) \/ OpenFails(r) \/ Restart(r)
              \/ \E l \in Letter : Take(r, l)
              \/ Publish(r) \/ PublishError(r) \/ Ack(r) \/ ChannelClosed(r)

Next ==
  \/ \E c \in Conn : ConnectionLost(c)
  \/ Reconnect
  \/ Close \/ Cancel
  \/ \E r \in Migrator : Migrate(r) \/ Stop(r)
  \/ \E r \in Migrator, c \in Conn : Handle(r, c) \/ Forget(r, c)

\* Goroutines go on, sleeps end, the broker handles what it has received and
\* notices dead connections.  Faults and signals are never forced.
Fairness ==
  /\ WF_vars(Reconnect)
  /\ \A r \in Migrator : /\ WF_vars(Migrate(r)) /\ WF_vars(Stop(r))
                         /\ \A c \in Conn : WF_vars(Handle(r, c) \/ Forget(r, c))

Safety == Init /\ [][Next]_vars
Spec   == Safety /\ Fairness

-----------------------------------------------------------------------------
(* Properties *)

\* A letter leaves a dead-letter queue only when it has arrived somewhere else
\* (publish before ack, on one channel, app.go), whatever frames a lost
\* connection takes with it and however often the broker delivers it again.
LettersKept == \A l \in Letter : holder[l] = Removed => copies[l] >= 1

\* A second copy in the destination needs a channel that died between publish
\* and ack: neither a failed publish nor a restart of the migrator makes one.
CopiesArePaid == \A l \in Letter : copies[l] <= 1 + forgotten[l]

\* connection.go:52 "so we don't leak TCP sockets": failed connects, reconnects
\* and Close never leave two connections open, and a handler that slept through
\* Close dials once more at most.
OneConnection == Cardinality(open) <= 1 /\ lateDials <= 1

\* NotifyClose came after the connection had died: the new handler takes that for
\* a close of our own and returns, and nobody reconnects any more.
Orphaned == notify = "closed" /\ ~closed

\* The dead-letter queues drain: through failed dials, reconnects and restarts of
\* the migrator every letter is moved, or there is a shutdown, or the connection
\* died in the window before NotifyClose and the reconnect handler is gone.
LettersMoved ==
  \A l \in Letter : TRUE ~> holder[l] = Removed \/ ctxDone \/ Orphaned
=============================================================================
