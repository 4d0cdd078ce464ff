------------------------- MODULE BrokerSessionProofs -------------------------
(* Proofs about BrokerSession for every set of letters and migrators and     *)
(* every number of faults.                                                   *)
EXTENDS BrokerSession, FiniteSetTheorems, TLAPS

\* Connections are used in the order in which they were dialled, and each dial
\* after the first is paid for by a fault: the one that ended the connection
\* before, or that made the dial before fail.
DialsPaid ==
  /\ open \subseteq 1 .. dialled /\ conn <= dialled
  /\ \A r \in Migrator : on[r] <= dialled
  /\ dialled <= faults + 1
  /\ \/ handler \in {"retrying", "sleeping"}
     \/ handler = "waiting" /\ notify = "error"
     \/ Locked /\ dialled \notin open
     => dialled <= faults

\* One of the first n frames of s publishes l.
Sends(s, n, l) == \E j \in 1 .. n : s[j] = [op |-> "publish", letter |-> l]

\* What an acknowledgement relies on, in a sequence of frames: its letter has
\* arrived (as arrived counts), or the frame that sends it is further ahead.
Backed(s, arrived) ==
  \A i \in 1 .. Len(s) : s[i].op = "ack" =>
    arrived[s[i].letter] >= 1 \/ Sends(s, i - 1, s[i].letter)

FramesBacked == \A r \in Migrator, c \in Conn : Backed(frames[r][c], copies)

\* The same of a migrator that is about to acknowledge on a live channel.
HandsBacked ==
  \A r \in Migrator : phase[r] = "acking" /\ on[r] \in open =>
    copies[hand[r]] >= 1 \/ Sends(frames[r][on[r]], Len(frames[r][on[r]]), hand[r])

SessionInv == TypeOK /\ DialsPaid /\ FramesBacked /\ HandsBacked /\ LettersKept

\* Whatever is open is the connection connect is working on, or else c.conn; and
\* only a handler that slept through Close has a dial left after it.
SingleConn ==
  /\ open \subseteq {IF Locked THEN dialled ELSE conn}
  /\ lateDials <= 1
  /\ ~closed \/ handler = "sleeping" => lateDials = 0

\* Two frames about one letter on one channel are its publish and its ack.
Ordered(s) ==
  \A i, j \in 1 .. Len(s) : i < j /\ s[i].letter = s[j].letter =>
    s[i].op = "publish" /\ s[j].op = "ack"

FramesOrdered == \A r \in Migrator, c \in Conn : Ordered(frames[r][c])

\* Frames are about letters that are unacked on the channel they came by.
FramesPlaced ==
  \A r \in Migrator, c \in Conn : \A i \in 1 .. Len(frames[r][c]) :
    Lane[frames[r][c][i].letter] = r /\ holder[frames[r][c][i].letter] = c

\* So is the delivery a migrator is handling while its channel lives, and before
\* its publish the broker has received nothing about it.
HandsPlaced ==
  \A r \in Migrator : hand[r] # None =>
    /\ Lane[hand[r]] = r
    /\ Usable(r) =>
         /\ holder[hand[r]] = on[r]
         /\ \A i \in 1 .. Len(frames[r][on[r]]) : frames[r][on[r]][i].letter = hand[r] =>
              phase[r] = "acking" /\ frames[r][on[r]][i].op = "publish"

\* A copy of l may still come without another channel dying: l is queued, about to
\* be published, or one of its frames will publish or requeue it.
Owed(l) ==
  \/ holder[l] = Queued
  \/ hand[Lane[l]] = l /\ phase[Lane[l]] = "publishing" /\ Usable(Lane[l])
  \/ \E c \in Conn : \E i \in 1 .. Len(frames[Lane[l]][c]) :
       /\ frames[Lane[l]][c][i].letter = l
       /\ frames[Lane[l]][c][i].op \in {"publish", "nack"}

CopiesPaid ==
  \A l \in Letter : copies[l] + (IF Owed(l) THEN 1 ELSE 0) <= 1 + forgotten[l]

CopiesInv == FramesOrdered /\ FramesPlaced /\ HandsPlaced /\ CopiesPaid

-----------------------------------------------------------------------------
\* Appending a frame.
LEMMA AppendFrame ==
  ASSUME NEW s \in Seq(Frame), NEW f \in Frame
  PROVE  /\ Append(s, f) \in Seq(Frame) /\ Len(Append(s, f)) = Len(s) + 1
         /\ \A i \in 1 .. Len(s) : Append(s, f)[i] = s[i]
         /\ Append(s, f)[Len(s) + 1] = f
OBVIOUS

\* Taking off the first frame.
LEMMA TailFrame ==
  ASSUME NEW s \in Seq(Frame), s # <<>>
  PROVE  /\ Tail(s) \in Seq(Frame) /\ Len(Tail(s)) = Len(s) - 1 /\ Len(s) \in Nat \ {0}
         /\ \A i \in 1 .. Len(s) - 1 : Tail(s)[i] = s[i + 1]
         /\ Head(s) = s[1] /\ s[1] \in Frame
OBVIOUS

\* What a frame is about.
LEMMA FrameLetter ==
  ASSUME NEW s \in Seq(Frame), NEW i \in 1 .. Len(s)
  PROVE  s[i].letter \in Letter
<1>1. s[i] \in Frame
  OBVIOUS
<1>2. QED
  BY <1>1 DEF Frame

\* NewConnection leaves nothing to acknowledge.
LEMMA InitInv == Init => SessionInv
<1> SUFFICES ASSUME Init PROVE SessionInv
  OBVIOUS
<1> USE SessionConstantsOK DEF SessionConstantsOK, Init, Conn
<1>1. TypeOK
  <2>1. /\ open \subseteq Conn /\ conn \in Conn /\ dialled \in Conn
        /\ faults \in 0 .. MaxFaults /\ lateDials \in Nat
    OBVIOUS
  <2>2. /\ notify \in {"quiet", "error", "closed"} /\ handler \in HandlerState
        /\ closed \in BOOLEAN /\ ctxDone \in BOOLEAN
    BY DEF HandlerState
  <2>3. /\ phase \in [Migrator -> Phase] /\ on \in [Migrator -> Conn \cup {NoConn}]
        /\ hand \in [Migrator -> Letter \cup {None}]
        /\ \A r \in Migrator : hand[r] # None <=> phase[r] \in {"publishing", "acking"}
    BY DEF Phase
  <2>4. frames \in [Migrator -> [Conn -> Seq(Frame)]]
    <3>1. <<>> \in Seq(Frame)
      OBVIOUS
    <3>2. QED
      BY <3>1
  <2>5. /\ holder \in [Letter -> Conn \cup {Queued, Removed}]
        /\ copies \in [Letter -> Nat] /\ forgotten \in [Letter -> Nat]
    OBVIOUS
  <2>6. QED
    BY <2>1, <2>2, <2>3, <2>4, <2>5 DEF TypeOK
<1>2. DialsPaid
  BY DEF DialsPaid, Locked, NoConn
<1>3. FramesBacked
  BY DEF FramesBacked, Backed
<1>4. HandsBacked
  BY DEF HandsBacked
<1>5. LettersKept
  BY DEF LettersKept, Queued, Removed
<1>6. QED
  BY <1>1, <1>2, <1>3, <1>4, <1>5 DEF SessionInv

-----------------------------------------------------------------------------
(* The connection: no step of it touches a migrator or the broker. *)

\* A step of the connection revives no channel, and so takes no backing away.
LEMMA SessionKeepsBacking ==
  ASSUME SessionInv, UNCHANGED <<jobs, broker>>,
         open' \subseteq open \cup {dialled + 1}
  PROVE  FramesBacked' /\ HandsBacked' /\ LettersKept'
<1> USE DEF SessionInv, jobs, broker
<1>1. FramesBacked'
  BY DEF FramesBacked, Backed, Sends
<1>2. HandsBacked'
  <2>1. \A r \in Migrator : on[r] <= dialled /\ on[r] \in Int /\ dialled \in Int
    BY SessionConstantsOK DEF DialsPaid, TypeOK, Conn, NoConn, SessionConstantsOK
  <2>2. \A r \in Migrator : on[r] \in open' => on[r] \in open
    BY <2>1
  <2>3. QED
    BY <2>2 DEF HandsBacked, Sends
<1>3. LettersKept'
  BY DEF LettersKept
<1>4. QED
  BY <1>1, <1>2, <1>3

\* The types of what the connection leaves alone.
LEMMA SessionKeepsTypes ==
  ASSUME TypeOK, UNCHANGED <<jobs, broker>>,
         (/\ open \subseteq Conn /\ conn \in Conn /\ dialled \in Conn
          /\ notify \in {"quiet", "error", "closed"}
          /\ handler \in HandlerState /\ closed \in BOOLEAN
          /\ lateDials \in Nat /\ ctxDone \in BOOLEAN /\ faults \in 0 .. MaxFaults)'
  PROVE  TypeOK'
BY DEF TypeOK, jobs, broker

\* Losing, dialling, registering and closing connections keep the invariant.
LEMMA SessionStep ==
  ASSUME SessionInv,
         (\E c \in Conn : ConnectionLost(c)) \/ Reconnect \/ Close \/ Cancel
  PROVE  SessionInv'
<1> DEFINE Typed == /\ open \subseteq Conn /\ conn \in Conn /\ dialled \in Conn
                    /\ notify \in {"quiet", "error", "closed"}
                    /\ handler \in HandlerState /\ closed \in BOOLEAN
                    /\ lateDials \in Nat /\ ctxDone \in BOOLEAN
                    /\ faults \in 0 .. MaxFaults
           Good == /\ UNCHANGED <<jobs, broker>>
                   /\ open' \subseteq open \cup {dialled + 1}
                   /\ Typed' /\ DialsPaid'
<1>1. Typed /\ DialsPaid /\ on \in [Migrator -> Conn \cup {NoConn}] /\ MaxFaults \in Nat
  BY SessionConstantsOK DEF SessionInv, TypeOK, SessionConstantsOK
<1> USE <1>1 DEF Conn, NoConn, HandlerState, DialsPaid, Locked, jobs, broker
<1>2. ASSUME NEW c \in Conn, ConnectionLost(c) PROVE Good
  BY <1>2 DEF ConnectionLost, Fault
<1>3. ASSUME Notified PROVE Good
  BY <1>3 DEF Notified
<1>4. ASSUME Retry PROVE Good
  BY <1>4 DEF Retry
<1>5. ASSUME Dial PROVE Good
  <2>1. dialled <= faults /\ dialled + 1 \in Conn
    BY <1>5 DEF Dial
  <2>2. QED
    BY <1>5, <2>1 DEF Dial
<1>6. ASSUME DialFails PROVE Good
  BY <1>6 DEF DialFails, Fault
<1>7. ASSUME ChannelFails PROVE Good
  BY <1>7 DEF ChannelFails, Fault
<1>8. ASSUME OpenSharedChannel PROVE Good
  BY <1>8 DEF OpenSharedChannel
<1>9. ASSUME Register PROVE Good
  BY <1>9 DEF Register
<1>10. ASSUME Close PROVE Good
  BY <1>10 DEF Close
<1>11. ASSUME Cancel PROVE Good
  BY <1>11 DEF Cancel, session
<1>12. Good
  BY <1>2, <1>3, <1>4, <1>5, <1>6, <1>7, <1>8, <1>9, <1>10, <1>11 DEF Reconnect
<1>13. TypeOK'
  BY <1>12, SessionKeepsTypes DEF SessionInv
<1>14. QED
  BY <1>12, <1>13, SessionKeepsBacking DEF SessionInv

-----------------------------------------------------------------------------
(* The migrators: one channel, on which the publish goes ahead of the ack. *)

\* A frame written on a live channel: an ack of a letter in hand is backed, and
\* what was sent stays sent.
LEMMA WriteStep ==
  ASSUME SessionInv, NEW r \in Migrator, NEW op \in {"publish", "ack", "nack"},
         Usable(r), hand[r] \in Letter, Write(r, op), UNCHANGED copies,
         op = "ack" => phase[r] = "acking"
  PROVE  /\ frames' \in [Migrator -> [Conn -> Seq(Frame)]]
         /\ FramesBacked'
         /\ \A q \in Migrator, c \in Conn, l \in Letter :
              Sends(frames[q][c], Len(frames[q][c]), l)
                => Sends(frames'[q][c], Len(frames'[q][c]), l)
         /\ op = "publish" => Sends(frames'[r][on[r]], Len(frames'[r][on[r]]), hand[r])
<1> DEFINE s == frames[r][on[r]]
           f == [op |-> op, letter |-> hand[r]]
           t == Append(s, f)
<1>1. on[r] \in Conn /\ frames \in [Migrator -> [Conn -> Seq(Frame)]]
  BY DEF Usable, SessionInv, TypeOK
<1>2. s \in Seq(Frame) /\ Len(s) \in Nat
  BY <1>1
<1>3. f \in Frame /\ f.op = op /\ f.letter = hand[r]
  BY DEF Frame
<1>4. /\ t \in Seq(Frame) /\ Len(t) = Len(s) + 1
      /\ \A i \in 1 .. Len(s) : t[i] = s[i]
      /\ t[Len(s) + 1] = f
  BY <1>2, <1>3, AppendFrame
<1> HIDE DEF f, t
<1>5. frames' = [frames EXCEPT ![r][on[r]] = t]
  BY DEF Write, t, f
<1>6. /\ frames' \in [Migrator -> [Conn -> Seq(Frame)]]
      /\ frames'[r][on[r]] = t
      /\ \A q \in Migrator, c \in Conn : q # r \/ c # on[r] => frames'[q][c] = frames[q][c]
  BY <1>1, <1>4, <1>5
<1>7. \A l \in Letter, n \in 0 .. Len(s) : Sends(s, n, l) => Sends(t, n, l)
  BY <1>2, <1>4 DEF Sends
<1>8. \A l \in Letter : Sends(s, Len(s), l) => Sends(t, Len(t), l)
  BY <1>2, <1>4 DEF Sends
<1>9. Backed(t, copies)
  <2>1. Backed(s, copies)
    BY <1>1 DEF SessionInv, FramesBacked
  <2>2. SUFFICES ASSUME NEW i \in 1 .. Len(s) + 1, t[i].op = "ack"
                 PROVE  copies[t[i].letter] >= 1 \/ Sends(t, i - 1, t[i].letter)
    BY <1>4 DEF Backed
  <2>3. CASE i \in 1 .. Len(s)
    <3>1. s[i] \in Frame /\ t[i] = s[i]
      BY <1>2, <1>4, <2>3
    <3>2. QED
      BY <1>2, <1>7, <2>1, <2>2, <2>3, <3>1 DEF Backed, Frame
  <2>4. CASE i = Len(s) + 1
    <3>1. t[i] = f /\ op = "ack" /\ phase[r] = "acking"
      BY <1>3, <1>4, <2>2, <2>4
    <3>2. copies[hand[r]] >= 1 \/ Sends(s, Len(s), hand[r])
      BY <3>1 DEF SessionInv, HandsBacked, Usable
    <3>3. QED
      BY <1>2, <1>3, <1>7, <2>4, <3>1, <3>2
  <2>5. QED
    BY <1>2, <2>3, <2>4
<1>10. FramesBacked'
  <2>1. SUFFICES ASSUME NEW q \in Migrator, NEW c \in Conn
                 PROVE  Backed(frames'[q][c], copies)
    BY DEF FramesBacked
  <2>2. Backed(frames[q][c], copies)
    BY DEF SessionInv, FramesBacked
  <2>3. QED
    BY <1>6, <1>9, <2>2
<1>11. op = "publish" => Sends(t, Len(t), hand[r])
  BY <1>2, <1>4 DEF Sends, f
<1>12. QED
  BY <1>6, <1>8, <1>10, <1>11

\* More faults pay for no fewer dials.
LEMMA LaterFaults ==
  \A d, m, n \in Int : m <= n => (d <= m + 1 => d <= n + 1) /\ (d <= m => d <= n)
OBVIOUS

\* What a step of migrator r has to keep.
LEMMA MigratorKeeps ==
  ASSUME SessionInv, NEW r \in Migrator,
         UNCHANGED <<session, copies, forgotten, lateDials, ctxDone>>,
         faults' \in faults .. MaxFaults,
         phase' \in [Migrator -> Phase], hand' \in [Migrator -> Letter \cup {None}],
         on' \in [Migrator -> Conn \cup {NoConn}], on'[r] \in {on[r], conn},
         \A q \in Migrator \ {r} :
           phase'[q] = phase[q] /\ hand'[q] = hand[q] /\ on'[q] = on[q],
         hand'[r] # None <=> phase'[r] \in {"publishing", "acking"},
         frames' \in [Migrator -> [Conn -> Seq(Frame)]], FramesBacked',
         \A q \in Migrator, c \in Conn, l \in Letter :
           Sends(frames[q][c], Len(frames[q][c]), l)
             => Sends(frames'[q][c], Len(frames'[q][c]), l),
         holder' \in [Letter -> Conn \cup {Queued, Removed}],
         \A l \in Letter : holder'[l] = Removed => holder[l] = Removed,
         phase'[r] = "acking" /\ on'[r] \in open =>
           Sends(frames'[r][on'[r]], Len(frames'[r][on'[r]]), hand'[r])
  PROVE  SessionInv'
<1> USE DEF session
<1>1. TypeOK /\ DialsPaid /\ HandsBacked /\ LettersKept /\ MaxFaults \in Nat
  BY SessionConstantsOK DEF SessionInv, SessionConstantsOK
<1>2. TypeOK'
  <2>1. faults' \in 0 .. MaxFaults
    BY <1>1 DEF TypeOK
  <2>2. \A q \in Migrator : hand'[q] # None <=> phase'[q] \in {"publishing", "acking"}
    BY <1>1 DEF TypeOK
  <2>3. QED
    BY <1>1, <2>1, <2>2 DEF TypeOK
<1>3. DialsPaid'
  <2>1. faults \in Int /\ faults' \in Int /\ faults <= faults' /\ dialled \in Int
    BY <1>1 DEF TypeOK, Conn
  <2>2. \A q \in Migrator : on'[q] <= dialled
    BY <1>1 DEF DialsPaid
  <2>3. dialled <= faults + 1
    BY <1>1, Zenon DEF DialsPaid
  <2>4. dialled <= faults' + 1 /\ (dialled <= faults => dialled <= faults')
    BY <2>1, <2>3, LaterFaults, Zenon
  <2>5. UNCHANGED <<open, conn, dialled, handler, notify>>
    OBVIOUS
  <2>6. QED
    BY <1>1, <2>2, <2>4, <2>5 DEF DialsPaid, Locked
<1>4. HandsBacked'
  <2>1. SUFFICES ASSUME NEW q \in Migrator, phase'[q] = "acking", on'[q] \in open
                 PROVE  copies[hand'[q]] >= 1
                        \/ Sends(frames'[q][on'[q]], Len(frames'[q][on'[q]]), hand'[q])
    BY DEF HandsBacked
  <2>2. CASE q = r
    BY <2>1, <2>2
  <2>3. CASE q # r
    <3>1. phase[q] = "acking" /\ on[q] \in open /\ on'[q] = on[q] /\ hand'[q] = hand[q]
      BY <2>1, <2>3
    <3>2. hand[q] \in Letter /\ on[q] \in Conn
      BY <1>1, <3>1 DEF TypeOK
    <3>3. copies[hand[q]] >= 1 \/ Sends(frames[q][on[q]], Len(frames[q][on[q]]), hand[q])
      BY <1>1, <3>1 DEF HandsBacked
    <3>4. QED
      BY <3>1, <3>2, <3>3
  <2>4. QED
    BY <2>2, <2>3
<1>5. LettersKept'
  BY <1>1 DEF LettersKept
<1>6. QED
  BY <1>2, <1>3, <1>4, <1>5 DEF SessionInv

\* Every step of a migrator keeps the invariant.
LEMMA MigratorStep ==
  ASSUME SessionInv, NEW r \in Migrator, Migrate(r) \/ Stop(r)
  PROVE  SessionInv'
<1>1. /\ phase \in [Migrator -> Phase] /\ hand \in [Migrator -> Letter \cup {None}]
      /\ on \in [Migrator -> Conn \cup {NoConn}] /\ conn \in Conn /\ open \subseteq Conn
      /\ hand[r] # None <=> phase[r] \in {"publishing", "acking"}
      /\ frames \in [Migrator -> [Conn -> Seq(Frame)]]
      /\ holder \in [Letter -> Conn \cup {Queued, Removed}]
      /\ faults \in 0 .. MaxFaults /\ MaxFaults \in Nat /\ None \notin Letter
      /\ FramesBacked
  BY SessionConstantsOK DEF SessionInv, TypeOK, SessionConstantsOK
<1>2. faults \in faults .. MaxFaults /\ (Fault => faults' \in faults .. MaxFaults)
  BY <1>1 DEF Fault
<1>3. UNCHANGED <<frames, copies>> => FramesBacked'
  BY <1>1 DEF FramesBacked
<1>4. ASSUME NEW p \in {"starting", "backoff", "stopped", "reading"}, Goto(r, p),
             phase[r] \in {"starting", "backoff", "reading"},
             on' \in [Migrator -> Conn \cup {NoConn}], on'[r] \in {on[r], conn},
             \A q \in Migrator \ {r} : on'[q] = on[q],
             UNCHANGED <<session, hand, broker, lateDials, ctxDone, faults>>
      PROVE  SessionInv'
  <2>1. /\ phase' \in [Migrator -> Phase] /\ phase'[r] = p
        /\ \A q \in Migrator \ {r} : phase'[q] = phase[q]
    BY <1>1, <1>4 DEF Goto, Phase
  <2>2. hand'[r] # None <=> phase'[r] \in {"publishing", "acking"}
    BY <1>1, <1>4, <2>1
  <2>3. QED
    BY <1>1, <1>2, <1>3, <1>4, <2>1, <2>2, MigratorKeeps DEF broker
<1>5. CASE OpenChannel(r)
  <2>1. on' \in [Migrator -> Conn \cup {NoConn}] /\ on'[r] = conn
        /\ \A q \in Migrator \ {r} : on'[q] = on[q]
    BY <1>1, <1>5 DEF OpenChannel
  <2>2. QED
    BY <1>4, <1>5, <2>1 DEF OpenChannel
<1>6. CASE OpenFails(r)
  BY <1>1, <1>4, <1>6 DEF OpenFails
<1>7. CASE Restart(r)
  BY <1>1, <1>4, <1>7 DEF Restart
<1>8. CASE ChannelClosed(r)
  BY <1>1, <1>4, <1>8 DEF ChannelClosed
<1>9. CASE Stop(r)
  BY <1>1, <1>4, <1>9 DEF Stop
<1>10. ASSUME NEW l \in Letter, Take(r, l) PROVE SessionInv'
  <2>1. on[r] \in Conn
    BY <1>1, <1>10 DEF Take, Usable
  <2>2. /\ holder' \in [Letter -> Conn \cup {Queued, Removed}]
        /\ \A k \in Letter : holder'[k] = Removed => holder[k] = Removed
    <3>1. on[r] # Removed
      BY <2>1, <1>1 DEF Conn, Removed
    <3>2. QED
      BY <1>1, <1>10, <2>1, <3>1 DEF Take
  <2>3. /\ phase' \in [Migrator -> Phase] /\ hand' \in [Migrator -> Letter \cup {None}]
        /\ phase'[r] = "publishing" /\ hand'[r] # None
        /\ \A q \in Migrator \ {r} : phase'[q] = phase[q] /\ hand'[q] = hand[q]
    BY <1>1, <1>10 DEF Take, Goto, Phase
  <2>4. QED
    BY <1>1, <1>2, <1>3, <1>10, <2>2, <2>3, MigratorKeeps DEF Take
<1>11. CASE Publish(r)
  <2>1. hand[r] \in Letter /\ Usable(r) /\ Write(r, "publish")
    BY <1>1, <1>11 DEF Publish
  <2>2. /\ phase' \in [Migrator -> Phase] /\ phase'[r] = "acking"
        /\ \A q \in Migrator \ {r} : phase'[q] = phase[q]
    BY <1>1, <1>11 DEF Publish, Goto, Phase
  <2>3. /\ UNCHANGED <<session, on, hand, holder, copies, forgotten, lateDials, ctxDone, faults>>
        /\ hand'[r] # None
    BY <1>1, <1>11, <2>1 DEF Publish
  <2>4. /\ frames' \in [Migrator -> [Conn -> Seq(Frame)]] /\ FramesBacked'
        /\ \A q \in Migrator, c \in Conn, l \in Letter :
             Sends(frames[q][c], Len(frames[q][c]), l)
               => Sends(frames'[q][c], Len(frames'[q][c]), l)
        /\ Sends(frames'[r][on[r]], Len(frames'[r][on[r]]), hand[r])
    BY <2>1, <2>3, WriteStep
  <2>5. QED
    BY <1>1, <1>2, <2>2, <2>3, <2>4, MigratorKeeps
<1>12. ASSUME NEW op \in {"ack", "nack"}, LetGo(r, "reading"),
              phase[r] \in {"publishing", "acking"}, op = "ack" => phase[r] = "acking",
              UNCHANGED frames \/ (Usable(r) /\ Write(r, op)),
              UNCHANGED <<session, on, holder, copies, forgotten, lateDials, ctxDone>>,
              faults' \in faults .. MaxFaults
       PROVE  SessionInv'
  <2>1. hand[r] \in Letter
    BY <1>1, <1>12
  <2>2. /\ phase' \in [Migrator -> Phase] /\ hand' \in [Migrator -> Letter \cup {None}]
        /\ phase'[r] = "reading" /\ hand'[r] = None
        /\ \A q \in Migrator \ {r} : phase'[q] = phase[q] /\ hand'[q] = hand[q]
    BY <1>1, <1>12 DEF LetGo, Goto, Phase
  <2>3. /\ frames' \in [Migrator -> [Conn -> Seq(Frame)]] /\ FramesBacked'
        /\ \A q \in Migrator, c \in Conn, l \in Letter :
             Sends(frames[q][c], Len(frames[q][c]), l)
               => Sends(frames'[q][c], Len(frames'[q][c]), l)
    <3>1. CASE UNCHANGED frames
      BY <1>1, <1>3, <1>12, <3>1
    <3>2. CASE Usable(r) /\ Write(r, op)
      BY <1>12, <2>1, <3>2, WriteStep
    <3>3. QED
      BY <1>12, <3>1, <3>2
  <2>4. QED
    BY <1>1, <1>12, <2>2, <2>3, MigratorKeeps
<1>13. CASE PublishError(r)
  BY <1>2, <1>12, <1>13 DEF PublishError
<1>14. CASE Ack(r)
  BY <1>2, <1>12, <1>14 DEF Ack
<1>15. QED
  BY <1>5, <1>6, <1>7, <1>8, <1>9, <1>10, <1>11, <1>13, <1>14 DEF Migrate

-----------------------------------------------------------------------------
(* The broker: frames are handled in order, or lost together. *)

\* Handling the first frame of a channel: an ack that comes first has its copy,
\* and a publish becomes a copy before anything behind it is handled.
LEMMA HandleStep ==
  ASSUME SessionInv, NEW r \in Migrator, NEW c \in Conn, Handle(r, c)
  PROVE  SessionInv'
<1> DEFINE s == frames[r][c]
           f == Head(s)
           m == f.letter
<1>1. TypeOK /\ DialsPaid /\ FramesBacked /\ HandsBacked /\ LettersKept
  BY DEF SessionInv
<1>2. frames \in [Migrator -> [Conn -> Seq(Frame)]] /\ s \in Seq(Frame) /\ s # <<>>
  BY <1>1 DEF TypeOK, Handle
<1>3. /\ Tail(s) \in Seq(Frame) /\ Len(Tail(s)) = Len(s) - 1 /\ Len(s) \in Nat \ {0}
      /\ \A i \in 1 .. Len(s) - 1 : Tail(s)[i] = s[i + 1]
      /\ f = s[1] /\ s[1] \in Frame
  BY <1>2, TailFrame
<1>4. f.op \in {"publish", "ack", "nack"} /\ m \in Letter
      /\ f = [op |-> f.op, letter |-> m]
  BY <1>3 DEF Frame
<1>5. /\ frames' = [frames EXCEPT ![r][c] = Tail(@)]
      /\ copies' = IF f.op = "publish" THEN [copies EXCEPT ![m] = @ + 1] ELSE copies
      /\ holder' = CASE f.op = "ack"     -> [holder EXCEPT ![m] = Removed]
                     [] f.op = "nack"    -> [holder EXCEPT ![m] = Queued]
                     [] f.op = "publish" -> holder
      /\ UNCHANGED <<session, jobs, forgotten, lateDials, ctxDone, faults>>
  BY DEF Handle
<1> HIDE DEF f, m
<1>6. /\ frames' \in [Migrator -> [Conn -> Seq(Frame)]] /\ frames'[r][c] = Tail(s)
      /\ \A q \in Migrator, d \in Conn : q # r \/ d # c => frames'[q][d] = frames[q][d]
  BY <1>2, <1>3, <1>5
<1>7. copies \in [Letter -> Nat] /\ holder \in [Letter -> Conn \cup {Queued, Removed}]
  BY <1>1 DEF TypeOK
<1>8. /\ copies' \in [Letter -> Nat]
      /\ \A l \in Letter : copies[l] >= 1 => copies'[l] >= 1
      /\ f.op = "publish" => copies'[m] >= 1
  BY <1>4, <1>5, <1>7
<1>9. /\ holder' \in [Letter -> Conn \cup {Queued, Removed}]
      /\ \A l \in Letter : holder'[l] = Removed =>
           holder[l] = Removed \/ (l = m /\ f.op = "ack")
  <2>1. CASE f.op = "ack"
    BY <1>4, <1>5, <1>7, <2>1
  <2>2. CASE f.op = "nack"
    BY <1>4, <1>5, <1>7, <2>2 DEF Queued, Removed
  <2>3. CASE f.op = "publish"
    BY <1>5, <1>7, <2>3
  <2>4. QED
    BY <1>4, <2>1, <2>2, <2>3
<1>10. ASSUME NEW n \in 1 .. Len(s), NEW l \in Letter, Sends(s, n, l)
       PROVE  copies'[l] >= 1 \/ Sends(Tail(s), n - 1, l)
  <2>1. PICK j \in 1 .. n : s[j] = [op |-> "publish", letter |-> l]
    BY <1>10 DEF Sends
  <2>2. CASE j = 1
    <3>1. f.op = "publish" /\ m = l
      BY <1>3, <2>1, <2>2 DEF m
    <3>2. QED
      BY <1>8, <3>1
  <2>3. CASE j # 1
    <3>1. j - 1 \in 1 .. Len(s) - 1 /\ j - 1 \in 1 .. n - 1 /\ (j - 1) + 1 = j
      BY <1>3, <2>1, <2>3
    <3>2. Tail(s)[j - 1] = s[j]
      BY <1>3, <3>1
    <3>3. QED
      BY <2>1, <3>1, <3>2 DEF Sends
  <2>4. QED
    BY <2>2, <2>3
<1>11. Backed(s, copies)
  BY <1>1 DEF FramesBacked
<1>12. Backed(Tail(s), copies')
  <2>1. SUFFICES ASSUME NEW i \in 1 .. Len(s) - 1, s[i + 1].op = "ack"
                 PROVE  copies'[s[i + 1].letter] >= 1
                        \/ Sends(Tail(s), i - 1, s[i + 1].letter)
    BY <1>3 DEF Backed
  <2>2. i + 1 \in 1 .. Len(s) /\ i \in 1 .. Len(s) /\ (i + 1) - 1 = i
    BY <1>3
  <2>3. s[i + 1].letter \in Letter
    BY <1>2, <2>2, FrameLetter
  <2>4. copies[s[i + 1].letter] >= 1 \/ Sends(s, i, s[i + 1].letter)
    BY <1>11, <2>1, <2>2 DEF Backed
  <2>5. QED
    BY <1>8, <1>10, <2>2, <2>3, <2>4
<1>13. FramesBacked'
  <2>1. SUFFICES ASSUME NEW q \in Migrator, NEW d \in Conn
                 PROVE  Backed(frames'[q][d], copies')
    BY DEF FramesBacked
  <2>2. CASE q = r /\ d = c
    BY <1>6, <1>12, <2>2
  <2>3. CASE q # r \/ d # c
    <3>1. frames'[q][d] = frames[q][d] /\ Backed(frames[q][d], copies)
          /\ frames[q][d] \in Seq(Frame)
      BY <1>1, <1>2, <1>6, <2>3 DEF FramesBacked
    <3>2. \A i \in 1 .. Len(frames[q][d]) : frames[q][d][i].letter \in Letter
      BY <3>1, FrameLetter
    <3>3. QED
      BY <1>8, <3>1, <3>2 DEF Backed
  <2>4. QED
    BY <2>2, <2>3
<1>14. HandsBacked'
  <2>1. SUFFICES ASSUME NEW q \in Migrator, phase[q] = "acking", on[q] \in open
                 PROVE  copies'[hand[q]] >= 1
                        \/ Sends(frames'[q][on[q]], Len(frames'[q][on[q]]), hand[q])
    BY <1>5 DEF HandsBacked, jobs, session
  <2>2. hand[q] \in Letter /\ on[q] \in Conn
    BY <1>1, <2>1 DEF TypeOK
  <2>3. copies[hand[q]] >= 1 \/ Sends(frames[q][on[q]], Len(frames[q][on[q]]), hand[q])
    BY <1>1, <2>1 DEF HandsBacked
  <2>4. CASE q = r /\ on[q] = c
    <3>1. Len(s) \in 1 .. Len(s)
      BY <1>3
    <3>2. copies[hand[q]] >= 1 \/ Sends(s, Len(s), hand[q])
      BY <2>3, <2>4
    <3>3. copies'[hand[q]] >= 1 \/ Sends(Tail(s), Len(s) - 1, hand[q])
      BY <1>8, <1>10, <2>2, <3>1, <3>2
    <3>4. frames'[q][on[q]] = Tail(s)
      BY <1>6, <2>4
    <3>5. QED
      BY <1>3, <3>3, <3>4
  <2>5. CASE q # r \/ on[q] # c
    BY <1>6, <1>8, <2>2, <2>3, <2>5
  <2>6. QED
    BY <2>4, <2>5
<1>15. LettersKept'
  <2>1. f.op = "ack" => copies[m] >= 1
    <3>1. ~Sends(s, 1 - 1, s[1].letter)
      BY DEF Sends
    <3>2. 1 \in 1 .. Len(s)
      BY <1>3
    <3>3. QED
      BY <1>3, <1>11, <3>1, <3>2 DEF Backed, m
  <2>2. QED
    BY <1>1, <1>4, <1>8, <1>9, <2>1 DEF LettersKept
<1>16. TypeOK'
  BY <1>1, <1>5, <1>6, <1>8, <1>9 DEF TypeOK, session, jobs
<1>17. DialsPaid'
  BY <1>1, <1>5 DEF DialsPaid, Locked, session, jobs
<1>18. QED
  BY <1>13, <1>14, <1>15, <1>16, <1>17 DEF SessionInv

\* Giving up a channel: its frames are lost only when no migrator can write on it
\* any more, and nothing is removed.
LEMMA ForgetStep ==
  ASSUME SessionInv, NEW r \in Migrator, NEW c \in Conn, Forget(r, c)
  PROVE  SessionInv'
<1> DEFINE unacked == {l \in Letter : Lane[l] = r /\ holder[l] = c}
<1>1. TypeOK /\ DialsPaid /\ FramesBacked /\ HandsBacked /\ LettersKept
  BY DEF SessionInv
<1>2. /\ c \notin open \/ phase[r] = "stopped"
      /\ frames' = [frames EXCEPT ![r][c] = <<>>]
      /\ holder' = [l \in Letter |-> IF l \in unacked THEN Queued ELSE holder[l]]
      /\ forgotten' = [l \in Letter |-> forgotten[l] + IF l \in unacked THEN 1 ELSE 0]
      /\ UNCHANGED <<session, jobs, copies, lateDials, ctxDone, faults>>
  BY DEF Forget
<1> HIDE DEF unacked
<1>3. /\ frames \in [Migrator -> [Conn -> Seq(Frame)]]
      /\ holder \in [Letter -> Conn \cup {Queued, Removed}]
      /\ forgotten \in [Letter -> Nat] /\ <<>> \in Seq(Frame)
  BY <1>1 DEF TypeOK
<1>4. /\ frames' \in [Migrator -> [Conn -> Seq(Frame)]] /\ frames'[r][c] = <<>>
      /\ \A q \in Migrator, d \in Conn : q # r \/ d # c => frames'[q][d] = frames[q][d]
  BY <1>2, <1>3
<1>5. /\ holder' \in [Letter -> Conn \cup {Queued, Removed}]
      /\ \A l \in Letter : holder'[l] = Removed => holder[l] = Removed
  BY <1>2, <1>3 DEF Queued, Removed
<1>6. forgotten' \in [Letter -> Nat]
  BY <1>2, <1>3
<1>7. FramesBacked'
  <2>1. SUFFICES ASSUME NEW q \in Migrator, NEW d \in Conn
                 PROVE  Backed(frames'[q][d], copies)
    BY <1>2 DEF FramesBacked
  <2>2. Backed(<<>>, copies)
    BY DEF Backed
  <2>3. QED
    BY <1>1, <1>4, <2>2 DEF FramesBacked
<1>8. HandsBacked'
  <2>1. SUFFICES ASSUME NEW q \in Migrator, phase[q] = "acking", on[q] \in open
                 PROVE  copies[hand[q]] >= 1
                        \/ Sends(frames'[q][on[q]], Len(frames'[q][on[q]]), hand[q])
    BY <1>2 DEF HandsBacked, jobs, session
  <2>2. on[q] \in Conn /\ (q # r \/ on[q] # c)
    BY <1>1, <1>2, <2>1 DEF TypeOK
  <2>3. QED
    BY <1>1, <1>4, <2>1, <2>2 DEF HandsBacked
<1>9. LettersKept'
  BY <1>1, <1>2, <1>5 DEF LettersKept
<1>10. TypeOK'
  BY <1>1, <1>2, <1>4, <1>5, <1>6 DEF TypeOK, session, jobs
<1>11. DialsPaid'
  BY <1>1, <1>2 DEF DialsPaid, Locked, session, jobs
<1>12. QED
  BY <1>7, <1>8, <1>9, <1>10, <1>11 DEF SessionInv

-----------------------------------------------------------------------------
\* The invariant holds throughout: handlers, migrators and broker in any order,
\* with any number of lost connections, failed dials and failed publishes.
THEOREM SessionInvariant == Safety => []SessionInv
<1>1. ASSUME SessionInv, [Next]_vars PROVE SessionInv'
  <2>1. CASE Next
    BY <1>1, <2>1, SessionStep, MigratorStep, HandleStep, ForgetStep DEF Next
  <2>2. CASE UNCHANGED vars
    BY <1>1, <2>2 DEF vars, SessionInv, TypeOK, DialsPaid, Locked, FramesBacked,
       HandsBacked, LettersKept
  <2>3. QED
    BY <1>1, <2>1, <2>2
<1>2. QED
  BY <1>1, InitInv, PTL DEF Safety

\* The variables of the session and the migrators keep their types; in particular
\* handleReconnect never gets more connections than were lost or given up before,
\* and one (dialled \in Conn).
THEOREM SessionTypes == Safety => []TypeOK
<1>1. SessionInv => TypeOK
  BY DEF SessionInv
<1>2. QED
  BY <1>1, SessionInvariant, PTL

\* The migrators lose no dead letter: what has left a dead-letter queue has
\* arrived in its destination (publish before ack on one channel, app.go).
THEOREM DeadLettersKept == Safety => []LettersKept
<1>1. SessionInv => LettersKept
  BY DEF SessionInv
<1>2. QED
  BY <1>1, SessionInvariant, PTL

-----------------------------------------------------------------------------
(* One connection at a time. *)

\* connect closes what is left of c.conn before it dials, and closes what it dialled
\* when it gives up; closed is read again before each sleep.
LEMMA SingleConnStep == TypeOK /\ SingleConn /\ [Next]_vars => SingleConn'
<1> SUFFICES ASSUME TypeOK, SingleConn, [Next]_vars PROVE SingleConn'
  OBVIOUS
<1>1. lateDials \in Nat /\ dialled \in Int /\ conn \in Int
  BY SessionConstantsOK DEF TypeOK, Conn, SessionConstantsOK
<1> USE <1>1 DEF SingleConn, Locked
<1>2. ASSUME NEW c \in Conn, ConnectionLost(c) PROVE SingleConn'
  BY <1>2 DEF ConnectionLost
<1>3. ASSUME Notified \/ Retry PROVE SingleConn'
  BY <1>3 DEF Notified, Retry
<1>4. CASE Dial
  BY <1>4 DEF Dial
<1>5. CASE DialFails
  BY <1>5 DEF DialFails
<1>6. CASE ChannelFails
  BY <1>6 DEF ChannelFails
<1>7. CASE OpenSharedChannel
  BY <1>7 DEF OpenSharedChannel
<1>8. CASE Register
  BY <1>8 DEF Register
<1>9. CASE Close
  BY <1>9 DEF Close
<1>10. ASSUME UNCHANGED <<session, lateDials>> PROVE SingleConn'
  BY <1>10 DEF session
<1>11. ASSUME NEW r \in Migrator, Migrate(r) \/ Stop(r) PROVE SingleConn'
  BY <1>10, <1>11 DEF Migrate, OpenChannel, OpenFails, Restart, Take, Publish, PublishError,
     Ack, ChannelClosed, Stop
<1>12. ASSUME NEW r \in Migrator, NEW c \in Conn, Handle(r, c) \/ Forget(r, c)
       PROVE  SingleConn'
  BY <1>10, <1>12 DEF Handle, Forget
<1>13. CASE Cancel \/ UNCHANGED vars
  BY <1>10, <1>13 DEF Cancel, vars, session
<1>14. QED
  BY <1>2, <1>3, <1>4, <1>5, <1>6, <1>7, <1>8, <1>9, <1>11, <1>12, <1>13
  DEF Next, Reconnect

\* Failed connects, reconnects and Close never leave two connections open, and at
\* most one dial comes after Close (connection.go).
THEOREM ConnectionsDoNotLeak == Safety => []OneConnection
<1>1. Init => SingleConn
  BY DEF Init, SingleConn, Locked
<1>2. SingleConn => OneConnection
  <2>1. SUFFICES ASSUME SingleConn PROVE OneConnection
    OBVIOUS
  <2>2. PICK c : open \subseteq {c}
    BY <2>1 DEF SingleConn
  <2>3. IsFiniteSet({c}) /\ Cardinality({c}) = 1
    BY FS_Singleton
  <2>4. Cardinality(open) <= 1
    BY <2>2, <2>3, FS_Subset
  <2>5. QED
    BY <2>1, <2>4 DEF SingleConn, OneConnection
<1>3. QED
  BY <1>1, <1>2, SingleConnStep, SessionTypes, PTL DEF Safety

-----------------------------------------------------------------------------
(* Copies.  While a letter is unacked on a channel, the frames about it on *)
(* that channel are its publish, its publish and its ack, or its nack; the *)
(* broker makes one copy of it there at most before it is removed, queued  *)
(* again by the nack, or queued again because the channel died.            *)

\* No copy is made and no letter comes to be owed one.
LEMMA OwedStep ==
  ASSUME TypeOK, CopiesPaid, UNCHANGED <<copies, forgotten>>,
         \A l \in Letter : Owed(l)' => Owed(l)
  PROVE  CopiesPaid'
<1>1. \A l \in Letter : copies[l] \in Nat /\ forgotten[l] \in Nat
  BY DEF TypeOK
<1>2. QED
  BY <1>1 DEF CopiesPaid

\* No step of the connection revives a channel.
LEMMA ChannelsStayDead ==
  ASSUME SessionInv, (\E c \in Conn : ConnectionLost(c)) \/ Reconnect \/ Close \/ Cancel
  PROVE  /\ UNCHANGED <<jobs, broker>>
         /\ \A r \in Migrator : Usable(r)' => Usable(r)
<1>1. UNCHANGED <<jobs, broker>> /\ open' \subseteq open \cup {dialled + 1}
  BY DEF Reconnect, ConnectionLost, Notified, Retry, Dial, DialFails, ChannelFails,
     OpenSharedChannel, Register, Close, Cancel, session
<1>2. \A r \in Migrator : on[r] <= dialled /\ on[r] \in Int /\ dialled \in Int
  BY SessionConstantsOK DEF SessionInv, DialsPaid, TypeOK, Conn, NoConn, SessionConstantsOK
<1>3. QED
  BY <1>1, <1>2 DEF Usable, jobs

\* Connections come and go without a frame or a letter changing.
LEMMA SessionCopies ==
  ASSUME SessionInv, CopiesInv,
         (\E c \in Conn : ConnectionLost(c)) \/ Reconnect \/ Close \/ Cancel
  PROVE  CopiesInv'
<1>1. /\ UNCHANGED <<phase, on, hand, frames, holder, copies, forgotten>>
      /\ \A r \in Migrator : Usable(r)' => Usable(r)
  BY ChannelsStayDead DEF jobs, broker
<1>2. FramesOrdered' /\ FramesPlaced'
  BY <1>1 DEF CopiesInv, FramesOrdered, Ordered, FramesPlaced
<1>3. HandsPlaced'
  BY <1>1 DEF CopiesInv, HandsPlaced
<1>4. \A l \in Letter : Lane[l] \in Migrator
  BY SessionConstantsOK DEF SessionConstantsOK
<1>5. \A l \in Letter : Owed(l)' => Owed(l)
  BY <1>1, <1>4 DEF Owed
<1>6. CopiesPaid'
  BY <1>1, <1>5, OwedStep DEF SessionInv, CopiesInv
<1>7. QED
  BY <1>2, <1>3, <1>6 DEF CopiesInv

\* A migrator starts, stops, opens a channel or waits, with no delivery in hand.
LEMMA IdleCopies ==
  ASSUME SessionInv, CopiesInv, NEW r \in Migrator, hand[r] = None,
         phase'[r] # "publishing",
         \A q \in Migrator \ {r} : phase'[q] = phase[q] /\ on'[q] = on[q],
         UNCHANGED <<session, hand, broker>>
  PROVE  CopiesInv'
<1>1. /\ UNCHANGED <<open, hand, frames, holder, copies, forgotten>>
      /\ None \notin Letter /\ Lane \in [Letter -> Migrator]
  BY SessionConstantsOK DEF session, broker, SessionConstantsOK
<1>2. FramesOrdered' /\ FramesPlaced'
  BY <1>1 DEF CopiesInv, FramesOrdered, Ordered, FramesPlaced
<1>3. HandsPlaced'
  <2>1. \A q \in Migrator : hand[q] # None => q # r
    OBVIOUS
  <2>2. QED
    BY <1>1, <2>1 DEF CopiesInv, HandsPlaced, Usable
<1>4. \A l \in Letter : Owed(l)' => Owed(l)
  BY <1>1 DEF Owed, Usable
<1>5. CopiesPaid'
  BY <1>1, <1>4, OwedStep DEF SessionInv, CopiesInv
<1>6. QED
  BY <1>2, <1>3, <1>5 DEF CopiesInv

\* A frame about the delivery in hand, written on a live channel: it is the first
\* about its letter, or the ack behind the publish.
LEMMA WriteOrdered ==
  ASSUME SessionInv, CopiesInv, NEW r \in Migrator, NEW op \in {"publish", "ack", "nack"},
         Usable(r), hand[r] \in Letter, Write(r, op), UNCHANGED holder,
         phase[r] = "acking" => op = "ack"
  PROVE  /\ FramesOrdered' /\ FramesPlaced'
         /\ \A q \in Migrator \ {r}, c \in Conn : frames'[q][c] = frames[q][c]
         /\ \A c \in Conn : \A i \in 1 .. Len(frames'[r][c]) :
              \/ i \in 1 .. Len(frames[r][c]) /\ frames'[r][c][i] = frames[r][c][i]
              \/ c = on[r] /\ frames'[r][c][i] = [op |-> op, letter |-> hand[r]]
<1> DEFINE s == frames[r][on[r]]
           f == [op |-> op, letter |-> hand[r]]
           t == Append(s, f)
<1>1. on[r] \in Conn /\ frames \in [Migrator -> [Conn -> Seq(Frame)]] /\ None \notin Letter
  BY SessionConstantsOK DEF Usable, SessionInv, TypeOK, SessionConstantsOK
<1>2. s \in Seq(Frame) /\ Len(s) \in Nat
  BY <1>1
<1>3. f \in Frame /\ f.op = op /\ f.letter = hand[r]
  BY DEF Frame
<1>4. /\ t \in Seq(Frame) /\ Len(t) = Len(s) + 1
      /\ \A i \in 1 .. Len(s) : t[i] = s[i]
      /\ t[Len(s) + 1] = f
  BY <1>2, <1>3, AppendFrame
<1>5. /\ Lane[hand[r]] = r /\ holder[hand[r]] = on[r]
      /\ \A i \in 1 .. Len(s) : s[i].letter = hand[r] =>
           phase[r] = "acking" /\ s[i].op = "publish"
  BY <1>1 DEF CopiesInv, HandsPlaced
<1> HIDE DEF f, t
<1>6. frames' = [frames EXCEPT ![r][on[r]] = t]
  BY DEF Write, t, f
<1>7. /\ frames'[r][on[r]] = t
      /\ \A q \in Migrator, c \in Conn : q # r \/ c # on[r] => frames'[q][c] = frames[q][c]
  BY <1>1, <1>4, <1>6
<1>8. Ordered(s)
  BY <1>1 DEF CopiesInv, FramesOrdered
<1>9. Ordered(t)
  <2>1. SUFFICES ASSUME NEW i \in 1 .. Len(s) + 1, NEW j \in 1 .. Len(s) + 1,
                        i < j, t[i].letter = t[j].letter
                 PROVE  t[i].op = "publish" /\ t[j].op = "ack"
    BY <1>4 DEF Ordered
  <2>2. i \in 1 .. Len(s) /\ t[i] = s[i]
    BY <1>2, <1>4, <2>1
  <2>3. CASE j \in 1 .. Len(s)
    BY <1>4, <1>8, <2>1, <2>2, <2>3 DEF Ordered
  <2>4. CASE j = Len(s) + 1
    <3>1. t[j] = f /\ s[i].letter = hand[r]
      BY <1>3, <1>4, <2>1, <2>2, <2>4
    <3>2. QED
      BY <1>3, <1>5, <2>2, <3>1
  <2>5. QED
    BY <1>2, <2>3, <2>4
<1>10. FramesOrdered'
  <2>1. SUFFICES ASSUME NEW q \in Migrator, NEW c \in Conn PROVE Ordered(frames'[q][c])
    BY DEF FramesOrdered
  <2>2. Ordered(frames[q][c])
    BY DEF CopiesInv, FramesOrdered
  <2>3. QED
    BY <1>7, <1>9, <2>2
<1>11. \A i \in 1 .. Len(t) : t[i] = f \/ (i \in 1 .. Len(s) /\ t[i] = s[i])
  BY <1>2, <1>4
<1>12. FramesPlaced'
  <2>1. SUFFICES ASSUME NEW q \in Migrator, NEW c \in Conn, NEW i \in 1 .. Len(frames'[q][c])
                 PROVE  /\ Lane[frames'[q][c][i].letter] = q
                        /\ holder[frames'[q][c][i].letter] = c
    BY DEF FramesPlaced
  <2>2. CASE q = r /\ c = on[r]
    BY <1>3, <1>5, <1>7, <1>11, <2>1, <2>2 DEF CopiesInv, FramesPlaced
  <2>3. CASE q # r \/ c # on[r]
    BY <1>7, <2>1, <2>3 DEF CopiesInv, FramesPlaced
  <2>4. QED
    BY <2>2, <2>3
<1>13. QED
  BY <1>1, <1>7, <1>10, <1>11, <1>12 DEF f

\* Every step of a migrator.
LEMMA MigratorCopies ==
  ASSUME SessionInv, CopiesInv, NEW r \in Migrator, Migrate(r) \/ Stop(r)
  PROVE  CopiesInv'
<1>1. /\ phase \in [Migrator -> Phase] /\ hand \in [Migrator -> Letter \cup {None}]
      /\ on \in [Migrator -> Conn \cup {NoConn}]
      /\ hand[r] # None <=> phase[r] \in {"publishing", "acking"}
      /\ frames \in [Migrator -> [Conn -> Seq(Frame)]]
      /\ holder \in [Letter -> Conn \cup {Queued, Removed}]
      /\ None \notin Letter /\ Lane \in [Letter -> Migrator]
  BY SessionConstantsOK DEF SessionInv, TypeOK, SessionConstantsOK
<1>2. FramesOrdered /\ FramesPlaced /\ HandsPlaced /\ CopiesPaid /\ TypeOK
  BY DEF CopiesInv, SessionInv
<1>3. CASE OpenChannel(r) \/ OpenFails(r) \/ Restart(r) \/ ChannelClosed(r) \/ Stop(r)
  <2>1. phase[r] \in {"starting", "backoff", "reading"}
    BY <1>3 DEF OpenChannel, OpenFails, Restart, ChannelClosed, Stop
  <2>2. /\ phase'[r] # "publishing" /\ \A q \in Migrator \ {r} : phase'[q] = phase[q]
        /\ \A q \in Migrator \ {r} : on'[q] = on[q]
    BY <1>1, <1>3 DEF OpenChannel, OpenFails, Restart, ChannelClosed, Stop, Goto
  <2>3. UNCHANGED <<session, hand, broker>>
    BY <1>3 DEF OpenChannel, OpenFails, Restart, ChannelClosed, Stop
  <2>4. QED
    BY <1>1, <2>1, <2>2, <2>3, IdleCopies
<1>4. ASSUME NEW l \in Letter, Take(r, l) PROVE CopiesInv'
  <2>1. /\ phase[r] = "reading" /\ on[r] \in open /\ on[r] \in Conn /\ Lane[l] = r
        /\ holder[l] = Queued /\ Queued \notin Conn
        /\ UNCHANGED <<open, on, frames, copies, forgotten>>
    <3>1. Queued \notin Conn
      BY SessionConstantsOK DEF SessionConstantsOK, Conn, Queued
    <3>2. open \subseteq Conn
      BY <1>2 DEF TypeOK
    <3>3. QED
      BY <1>4, <3>1, <3>2 DEF Take, Usable, session
  <2>2. /\ holder'[l] = on[r] /\ \A k \in Letter \ {l} : holder'[k] = holder[k]
        /\ hand'[r] = l /\ phase'[r] = "publishing"
        /\ \A q \in Migrator \ {r} : hand'[q] = hand[q] /\ phase'[q] = phase[q]
    BY <1>1, <1>4 DEF Take, Goto
  <2>3. \A q \in Migrator, c \in Conn : \A i \in 1 .. Len(frames[q][c]) :
          frames[q][c][i].letter # l /\ frames[q][c][i].letter \in Letter
    <3>1. \A q \in Migrator, c \in Conn : frames[q][c] \in Seq(Frame)
      BY <1>1
    <3>2. QED
      BY <1>2, <2>1, <3>1, FrameLetter DEF FramesPlaced
  <2>4. FramesOrdered'
    BY <1>2, <2>1 DEF FramesOrdered, Ordered
  <2>5. FramesPlaced'
    BY <1>2, <2>1, <2>2, <2>3 DEF FramesPlaced
  <2>6. HandsPlaced'
    <3>1. SUFFICES ASSUME NEW q \in Migrator, hand'[q] # None
                   PROVE  /\ Lane[hand'[q]] = q
                          /\ on[q] \in open =>
                               /\ holder'[hand'[q]] = on[q]
                               /\ \A i \in 1 .. Len(frames[q][on[q]]) :
                                    frames[q][on[q]][i].letter = hand'[q] =>
                                      phase'[q] = "acking" /\ frames[q][on[q]][i].op = "publish"
      BY <2>1 DEF HandsPlaced, Usable
    <3>2. CASE q = r
      BY <2>1, <2>2, <2>3, <3>2
    <3>3. CASE q # r
      <4>1. hand'[q] = hand[q] /\ phase'[q] = phase[q] /\ hand[q] \in Letter /\ Lane[hand[q]] = q
        BY <1>1, <1>2, <2>2, <3>1, <3>3 DEF HandsPlaced
      <4>2. hand[q] # l
        BY <2>1, <3>3, <4>1
      <4>3. QED
        BY <1>2, <2>2, <3>1, <4>1, <4>2 DEF HandsPlaced, Usable
    <3>4. QED
      BY <3>2, <3>3
  <2>7. \A k \in Letter : Owed(k)' => Owed(k)
    <3>1. SUFFICES ASSUME NEW k \in Letter, Owed(k)' PROVE Owed(k)
      OBVIOUS
    <3>2. CASE k = l
      BY <2>1, <3>2 DEF Owed
    <3>3. CASE k # l
      <4>1. holder'[k] = holder[k] /\ (hand'[Lane[k]] = k => Lane[k] # r)
        BY <1>1, <2>2, <3>3
      <4>2. QED
        BY <1>1, <2>1, <2>2, <3>1, <4>1 DEF Owed, Usable
    <3>4. QED
      BY <3>2, <3>3
  <2>8. CopiesPaid'
    BY <1>2, <2>1, <2>7, OwedStep
  <2>9. QED
    BY <2>4, <2>5, <2>6, <2>8 DEF CopiesInv
<1>5. ASSUME NEW op \in {"publish", "ack", "nack"},
             UNCHANGED <<session, on, holder, copies, forgotten>>,
             phase[r] \in {"publishing", "acking"},
             phase[r] = "acking" <=> op = "ack",
             UNCHANGED frames \/ (Usable(r) /\ Write(r, op)),
             \A q \in Migrator \ {r} : hand'[q] = hand[q] /\ phase'[q] = phase[q],
             \/ hand'[r] = None
             \/ /\ hand'[r] = hand[r] /\ phase'[r] = "acking" /\ op = "publish"
                /\ Usable(r) /\ Write(r, op)
      PROVE  CopiesInv'
  <2> DEFINE f == [op |-> op, letter |-> hand[r]]
  <2>1. /\ hand[r] \in Letter /\ open' = open
        /\ \A c \in Conn : frames[r][c] \in Seq(Frame)
        /\ f.op = op /\ f.letter = hand[r] /\ Lane[hand[r]] = r
    BY <1>1, <1>2, <1>5 DEF session, HandsPlaced
  <2>2. /\ FramesOrdered' /\ FramesPlaced'
        /\ \A q \in Migrator \ {r}, c \in Conn : frames'[q][c] = frames[q][c]
        /\ \A c \in Conn : \A i \in 1 .. Len(frames'[r][c]) :
             \/ i \in 1 .. Len(frames[r][c]) /\ frames'[r][c][i] = frames[r][c][i]
             \/ Usable(r) /\ c = on[r] /\ frames'[r][c][i] = f
    <3>1. CASE UNCHANGED frames
      BY <1>2, <1>5, <3>1 DEF FramesOrdered, Ordered, FramesPlaced
    <3>2. CASE Usable(r) /\ Write(r, op)
      BY <1>5, <2>1, <3>2, WriteOrdered
    <3>3. QED
      BY <1>5, <3>1, <3>2
  <2> HIDE DEF f
  <2>3. HandsPlaced'
    <3>1. SUFFICES ASSUME NEW q \in Migrator, hand'[q] # None
                   PROVE  /\ Lane[hand'[q]] = q
                          /\ on[q] \in open =>
                               /\ holder[hand'[q]] = on[q]
                               /\ \A i \in 1 .. Len(frames'[q][on[q]]) :
                                    frames'[q][on[q]][i].letter = hand'[q] =>
                                      phase'[q] = "acking" /\ frames'[q][on[q]][i].op = "publish"
      BY <1>5, <2>1 DEF HandsPlaced, Usable
    <3>2. on[q] \in open => on[q] \in Conn
      BY <1>2 DEF TypeOK
    <3>3. CASE q = r
      <4>1. hand'[r] = hand[r] /\ phase'[r] = "acking" /\ op = "publish" /\ phase[r] = "publishing"
        BY <1>5, <3>1, <3>3
      <4>2. QED
        BY <1>2, <2>1, <2>2, <3>1, <3>2, <3>3, <4>1 DEF HandsPlaced, Usable
    <3>4. CASE q # r
      BY <1>2, <1>5, <2>2, <3>1, <3>2, <3>4 DEF HandsPlaced, Usable
    <3>5. QED
      BY <3>3, <3>4
  <2>4. \A k \in Letter : Owed(k)' => Owed(k)
    <3>1. SUFFICES ASSUME NEW k \in Letter, Owed(k)' PROVE Owed(k)
      OBVIOUS
    <3>2. Lane[k] \in Migrator
      BY <1>1
    <3>3. CASE holder'[k] = Queued
      BY <1>5, <3>3 DEF Owed
    <3>4. CASE hand'[Lane[k]] = k /\ phase'[Lane[k]] = "publishing" /\ Usable(Lane[k])'
      <4>1. Lane[k] # r
        BY <1>1, <1>5, <3>4
      <4>2. QED
        BY <1>5, <2>1, <3>2, <3>4, <4>1 DEF Owed, Usable
    <3>5. ASSUME NEW c \in Conn, NEW i \in 1 .. Len(frames'[Lane[k]][c]),
                 frames'[Lane[k]][c][i].letter = k,
                 frames'[Lane[k]][c][i].op \in {"publish", "nack"}
          PROVE  Owed(k)
      <4>1. CASE Lane[k] # r
        BY <2>2, <3>2, <3>5, <4>1 DEF Owed
      <4>2. CASE Lane[k] = r
        <5>1. CASE i \in 1 .. Len(frames[r][c]) /\ frames'[r][c][i] = frames[r][c][i]
          BY <3>5, <4>2, <5>1 DEF Owed
        <5>2. CASE Usable(r) /\ c = on[r] /\ frames'[r][c][i] = f
          <6>1. k = hand[r] /\ phase[r] = "publishing"
            BY <1>5, <2>1, <3>5, <4>2, <5>2
          <6>2. QED
            BY <4>2, <5>2, <6>1 DEF Owed
        <5>3. QED
          BY <2>2, <3>5, <4>2, <5>1, <5>2
      <4>3. QED
        BY <4>1, <4>2
    <3>6. QED
      BY <3>1, <3>3, <3>4, <3>5 DEF Owed
  <2>5. CopiesPaid'
    BY <1>2, <1>5, <2>4, OwedStep
  <2>6. QED
    BY <2>2, <2>3, <2>5 DEF CopiesInv
<1>6. CASE Publish(r)
  <2>1. /\ phase'[r] = "acking" /\ hand' = hand
        /\ \A q \in Migrator \ {r} : phase'[q] = phase[q]
    BY <1>1, <1>6 DEF Publish, Goto
  <2>2. QED
    BY <1>5, <1>6, <2>1 DEF Publish
<1>7. ASSUME LetGo(r, "reading")
      PROVE  /\ hand'[r] = None
             /\ \A q \in Migrator \ {r} : hand'[q] = hand[q] /\ phase'[q] = phase[q]
  BY <1>1, <1>7 DEF LetGo, Goto
<1>8. CASE PublishError(r)
  BY <1>5, <1>7, <1>8 DEF PublishError
<1>9. CASE Ack(r)
  BY <1>5, <1>7, <1>9 DEF Ack
<1>10. QED
  BY <1>3, <1>4, <1>6, <1>8, <1>9 DEF Migrate

\* Handling the first frame of a channel: a publish is the only one of its letter
\* that copies, and nothing about the letter is behind an ack or a nack.
LEMMA HandleCopies ==
  ASSUME SessionInv, CopiesInv, NEW r \in Migrator, NEW c \in Conn, Handle(r, c)
  PROVE  CopiesInv'
<1> DEFINE s == frames[r][c]
           f == Head(s)
<1>1. FramesOrdered /\ FramesPlaced /\ HandsPlaced /\ CopiesPaid /\ TypeOK
  BY DEF CopiesInv, SessionInv
<1>2. frames \in [Migrator -> [Conn -> Seq(Frame)]] /\ s \in Seq(Frame) /\ s # <<>>
  BY <1>1 DEF TypeOK, Handle
<1>3. /\ Len(Tail(s)) = Len(s) - 1 /\ Len(s) \in Nat \ {0}
      /\ \A i \in 1 .. Len(s) - 1 : Tail(s)[i] = s[i + 1]
      /\ f = s[1] /\ s[1] \in Frame
  BY <1>2, TailFrame
<1>4. PICK m \in Letter : f.op \in {"publish", "ack", "nack"} /\ f.letter = m
  BY <1>3 DEF Frame
<1>5. /\ frames' = [frames EXCEPT ![r][c] = Tail(@)]
      /\ copies' = IF f.op = "publish" THEN [copies EXCEPT ![m] = @ + 1] ELSE copies
      /\ holder' = CASE f.op = "ack"     -> [holder EXCEPT ![m] = Removed]
                     [] f.op = "nack"    -> [holder EXCEPT ![m] = Queued]
                     [] f.op = "publish" -> holder
  BY <1>4 DEF Handle
<1>u. UNCHANGED <<open, phase, on, hand, forgotten>>
  BY DEF Handle, session, jobs
<1>6. /\ Lane[m] = r /\ holder[m] = c /\ 1 \in 1 .. Len(s) /\ s[1].letter = m
      /\ s[1].op = f.op
  BY <1>1, <1>3, <1>4 DEF FramesPlaced
<1> HIDE DEF f
<1>7. /\ frames'[r][c] = Tail(s)
      /\ \A q \in Migrator, d \in Conn : q # r \/ d # c => frames'[q][d] = frames[q][d]
  BY <1>2, <1>3, <1>5
<1>8. /\ \A l \in Letter \ {m} : holder'[l] = holder[l] /\ copies'[l] = copies[l]
      /\ f.op = "publish" => holder' = holder /\ copies'[m] = copies[m] + 1
      /\ f.op = "ack" => holder'[m] = Removed /\ copies' = copies
      /\ f.op = "nack" => copies' = copies
  <2>1. copies \in [Letter -> Nat] /\ holder \in [Letter -> Conn \cup {Queued, Removed}]
    BY <1>1 DEF TypeOK
  <2>2. CASE f.op = "ack"
    BY <1>4, <1>5, <2>1, <2>2
  <2>3. CASE f.op = "nack"
    BY <1>4, <1>5, <2>1, <2>3
  <2>4. CASE f.op = "publish"
    BY <1>4, <1>5, <2>1, <2>4
  <2>5. QED
    BY <1>4, <2>2, <2>3, <2>4
\* What is left was there before, and what is left about m is an ack.
<1>9. \A q \in Migrator, d \in Conn : \A i \in 1 .. Len(frames'[q][d]) :
        \E j \in 1 .. Len(frames[q][d]) :
          /\ frames'[q][d][i] = frames[q][d][j]
          /\ frames[q][d][j].letter = m => f.op = "publish" /\ frames[q][d][j].op = "ack"
  <2>1. TAKE q \in Migrator, d \in Conn
  <2>2. TAKE i \in 1 .. Len(frames'[q][d])
  <2>3. CASE q = r /\ d = c
    <3>0. Len(frames'[q][d]) = Len(s) - 1
      BY <1>3, <1>7, <2>3
    <3>1. i \in 1 .. Len(s) - 1 /\ i + 1 \in 1 .. Len(s) /\ 1 < i + 1
      BY <1>3, <2>2, <3>0
    <3>2. frames'[q][d][i] = s[i + 1]
      BY <1>3, <1>7, <2>3, <3>1
    <3>3. s[i + 1].letter = m => f.op = "publish" /\ s[i + 1].op = "ack"
      BY <1>1, <1>6, <3>1 DEF FramesOrdered, Ordered
    <3>4. QED
      BY <2>3, <3>1, <3>2, <3>3
  <2>4. CASE q # r \/ d # c
    <3>1. frames'[q][d] = frames[q][d]
      BY <1>7, <2>4
    <3>2. frames[q][d][i].letter # m
      BY <1>1, <1>6, <2>2, <2>4, <3>1 DEF FramesPlaced
    <3>3. QED
      BY <2>2, <3>1, <3>2
  <2>5. QED
    BY <2>3, <2>4
<1>10. FramesOrdered'
  <2>1. SUFFICES ASSUME NEW q \in Migrator, NEW d \in Conn PROVE Ordered(frames'[q][d])
    BY DEF FramesOrdered
  <2>2. Ordered(frames[q][d]) /\ Ordered(s)
    BY <1>1 DEF FramesOrdered
  <2>3. Ordered(Tail(s))
    <3>1. SUFFICES ASSUME NEW i \in 1 .. Len(s) - 1, NEW j \in 1 .. Len(s) - 1, i < j,
                          Tail(s)[i].letter = Tail(s)[j].letter
                   PROVE  Tail(s)[i].op = "publish" /\ Tail(s)[j].op = "ack"
      BY <1>3 DEF Ordered
    <3>2. /\ i + 1 \in 1 .. Len(s) /\ j + 1 \in 1 .. Len(s) /\ i + 1 < j + 1
          /\ Tail(s)[i] = s[i + 1] /\ Tail(s)[j] = s[j + 1]
      BY <1>3, <3>1
    <3>3. QED
      BY <2>2, <3>1, <3>2 DEF Ordered
  <2>4. QED
    BY <1>7, <2>2, <2>3
<1>11. \A q \in Migrator, d \in Conn : \A i \in 1 .. Len(frames[q][d]) :
         frames[q][d][i].letter \in Letter
  BY <1>2, FrameLetter
<1>12. FramesPlaced'
  <2>1. SUFFICES ASSUME NEW q \in Migrator, NEW d \in Conn, NEW i \in 1 .. Len(frames'[q][d])
                 PROVE  /\ Lane[frames'[q][d][i].letter] = q
                        /\ holder'[frames'[q][d][i].letter] = d
    BY DEF FramesPlaced
  <2>2. PICK j \in 1 .. Len(frames[q][d]) :
          /\ frames'[q][d][i] = frames[q][d][j]
          /\ frames[q][d][j].letter = m => f.op = "publish"
    BY <1>9
  <2>3. /\ Lane[frames[q][d][j].letter] = q /\ holder[frames[q][d][j].letter] = d
        /\ frames[q][d][j].letter \in Letter
    BY <1>1, <1>11 DEF FramesPlaced
  <2>4. QED
    BY <1>8, <2>2, <2>3
<1>13. HandsPlaced'
  <2>1. SUFFICES ASSUME NEW q \in Migrator, hand[q] # None
                 PROVE  /\ Lane[hand[q]] = q
                        /\ on[q] \in open =>
                             /\ holder'[hand[q]] = on[q]
                             /\ \A i \in 1 .. Len(frames'[q][on[q]]) :
                                  frames'[q][on[q]][i].letter = hand[q] =>
                                    phase[q] = "acking" /\ frames'[q][on[q]][i].op = "publish"
    BY <1>u DEF HandsPlaced, Usable
  <2>2. hand[q] \in Letter /\ Lane[hand[q]] = q
    BY <1>1, <2>1 DEF HandsPlaced, TypeOK
  <2>3. ASSUME on[q] \in open
        PROVE  /\ on[q] \in Conn /\ holder[hand[q]] = on[q]
               /\ \A i \in 1 .. Len(frames[q][on[q]]) : frames[q][on[q]][i].letter = hand[q] =>
                    phase[q] = "acking" /\ frames[q][on[q]][i].op = "publish"
    BY <1>1, <2>1, <2>3 DEF HandsPlaced, Usable, TypeOK
  <2>4. ASSUME on[q] \in open, hand[q] = m PROVE f.op = "publish"
    BY <1>6, <2>2, <2>3, <2>4
  <2>5. on[q] \in open => holder'[hand[q]] = on[q]
    BY <1>8, <2>2, <2>3, <2>4
  <2>6. ASSUME on[q] \in open, NEW i \in 1 .. Len(frames'[q][on[q]]),
               frames'[q][on[q]][i].letter = hand[q]
        PROVE  phase[q] = "acking" /\ frames'[q][on[q]][i].op = "publish"
    <3>1. on[q] \in Conn
      BY <2>3, <2>6
    <3>2. PICK j \in 1 .. Len(frames[q][on[q]]) : frames'[q][on[q]][i] = frames[q][on[q]][j]
      BY <1>9, <2>6, <3>1
    <3>3. QED
      BY <2>3, <2>6, <3>2
  <2>7. QED
    BY <2>2, <2>5, <2>6
<1>14. CopiesPaid'
  <2>1. SUFFICES ASSUME NEW l \in Letter
                 PROVE  copies'[l] + (IF Owed(l)' THEN 1 ELSE 0) <= 1 + forgotten'[l]
    BY DEF CopiesPaid
  <2>2. /\ copies[l] \in Nat /\ forgotten[l] \in Nat /\ forgotten'[l] = forgotten[l]
        /\ Lane[l] \in Migrator
    BY <1>1, <1>u, SessionConstantsOK DEF TypeOK, SessionConstantsOK
  <2>3. copies[l] + (IF Owed(l) THEN 1 ELSE 0) <= 1 + forgotten[l]
    BY <1>1 DEF CopiesPaid
  <2>4. ASSUME holder'[l] # Queued \/ holder[l] = Queued, Owed(l)' PROVE Owed(l)
    <3>1. ASSUME NEW d \in Conn, NEW i \in 1 .. Len(frames'[Lane[l]][d]),
                 frames'[Lane[l]][d][i].letter = l,
                 frames'[Lane[l]][d][i].op \in {"publish", "nack"}
          PROVE  Owed(l)
      <4>1. PICK j \in 1 .. Len(frames[Lane[l]][d]) :
              frames'[Lane[l]][d][i] = frames[Lane[l]][d][j]
        BY <1>9, <2>2, <3>1
      <4>2. QED
        BY <3>1, <4>1 DEF Owed
    <3>2. QED
      BY <1>u, <2>4, <3>1 DEF Owed, Usable
  <2>5. CASE l # m
    <3>1. holder'[l] = holder[l] /\ copies'[l] = copies[l]
      BY <1>8, <2>5
    <3>2. QED
      BY <2>2, <2>3, <2>4, <3>1
  <2>6. CASE l = m /\ f.op = "ack"
    <3>1. holder'[l] # Queued /\ copies'[l] = copies[l]
      BY <1>8, <2>6 DEF Removed, Queued
    <3>2. QED
      BY <2>2, <2>3, <2>4, <3>1
  <2>7. CASE l = m /\ f.op \in {"publish", "nack"}
    <3>1. Owed(l)
      BY <1>6, <2>7 DEF Owed
    <3>2. copies[l] + 1 <= 1 + forgotten[l]
      BY <2>3, <3>1
    <3>3. CASE f.op = "nack"
      BY <1>8, <2>2, <2>7, <3>2, <3>3
    <3>4. CASE f.op = "publish"
      <4>1. ~Owed(m)'
        <5>1. holder'[m] # Queued
          BY <1>6, <1>8, <3>4, SessionConstantsOK DEF Conn, Queued, SessionConstantsOK
        <5>2. ~(hand[r] = m /\ phase[r] = "publishing" /\ on[r] \in open)
          <6>1. SUFFICES ASSUME hand[r] = m, phase[r] = "publishing", on[r] \in open PROVE FALSE
            OBVIOUS
          <6>2. hand[r] # None
            BY <6>1, SessionConstantsOK DEF SessionConstantsOK
          <6>3. /\ holder[m] = on[r]
                /\ \A i \in 1 .. Len(frames[r][on[r]]) :
                     frames[r][on[r]][i].letter = m => phase[r] = "acking"
            BY <1>1, <6>1, <6>2 DEF HandsPlaced, Usable
          <6>4. QED
            BY <1>6, <6>1, <6>3
        <5>3. \A d \in Conn : \A i \in 1 .. Len(frames'[r][d]) :
                frames'[r][d][i].letter = m => frames'[r][d][i].op = "ack"
          BY <1>9
        <5>4. QED
          BY <1>u, <1>6, <5>1, <5>2, <5>3 DEF Owed, Usable
      <4>2. QED
        BY <1>8, <2>2, <2>7, <3>2, <3>4, <4>1
    <3>5. QED
      BY <2>7, <3>3, <3>4
  <2>8. QED
    BY <1>4, <2>5, <2>6, <2>7
<1>15. QED
  BY <1>10, <1>12, <1>13, <1>14 DEF CopiesInv

\* Giving up a channel: its letters are owed another copy, and are counted.
LEMMA ForgetCopies ==
  ASSUME SessionInv, CopiesInv, NEW r \in Migrator, NEW c \in Conn, Forget(r, c)
  PROVE  CopiesInv'
<1> DEFINE unacked == {l \in Letter : Lane[l] = r /\ holder[l] = c}
<1>1. FramesOrdered /\ FramesPlaced /\ HandsPlaced /\ CopiesPaid /\ TypeOK
  BY DEF CopiesInv, SessionInv
<1>2. /\ c \notin open \/ phase[r] = "stopped"
      /\ frames' = [frames EXCEPT ![r][c] = <<>>]
      /\ holder' = [l \in Letter |-> IF l \in unacked THEN Queued ELSE holder[l]]
      /\ forgotten' = [l \in Letter |-> forgotten[l] + IF l \in unacked THEN 1 ELSE 0]
      /\ UNCHANGED <<open, phase, on, hand, copies>>
  BY DEF Forget, session, jobs
<1>3. frames \in [Migrator -> [Conn -> Seq(Frame)]]
  BY <1>1 DEF TypeOK
<1>4. /\ frames'[r][c] = <<>>
      /\ \A q \in Migrator, d \in Conn : q # r \/ d # c => frames'[q][d] = frames[q][d]
  BY <1>2, <1>3
<1>5. \A q \in Migrator, d \in Conn : \A i \in 1 .. Len(frames'[q][d]) :
        /\ (q # r \/ d # c) /\ frames'[q][d] = frames[q][d]
        /\ frames[q][d][i].letter \in Letter
  <2>1. TAKE q \in Migrator, d \in Conn
  <2>2. TAKE i \in 1 .. Len(frames'[q][d])
  <2>3. q # r \/ d # c
    BY <1>4, <2>2
  <2>4. frames'[q][d] = frames[q][d] /\ frames[q][d] \in Seq(Frame)
    BY <1>3, <1>4, <2>3
  <2>5. QED
    BY <2>2, <2>3, <2>4, FrameLetter
<1>6. FramesOrdered'
  BY <1>1, <1>5 DEF FramesOrdered, Ordered
<1>7. FramesPlaced'
  BY <1>1, <1>2, <1>5 DEF FramesPlaced
<1>8. HandsPlaced'
  <2>1. SUFFICES ASSUME NEW q \in Migrator, hand[q] # None
                 PROVE  /\ Lane[hand[q]] = q
                        /\ on[q] \in open =>
                             /\ holder'[hand[q]] = on[q]
                             /\ \A i \in 1 .. Len(frames'[q][on[q]]) :
                                  frames'[q][on[q]][i].letter = hand[q] =>
                                    phase[q] = "acking" /\ frames'[q][on[q]][i].op = "publish"
    BY <1>2 DEF HandsPlaced, Usable
  <2>2. /\ hand[q] \in Letter /\ Lane[hand[q]] = q
        /\ phase[q] \in {"publishing", "acking"} /\ open \subseteq Conn
    BY <1>1, <2>1 DEF HandsPlaced, TypeOK
  <2>3. on[q] \in open => q # r \/ on[q] # c
    BY <1>2, <2>2
  <2>4. on[q] \in open => holder[hand[q]] = on[q] /\ hand[q] \notin unacked
    BY <1>1, <2>1, <2>2, <2>3 DEF HandsPlaced, Usable
  <2>5. QED
    BY <1>1, <1>2, <1>4, <2>1, <2>2, <2>3, <2>4 DEF HandsPlaced, Usable
<1>9. CopiesPaid'
  <2>1. SUFFICES ASSUME NEW l \in Letter
                 PROVE  copies'[l] + (IF Owed(l)' THEN 1 ELSE 0) <= 1 + forgotten'[l]
    BY DEF CopiesPaid
  <2>2. copies[l] \in Nat /\ forgotten[l] \in Nat /\ Lane[l] \in Migrator /\ copies' = copies
    BY <1>1, <1>2, SessionConstantsOK DEF TypeOK, SessionConstantsOK
  <2>3. copies[l] + (IF Owed(l) THEN 1 ELSE 0) <= 1 + forgotten[l]
    BY <1>1 DEF CopiesPaid
  <2>4. CASE l \in unacked
    <3>1. forgotten'[l] = forgotten[l] + 1
      BY <1>2, <2>4
    <3>2. QED
      BY <2>2, <2>3, <3>1
  <2>5. CASE l \notin unacked
    <3>1. forgotten'[l] = forgotten[l] /\ holder'[l] = holder[l]
      BY <1>2, <2>2, <2>5
    <3>2. Owed(l)' => Owed(l)
      BY <1>2, <1>5, <2>2, <3>1 DEF Owed, Usable
    <3>3. QED
      BY <2>2, <2>3, <3>1, <3>2
  <2>6. QED
    BY <2>4, <2>5
<1>10. QED
  BY <1>6, <1>7, <1>8, <1>9 DEF CopiesInv

\* Nothing has been sent when the migrators start.
LEMMA InitCopies == Init => CopiesInv
<1> SUFFICES ASSUME Init PROVE CopiesInv
  OBVIOUS
<1>1. \A r \in Migrator, c \in Conn : frames[r][c] = <<>>
  BY DEF Init
<1>2. FramesOrdered /\ FramesPlaced
  BY <1>1 DEF FramesOrdered, Ordered, FramesPlaced
<1>3. HandsPlaced
  BY DEF Init, HandsPlaced
<1>4. CopiesPaid
  BY DEF Init, CopiesPaid
<1>5. QED
  BY <1>2, <1>3, <1>4 DEF CopiesInv

\* The migrators make a second copy of a letter only when a channel died between
\* its publish and its ack, whatever else fails and whoever restarts (app.go).
THEOREM CopiesStayPaid == Safety => []CopiesArePaid
<1>1. ASSUME SessionInv, CopiesInv, [Next]_vars PROVE CopiesInv'
  <2>1. CASE Next
    BY <1>1, <2>1, SessionCopies, MigratorCopies, HandleCopies, ForgetCopies DEF Next
  <2>2. CASE UNCHANGED vars
    BY <1>1, <2>2 DEF vars, CopiesInv, FramesOrdered, Ordered, FramesPlaced, HandsPlaced,
       Usable, CopiesPaid, Owed
  <2>3. QED
    BY <1>1, <2>1, <2>2
<1>2. SessionInv /\ CopiesInv => CopiesArePaid
  <2>1. SUFFICES ASSUME SessionInv, CopiesInv, NEW l \in Letter
                 PROVE  copies[l] <= 1 + forgotten[l]
    BY DEF CopiesArePaid
  <2>2. copies[l] \in Nat /\ forgotten[l] \in Nat
    BY <2>1 DEF SessionInv, TypeOK
  <2>3. QED
    BY <2>1, <2>2 DEF CopiesInv, CopiesPaid
<1>3. QED
  BY <1>1, <1>2, InitCopies, SessionInvariant, PTL DEF Safety
=============================================================================
