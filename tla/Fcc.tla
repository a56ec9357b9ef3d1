-------------------------------- MODULE Fcc --------------------------------
(***************************************************************************)
(* Fast Channel Change: one stream that starts from the unicast burst of   *)
(* an FCC server and switches over to multicast (fcc.c, fcc_telecom.c,     *)
(* fcc_huawei.c, multicast.c and their caller stream.c).                   *)
(*                                                                         *)
(* The channel's packets are numbered 0, 1, 2, ...; the server's unicast   *)
(* stream and the multicast group carry the same packets under the same    *)
(* sequence numbers.  What reaches the client goes through the reorder     *)
(* buffer, whose operators come from RtpReorder (no FEC port).             *)
(*                                                                         *)
(* All sockets are UDP.  An answer of a server may be lost, delayed and    *)
(* duplicated (requests go out three times); media packets may be lost.    *)
(* Times are ages in units of the worker's tick, counted up to the largest *)
(* timeout they are compared with.                                         *)
(***************************************************************************)
EXTENDS Integers, Sequences, SequencesExt, FiniteSets

CONSTANTS
  FirstServer,        \* service->fcc_addr, a record of ip and port
  Scenarios,          \* fcc_type_t, and what the server at each address answers
  Unset,              \* an ip or port that an answer leaves 0
  FCC_MAX_REDIRECTS,
  SignalingTimeout,   \* FCC_TIMEOUT_SIGNALING_MS, in ticks
  UnicastTimeout,     \* FCC_TIMEOUT_UNICAST_SEC
  SyncWaitTimeout,    \* FCC_TIMEOUT_SYNC_WAIT_SEC
  McastTimeout,       \* MCAST_TIMEOUT_SEC
  SeqSpace, WINDOW_SIZE, INIT_COLLECT, FirstSeq,  \* as in RtpReorder
  Packets,            \* bound: packets of the channel
  Backlog,            \* packets the server has cached at the start
  MaxControl,         \* bound: control datagrams that reach the client
  MaxLoss,            \* bound: packets lost on the way or for want of a buffer
  JoinOutcomes,       \* subset of BOOLEAN: may mcast_session_join fail
  StartOutcomes,      \* subset of BOOLEAN: may the first request fail to be sent
  SendOutcomes        \* the same for every later request and termination

ASSUME FccAssumption ==
  /\ {FCC_MAX_REDIRECTS, Packets, Backlog, MaxControl, MaxLoss} \subseteq Nat
  /\ {SignalingTimeout, UnicastTimeout, SyncWaitTimeout, McastTimeout} \subseteq Nat \ {0}
  /\ Backlog < Packets
  /\ \A c \in Scenarios : c.type \in {"telecom", "huawei"} /\ FirstServer \in DOMAIN c.answer

VARIABLES
  fcc,      \* fcc_session_t
  mcast,    \* mcast_session_t: the group is joined, age of its last data
  media,    \* the reorder buffer and what it delivered to the client
  conn,     \* the connection: "streaming", "closing" (503 queued), "closed",
            \* or "refused": freed after the stream failed to start
  net,      \* the servers and the network
  hist      \* history: terminations sent, whether the streaming server got one,
            \* whether one was lost, whether the media stream was disturbed

vars == <<fcc, mcast, media, conn, net, hist>>

Reorder == INSTANCE RtpReorder
  WITH r <- media.r, fec <- media.fec, out <- media.out, stored <- {},
       FEC_MAX_GROUPS <- 1, GroupSize <- 1, Parity <- 1, InitialSpread <- Packets,
       UseFec <- {FALSE}

NotStarted == -1
Older(age, limit) == IF age < limit THEN age + 1 ELSE limit

\* fcc_session_init.
NewSession ==
  [state |-> "INIT", sock |-> FALSE, fcc_server |-> FirstServer, verify_server_ip |-> FALSE,
   redirect_count |-> 0, unicast_start |-> NotStarted, last_data |-> 0,
   fcc_term_seqn |-> 0, fcc_term_sent |-> FALSE, pending |-> <<>>]

\* mcast_session_init.
NotJoined == [sock |-> FALSE, last_data |-> 0]

NewMedia ==
  [r |-> Reorder!NewRing, out |-> <<>>,
   fec |-> [port |-> FALSE, active |-> FALSE,
            groups |-> [i \in {1} |-> Reorder!NoGroup], minEnd |-> Reorder!NoSeq]]

Init ==
  /\ fcc = NewSession
  /\ mcast = NotJoined
  /\ media = NewMedia
  /\ conn = "streaming"
  /\ \E c \in Scenarios :
       net = [type |-> c.type, answer |-> c.answer, asked |-> {}, upos |-> 0, stop |-> Packets,
              live |-> Backlog, control |-> MaxControl, loss |-> MaxLoss]
  /\ hist = [terms |-> 0, told |-> FALSE, unheard |-> FALSE, disturbed |-> FALSE]

-----------------------------------------------------------------------------
(* The servers.  What a server answers is fixed by the scenario; it answers *)
(* and streams once it was asked.                                           *)

Granting == {s \in net.asked : net.answer[s].kind = "unicast"}

\* The address that the stream granted by s comes from.
SourceIp(s) == IF net.answer[s].ip = Unset THEN s.ip ELSE net.answer[s].ip

\* The unicast stream has packets to come.
Streaming == Granting # {} /\ net.upos < net.stop

\* Termination seqn, sent to server s: it stops the stream at that packet, or at
\* once if seqn is 0.
Hits(s) == \E g \in Granting : s = g \/ s.ip = SourceIp(g)
StopAt(seqn) == IF seqn = 0 THEN net.upos ELSE Reorder!NumberOf(seqn)

\* fcc_send_term_packet in session f, where n is the network otherwise.
SendTerm(f, n, seqn) ==
  \E arrives \in BOOLEAN :
    LET hit == arrives /\ Hits(f.fcc_server)
    IN  /\ arrives \/ n.loss > 0
        /\ net' = [n EXCEPT !.loss = IF arrives THEN @ ELSE @ - 1,
                            !.stop = IF hit THEN StopAt(seqn) ELSE @]
        /\ hist' = [hist EXCEPT !.terms = @ + 1, !.told = @ \/ hit, !.unheard = @ \/ ~arrives]

SendTermFails(n) == net' = n /\ hist' = [hist EXCEPT !.unheard = TRUE]

-----------------------------------------------------------------------------

\* worker_close_and_free_connection: stream_context_cleanup ends session f.
\* fcc_session_cleanup sends a termination unless one was sent before.
Cleanup(f, n) ==
  /\ conn' = "closed"
  /\ fcc' = NewSession /\ mcast' = NotJoined
  /\ media' = NewMedia
  /\ IF f.fcc_term_sent THEN net' = n /\ UNCHANGED hist
     ELSE \E sent \in SendOutcomes :
            IF sent THEN SendTerm(f, n, 0) ELSE SendTermFails(n)

\* A handler failed: a client that got no header yet is answered 503, which
\* leaves the stream to be cleaned up when the answer is written.
Fail(f, n) ==
  IF media.out = <<>> /\ conn = "streaming"
    THEN /\ conn' = "closing" /\ fcc' = f /\ net' = n
         /\ UNCHANGED <<mcast, media, hist>>
    ELSE Cleanup(f, n)

\* fcc_initialize_and_request: opens the socket unless it is open, and sends.
Opened(f) == [f EXCEPT !.sock = TRUE]
Asked(f, n) == [n EXCEPT !.asked = @ \cup {f.fcc_server}]

Request(f, n) ==
  /\ fcc' = [Opened(f) EXCEPT !.state = "REQUESTED", !.last_data = 0]
  /\ net' = Asked(f, n)
  /\ UNCHANGED <<mcast, media, conn, hist>>

\* The networks when sending fails: of the three copies one may be out before.
PartlySent(f, n) == {n, Asked(f, n)}

\* stream_context_init_for_worker for a service with an FCC address.
Start ==
  /\ conn = "streaming" /\ fcc.state = "INIT"
  /\ TRUE \in StartOutcomes
  /\ Request(fcc, net)

\* connection_route_and_start when stream_context_init_for_worker failed: the
\* connection is not streaming, so its stream is never cleaned up.
StartFails ==
  /\ conn = "streaming" /\ fcc.state = "INIT"
  /\ FALSE \in StartOutcomes
  /\ conn' = "refused" /\ fcc' = Opened(fcc)
  /\ net' \in PartlySent(fcc, net)
  /\ UNCHANGED <<mcast, media, hist>>

Freed == conn \in {"closed", "refused"}
Open == ~Freed /\ fcc.sock

\* mcast_session_join; its result is ignored by every caller in fcc.c.
Join(m) == \E ok \in JoinOutcomes :
             mcast' = IF ok /\ ~m.sock THEN [sock |-> TRUE, last_data |-> 0] ELSE m

\* Give up unicast for multicast.
Fallback(f, m) ==
  /\ fcc' = [f EXCEPT !.state = "MCAST_ACTIVE"]
  /\ Join(m)
  /\ hist' = [hist EXCEPT !.disturbed = @ \/ Streaming]

-----------------------------------------------------------------------------
(* Control datagrams: fcc_handle_socket_event, fcc_handle_server_response.  *)

Expected(ip) == fcc.verify_server_ip => ip = fcc.fcc_server.ip

Heard == [fcc EXCEPT !.last_data = 0]
OneLess == [net EXCEPT !.control = @ - 1]

\* The server address after an answer.  A Huawei grant that offers NAT traversal
\* moves the stream's address and keeps the control port; one that does not is
\* an answer with no address.
Moved(f, a) ==
  LET port == a.port # Unset /\ (net.type = "telecom" \/ a.kind = "redirect")
  IN  [f EXCEPT !.fcc_server = [ip |-> IF a.ip # Unset THEN a.ip ELSE @.ip,
                                port |-> IF port THEN a.port ELSE @.port],
                !.verify_server_ip = @ \/ a.ip # Unset]

\* A copy of a redirect that was followed already.
DuplicateRedirect(a) ==
  /\ a.kind = "redirect"
  /\ fcc.redirect_count > 0
  /\ a.ip \in {Unset, fcc.fcc_server.ip}
  /\ a.port \in {Unset, fcc.fcc_server.port}

TooManyRedirects(a) == a.kind = "redirect" /\ fcc.redirect_count >= FCC_MAX_REDIRECTS

\* An answer counts only while the session waits for one.
Relevant(a) == fcc.state = "REQUESTED" /\ ~DuplicateRedirect(a)

AnswerArrives(s) == Open /\ s \in net.asked /\ net.control > 0

AnswerIgnored(s) ==
  /\ AnswerArrives(s)
  /\ ~Expected(s.ip) \/ ~Relevant(net.answer[s])
  /\ fcc' = IF Expected(s.ip) THEN Heard ELSE fcc
  /\ net' = OneLess
  /\ UNCHANGED <<mcast, media, conn, hist>>

\* There is no buffer to receive it into, which counts as data all the same.
AnswerLost(s) ==
  /\ AnswerArrives(s) /\ net.loss > 0
  /\ fcc' = Heard
  /\ net' = [OneLess EXCEPT !.loss = @ - 1]
  /\ UNCHANGED <<mcast, media, conn, hist>>

\* An error, no unicast needed (also an unknown type), or too many redirects.
AnswerRefuses(s) ==
  LET a == net.answer[s]
  IN  /\ AnswerArrives(s) /\ Expected(s.ip) /\ Relevant(a)
      /\ a.kind \in {"error", "mcast"} \/ TooManyRedirects(a)
      /\ LET f == IF net.type = "telecom" /\ a.kind # "error" THEN Moved(Heard, a) ELSE Heard
         IN  Fallback(IF a.kind = "redirect" THEN [f EXCEPT !.redirect_count = @ + 1] ELSE f, mcast)
      /\ net' = OneLess
      /\ UNCHANGED <<media, conn>>

AnswerGrants(s) ==
  /\ AnswerArrives(s) /\ Expected(s.ip) /\ Relevant(net.answer[s])
  /\ net.answer[s].kind = "unicast"
  /\ fcc' = [Moved(Heard, net.answer[s]) EXCEPT
               !.state = "UNICAST_PENDING", !.unicast_start = 0]
  /\ net' = OneLess
  /\ UNCHANGED <<mcast, media, conn, hist>>

Redirected(a) == [Moved(Heard, a) EXCEPT !.state = "INIT", !.redirect_count = @ + 1]

Redirects(s) ==
  /\ AnswerArrives(s) /\ Expected(s.ip) /\ Relevant(net.answer[s])
  /\ net.answer[s].kind = "redirect" /\ ~TooManyRedirects(net.answer[s])

AnswerRedirects(s) ==
  /\ Redirects(s) /\ TRUE \in SendOutcomes
  /\ Request(Redirected(net.answer[s]), OneLess)

AnswerRedirectFails(s) ==
  /\ Redirects(s) /\ FALSE \in SendOutcomes
  /\ LET f == Redirected(net.answer[s])
     IN  \E n \in PartlySent(f, OneLess) : Fail(Opened(f), n)

\* fcc_handle_sync_notification, for a datagram or for the sync timeout.
Synced(f) == f.state \in {"MCAST_REQUESTED", "MCAST_ACTIVE"}

Sync(f, m) ==
  IF Synced(f) THEN fcc' = f /\ mcast' = m
  ELSE fcc' = [f EXCEPT !.state = "MCAST_REQUESTED"] /\ Join(m)

\* The granting server tells the client to join, from either of its addresses.
SyncArrives(s) ==
  /\ Open /\ s \in Granting /\ net.control > 0
  /\ \E ip \in {s.ip, SourceIp(s)} : Expected(ip)
  /\ Sync(Heard, mcast)
  /\ net' = OneLess
  /\ UNCHANGED <<media, conn, hist>>

-----------------------------------------------------------------------------
(* Unicast media. *)

\* The server sends its next packet, which was broadcast already.
NextUnicast == Open /\ Streaming /\ net.upos < net.live

\* The network loses it, or buffer_pool_alloc fails, which counts as data.
UnicastLost ==
  /\ NextUnicast /\ net.loss > 0
  /\ fcc' \in {fcc, Heard}
  /\ net' = [net EXCEPT !.upos = @ + 1, !.loss = @ - 1]
  /\ hist' = [hist EXCEPT !.disturbed = TRUE]
  /\ UNCHANGED <<mcast, media, conn>>

\* Slip: the switch happens one packet early.
ReachedTermination_Early(f, m) ==
  /\ f.fcc_term_sent /\ m.r.phase = 2
  /\ Reorder!Diff((m.r.base - 1) % SeqSpace, (f.fcc_term_seqn - 1) % SeqSpace) >= -1

\* Everything before the first multicast packet was delivered.
ReachedTermination(f, m) ==
  /\ f.fcc_term_sent /\ m.r.phase = 2
  /\ Reorder!Diff((m.r.base - 1) % SeqSpace, (f.fcc_term_seqn - 1) % SeqSpace) >= 0

\* fcc_handle_unicast_media.
UnicastArrives ==
  /\ NextUnicast
  /\ net' = [net EXCEPT !.upos = @ + 1]
  /\ \E s \in Granting :
       IF ~Expected(SourceIp(s)) THEN UNCHANGED <<fcc, media>>
       ELSE IF fcc.state = "MCAST_ACTIVE" THEN fcc' = Heard /\ UNCHANGED media
       ELSE LET m == Reorder!Insert(media, net.upos)
            IN  /\ media' = m
                /\ fcc' = [Heard EXCEPT !.state =
                             IF ReachedTermination(fcc, m) THEN "MCAST_ACTIVE"
                             ELSE IF @ = "UNICAST_PENDING" THEN "UNICAST_ACTIVE" ELSE @]
  /\ UNCHANGED <<mcast, conn, hist>>

-----------------------------------------------------------------------------
(* Multicast media: mcast_session_handle_event. *)

NextLive == ~Freed /\ fcc.state # "INIT" /\ net.live < Packets
Broadcast == [net EXCEPT !.live = @ + 1]

\* The group moves on while it is not joined.
LiveUnheard ==
  /\ NextLive /\ ~mcast.sock
  /\ net' = Broadcast
  /\ UNCHANGED <<fcc, mcast, media, conn, hist>>

McastLost ==
  /\ NextLive /\ mcast.sock /\ net.loss > 0
  /\ mcast' \in {mcast, [mcast EXCEPT !.last_data = 0]}
  /\ net' = [Broadcast EXCEPT !.loss = @ - 1]
  /\ hist' = [hist EXCEPT !.disturbed = TRUE]
  /\ UNCHANGED <<fcc, media, conn>>

McastArrives ==
  /\ NextLive /\ mcast.sock
  /\ mcast' = [mcast EXCEPT !.last_data = 0]

\* fcc_handle_mcast_active: what waited for the switch goes first.
McastActive ==
  /\ McastArrives /\ fcc.state = "MCAST_ACTIVE"
  /\ media' = FoldLeft(LAMBDA m, n : Reorder!Insert(m, n), media,
                       Append(fcc.pending, net.live))
  /\ fcc' = [fcc EXCEPT !.pending = <<>>]
  /\ net' = Broadcast
  /\ UNCHANGED <<conn, hist>>

Keep(f) == [f EXCEPT !.pending = Append(@, net.live)]

\* fcc_handle_mcast_transition: the first packet is the hand-over point the
\* server is told; this packet and the following ones are kept.
McastTransition ==
  LET seqn == Reorder!Seqn(net.live)
      f == [fcc EXCEPT !.fcc_term_seqn = seqn]
  IN  /\ McastArrives /\ fcc.state = "MCAST_REQUESTED"
      /\ IF fcc.fcc_term_sent
           THEN fcc' = Keep(fcc) /\ net' = Broadcast /\ UNCHANGED hist
           ELSE /\ TRUE \in SendOutcomes
                /\ fcc' = Keep([f EXCEPT !.fcc_term_sent = TRUE])
                /\ SendTerm(f, Broadcast, (seqn + 2) % SeqSpace)
      /\ UNCHANGED <<media, conn>>

\* ... or its termination cannot be sent, which fails the stream.
McastTransitionFails ==
  /\ NextLive /\ mcast.sock /\ fcc.state = "MCAST_REQUESTED"
  /\ ~fcc.fcc_term_sent /\ FALSE \in SendOutcomes
  /\ Fail([fcc EXCEPT !.fcc_term_seqn = Reorder!Seqn(net.live)], Broadcast)

-----------------------------------------------------------------------------
(* stream_tick *)

Aged(f) ==
  [f EXCEPT !.last_data = Older(@, UnicastTimeout),
            !.unicast_start = IF @ = NotStarted THEN @ ELSE Older(@, SyncWaitTimeout)]
AgedMcast == IF mcast.sock THEN [mcast EXCEPT !.last_data = Older(@, McastTimeout)] ELSE mcast

\* Slip: the multicast session has no timeout.
McastSilent_Never == FALSE

\* mcast_session_tick: no multicast data for too long ends the stream.
McastSilent == mcast.sock /\ AgedMcast.last_data >= McastTimeout

\* Slip: a granted stream that does not start has no timeout.
Interrupted_NotPending(f) ==
  \/ f.state = "REQUESTED" /\ f.last_data >= SignalingTimeout
  \/ f.state \in {"UNICAST_ACTIVE", "MCAST_REQUESTED"} /\ f.last_data >= UnicastTimeout

\* fcc_session_tick: how long the present state may go without data.
Interrupted(f) ==
  \/ f.state \in {"REQUESTED", "UNICAST_PENDING"} /\ f.last_data >= SignalingTimeout
  \/ f.state \in {"UNICAST_ACTIVE", "MCAST_REQUESTED"} /\ f.last_data >= UnicastTimeout

SyncOverdue(f) == f.state = "UNICAST_ACTIVE" /\ f.unicast_start >= SyncWaitTimeout

TickTimeout ==
  /\ Open /\ McastSilent
  /\ Fail(fcc, net)

TickFallback ==
  /\ Open /\ ~McastSilent /\ Interrupted(Aged(fcc))
  /\ Fallback(Aged(fcc), AgedMcast)
  /\ UNCHANGED <<media, conn, net>>

TickSync ==
  /\ Open /\ ~McastSilent /\ ~Interrupted(Aged(fcc)) /\ SyncOverdue(Aged(fcc))
  /\ Sync(Aged(fcc), AgedMcast)
  /\ UNCHANGED <<media, conn, net, hist>>

TickIdle ==
  /\ Open /\ ~McastSilent /\ ~Interrupted(Aged(fcc)) /\ ~SyncOverdue(Aged(fcc))
  /\ fcc' = Aged(fcc) /\ mcast' = AgedMcast
  /\ UNCHANGED <<media, conn, net, hist>>

Tick == TickTimeout \/ TickFallback \/ TickSync \/ TickIdle

\* The client hangs up, or has got the whole 503.
ClientLeaves == Open /\ conn = "streaming" /\ Cleanup(fcc, net)
Drained == Open /\ conn = "closing" /\ Cleanup(fcc, net)

Control ==
  \E s \in net.asked :
    \/ AnswerIgnored(s) \/ AnswerLost(s) \/ AnswerRefuses(s)
    \/ AnswerGrants(s) \/ AnswerRedirects(s) \/ AnswerRedirectFails(s) \/ SyncArrives(s)

Media ==
  \/ UnicastLost \/ UnicastArrives
  \/ LiveUnheard \/ McastLost \/ McastActive \/ McastTransition \/ McastTransitionFails

Next == Start \/ StartFails \/ Control \/ Media \/ Tick \/ ClientLeaves \/ Drained

\* The worker's loop ticks every stream, and a queued answer drains.
Spec == Init /\ [][Next]_vars /\ WF_vars(Tick) /\ WF_vars(Drained)

-----------------------------------------------------------------------------
States == {"INIT", "REQUESTED", "UNICAST_PENDING", "UNICAST_ACTIVE",
           "MCAST_REQUESTED", "MCAST_ACTIVE"}

\* Types of the session; ages stay within their timeouts and no more than one
\* redirect over the limit is counted.
TypeOK ==
  /\ fcc.state \in States /\ fcc.sock \in BOOLEAN
  /\ fcc.redirect_count \in 0 .. (FCC_MAX_REDIRECTS + 1)
  /\ fcc.unicast_start \in {NotStarted} \cup (0 .. SyncWaitTimeout)
  /\ fcc.last_data \in 0 .. UnicastTimeout
  /\ fcc.fcc_term_seqn \in 0 .. (SeqSpace - 1)
  /\ fcc.fcc_term_sent \in BOOLEAN
  /\ fcc.pending \in Seq(0 .. (Packets - 1))
  /\ mcast \in [sock : BOOLEAN, last_data : 0 .. McastTimeout]
  /\ conn \in {"streaming", "closing", "closed", "refused"}

\* The switch is seamless: unless packets were lost or unicast timed out while
\* it was running, the client gets every packet from its first one on, and no
\* packet waits behind a hole after the switch.
SeamlessSwitch ==
  ~hist.disturbed =>
    /\ \A i \in 1 .. (Len(media.out) - 1) : media.out[i + 1] = media.out[i] + 1
    /\ fcc.state = "MCAST_ACTIVE" /\ media.r.phase = 2 => media.r.count = 0

\* What waits for the switch starts at the packet the server was told, in
\* order, so the unicast stream up to there completes it.
PendingStartsAtTermination ==
  fcc.pending # <<>> =>
    /\ fcc.fcc_term_sent
    /\ Reorder!Seqn(Head(fcc.pending)) = fcc.fcc_term_seqn
    /\ \A i \in 1 .. (Len(fcc.pending) - 1) : fcc.pending[i] < fcc.pending[i + 1]

\* A late or repeated answer never pulls a session that has joined the group
\* back to an earlier state.
NoWayBack == mcast.sock => fcc.state \in {"MCAST_REQUESTED", "MCAST_ACTIVE"}

\* Each redirect that is counted has led to another server: copies of one
\* redirect do not use up the budget.
RedirectsMakeProgress ==
  Open /\ fcc.state # "INIT" =>
    Cardinality(net.asked) =
      1 + (IF fcc.redirect_count > FCC_MAX_REDIRECTS THEN FCC_MAX_REDIRECTS
           ELSE fcc.redirect_count)

\* No session ends without telling the server that streams to it to stop
\* (unless that termination could not be sent or was lost), and none tells twice.
ServerReleased ==
  /\ hist.terms <= 1
  /\ conn = "closed" /\ Granting # {} /\ ~hist.unheard => hist.told

\* However the server behaves, the stream arrives at multicast or ends.
ReachesMulticast == fcc.sock ~> (fcc.state = "MCAST_ACTIVE" \/ Freed)

\* A stream whose media has ended is closed in the end.
SilenceEndsStream == fcc.sock ~> Freed

\* The hand-over from the server's unicast stream to multicast, from the request
\* to the stop message: no gap, no step back, no server left streaming.
HandoverIsSound ==
  /\ TypeOK /\ SeamlessSwitch /\ PendingStartsAtTermination
  /\ NoWayBack /\ RedirectsMakeProgress /\ ServerReleased
=============================================================================
