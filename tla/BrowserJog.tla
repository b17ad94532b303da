----------------------------- MODULE BrowserJog -----------------------------
(***************************************************************************)
(* A held jog button, from the browser page to the mux: the pad            *)
(* (jogpad.js), its requests, which the network delays, reorders or loses,  *)
(* the web server's session (jog.py and the handlers of server.py), the     *)
(* topic, which keeps one sample, and the mux's intake (ManualIntake).      *)
(*                                                                         *)
(* A session's tickets are counted modulo 2: the pad has one refresh under  *)
(* way, so a ticket is either the current one or the one before.            *)
(***************************************************************************)
EXTENDS Naturals, Sequences, FiniteSets

CONSTANTS Owners,       \* browser pages
          MaxSessions,  \* bound on the presses served
          MaxJogGen,    \* bound on the supervisor's generations
          MaxUnderWay,  \* bound on the requests and answers under way when the page starts one
          Tombstones    \* ManualIntake.TOMBSTONES

ASSUME JogAssumption == /\ {MaxSessions, MaxJogGen, MaxUnderWay, Tombstones} \subseteq Nat \ {0}
                        /\ Owners # {}

VARIABLES
  down,        \* whether the page's button is physically held
  pad,         \* jogpad.js: idle, pending, held or releasing, with its session and ticket
  net,         \* requests and answers under way
  session,     \* JogSessions._current; id 0 is none
  sessions,    \* the owner and the generation of every session issued so far
  accepted,    \* the session of a refresh accepted and not yet published, or 0
  revoked,     \* history: sessions whose revocation has been published
  topic,       \* the sample on /amr/manual_command
  mux,         \* ManualIntake.current; session 0 is none
  tombs,       \* ManualIntake._revoked
  seenGen       \* the generation of the lease the mux last saw

jogVars == <<down, pad, net, session, sessions, accepted, revoked, topic, mux, tombs, seenGen>>
padVars == <<down, pad>>
webVars == <<session, sessions, accepted, revoked>>
intakeVars == <<mux, tombs>>
JogGenerations == 1..MaxJogGen

Ids == 1..MaxSessions
NoPad == [state |-> "idle", id |-> 0, ticket |-> 0]
NoJogSession == [id |-> 0, ticket |-> 0, released |-> TRUE]
NoSample == [id |-> 0, revokes |-> FALSE]
NoCommand == [id |-> 0, fresh |-> FALSE]

JogTypeOK ==
  /\ down \in [Owners -> BOOLEAN]
  /\ \A o \in Owners : /\ pad[o].state \in {"idle", "pending", "held", "releasing"}
                       /\ pad[o].id \in {0} \union Ids
  /\ session.id \in {0} \union Ids
  /\ Len(sessions) <= MaxSessions /\ revoked \subseteq Ids
  /\ \A i \in DOMAIN tombs : tombs[i] \in Ids
  /\ Len(tombs) <= Tombstones
  /\ seenGen \in JogGenerations

JogInit ==
  /\ down = [o \in Owners |-> FALSE]
  /\ pad = [o \in Owners |-> NoPad]
  /\ net = {}
  /\ session = NoJogSession /\ sessions = <<>> /\ accepted = 0 /\ revoked = {}
  /\ topic = NoSample /\ mux = NoCommand /\ tombs = <<>>
  /\ seenGen = 1

-----------------------------------------------------------------------------
(* The page.  A request or its answer may be lost, which the page sees.     *)

Message(kind, o, id, ticket) == [kind |-> kind, owner |-> o, id |-> id, ticket |-> ticket]

Refresh(o, id, ticket) == Message("refresh", o, id, ticket)

Room == Cardinality(net) < MaxUnderWay

\* A press is sent when nothing is held, pending or being released.
HandDown(o) ==
  /\ ~down[o]
  /\ down' = [down EXCEPT ![o] = TRUE]
  /\ IF pad[o].state = "idle" /\ Len(sessions) < MaxSessions /\ Room
     THEN /\ pad' = [pad EXCEPT ![o].state = "pending"]
          /\ net' = net \union {Message("press", o, 0, 0)}
     ELSE UNCHANGED <<pad, net>>
  /\ UNCHANGED <<webVars, topic, intakeVars, seenGen>>

\* The token of a press under way is no longer the pending one.
Cancelled(msgs, o) ==
  {IF m.owner = o /\ m.kind = "press" THEN [m EXCEPT !.kind = "cancelled press"]
   ELSE IF m.owner = o /\ m.kind = "pressed" THEN [m EXCEPT !.kind = "cancelled pressed"]
   ELSE m : m \in msgs}

\* release(): a pending press is cancelled, a held one released, with what else is sent.
LetGo(o, others) ==
  /\ CASE pad[o].state = "pending" ->
            /\ pad' = [pad EXCEPT ![o] = NoPad]
            /\ net' = Cancelled(net, o) \union others
       [] pad[o].state = "held" ->
            /\ pad' = [pad EXCEPT ![o].state = "releasing"]
            /\ net' = net \union others \union {Message("release", o, pad[o].id, 0)}
       [] OTHER -> net' = net \union others /\ UNCHANGED pad
  /\ UNCHANGED <<webVars, topic, intakeVars, seenGen>>

HandUp(o) ==
  /\ down[o]
  /\ down' = [down EXCEPT ![o] = FALSE]
  /\ LetGo(o, {})

\* The stop button or key, or the page loses the focus, while the hand may still be down.
StopKey(o) ==
  /\ Room
  /\ \E others \in {{}, {Message("stop", o, 0, 0)}} : LetGo(o, others)
  /\ UNCHANGED down

\* The session of a press that was cancelled is given straight back.
AnswerToPress(o, m) ==
  \/ /\ m.kind = "pressed"
     /\ pad' = [pad EXCEPT ![o] = [state |-> "held", id |-> m.id, ticket |-> 0]]
     /\ net' = (net \ {m}) \union {Refresh(o, m.id, 0)}
  \/ /\ m.kind = "cancelled pressed"
     /\ net' = (net \ {m}) \union {Message("release", o, m.id, 0)}
     /\ UNCHANGED pad

\* The next refresh goes out 0.1 s after the last, with the ticket of its answer.
AnswerToRefresh(o, m) ==
  /\ m.kind = "refreshed"
  /\ IF pad[o].state = "held" /\ pad[o].id = m.id
     THEN /\ pad' = [pad EXCEPT ![o].ticket = m.ticket]
          /\ net' = (net \ {m}) \union {Refresh(o, m.id, m.ticket)}
     ELSE net' = net \ {m} /\ UNCHANGED pad

\* A refusal or a broken connection ends what the page was doing.
Refused(o, m) ==
  /\ pad' = CASE m.kind = "press" -> [pad EXCEPT ![o] = NoPad]
              [] m.kind = "refresh" /\ pad[o].state = "held" /\ pad[o].id = m.id ->
                   [pad EXCEPT ![o] = NoPad]
              [] m.kind = "release" /\ pad[o].state = "releasing" /\ pad[o].id = m.id ->
                   [pad EXCEPT ![o] = NoPad]
              [] OTHER -> pad

\* What the page makes of the loss of an answer is what it makes of the loss of the request.
RequestOf(m) ==
  [m EXCEPT !.kind = CASE m.kind = "pressed" -> "press"
                       [] m.kind = "refreshed" -> "refresh"
                       [] OTHER -> m.kind]

Lost(m) ==
  /\ net' = net \ {m}
  /\ Refused(m.owner, RequestOf(m))
  /\ UNCHANGED <<down, webVars, topic, intakeVars, seenGen>>

Answered(m) ==
  /\ AnswerToPress(m.owner, m) \/ AnswerToRefresh(m.owner, m)
  /\ UNCHANGED <<down, webVars, topic, intakeVars, seenGen>>

-----------------------------------------------------------------------------
(* The web server.  The handlers hold jog_lock from the check to the        *)
(* publication.  The supervisor's generation and the emergency are what the *)
(* web last heard, read before the lock: any.                               *)

\* Faulty variant: an accepted refresh is published after the lock is given back.
LockIgnored == TRUE
LockFree == accepted = 0

PublishSample(id, revokes) == topic' = [id |-> id, revokes |-> revokes]
\* Session.live(): TICKET_S after the last refresh a session is late, which any moment may be.
SessionLive(late) == session.id # 0 /\ ~session.released /\ ~late

ServePress(m) ==
  /\ m.kind \in {"press", "cancelled press"} /\ LockFree
  /\ \/ /\ \E late \in BOOLEAN : SessionLive(late) => sessions[session.id].owner = m.owner
        /\ Len(sessions) < MaxSessions
        /\ session' = [id |-> Len(sessions) + 1, ticket |-> 0, released |-> FALSE]
        /\ \E gen \in JogGenerations :
             sessions' = Append(sessions, [owner |-> m.owner, gen |-> gen])
        /\ net' = (net \ {m}) \union
             {Message(IF m.kind = "press" THEN "pressed" ELSE "cancelled pressed", m.owner,
                      Len(sessions) + 1, 0)}
        /\ UNCHANGED pad
     \/ \* refused: emergency, no manual class in the lease, another owner
        /\ net' = net \ {m} /\ Refused(m.owner, m)
        /\ UNCHANGED <<session, sessions>>
  /\ UNCHANGED <<down, accepted, revoked, topic, intakeVars, seenGen>>

RevokeSession(id) ==
  /\ session' = IF session.id = id THEN [session EXCEPT !.released = TRUE] ELSE session
  /\ revoked' = revoked \union {id}
  /\ PublishSample(id, TRUE)

Accepts(m, gen, late) ==
  /\ session.id = m.id /\ SessionLive(late)
  /\ m.ticket = session.ticket /\ gen = sessions[m.id].gen

ServeRefresh(m) ==
  /\ m.kind = "refresh" /\ LockFree
  /\ \E gen \in JogGenerations, emergency, late \in BOOLEAN :
       CASE emergency ->
              /\ RevokeSession(m.id)
              /\ net' = net \ {m} /\ Refused(m.owner, m)
              /\ UNCHANGED <<sessions, accepted>>
         [] ~emergency /\ Accepts(m, gen, late) ->
              /\ session' = [session EXCEPT !.ticket = 1 - @]
              /\ accepted' = m.id
              /\ net' = (net \ {m}) \union {Message("refreshed", m.owner, m.id, 1 - m.ticket)}
              /\ UNCHANGED <<pad, sessions, revoked, topic>>
         [] OTHER ->
              \* a session that expired or is of another generation is over for good
              /\ session' = IF session.id = m.id /\ (late \/ gen # sessions[m.id].gen)
                            THEN [session EXCEPT !.released = TRUE] ELSE session
              /\ net' = net \ {m} /\ Refused(m.owner, m)
              /\ UNCHANGED <<sessions, accepted, revoked, topic>>
  /\ UNCHANGED <<down, intakeVars, seenGen>>

PublishRefresh ==
  /\ accepted # 0
  /\ PublishSample(accepted, FALSE)
  /\ accepted' = 0
  /\ UNCHANGED <<padVars, net, session, sessions, revoked, intakeVars, seenGen>>

ServeRelease(m) ==
  /\ m.kind = "release" /\ LockFree
  /\ RevokeSession(m.id)
  /\ net' = net \ {m} /\ Refused(m.owner, m)
  /\ UNCHANGED <<down, sessions, accepted, intakeVars, seenGen>>

\* /api/stop: the empty session (0) revokes whatever the mux holds.
ServeStop(m) ==
  /\ m.kind = "stop" /\ LockFree
  /\ session' = [session EXCEPT !.released = TRUE]
  /\ revoked' = revoked \union ({session.id} \ {0})
  /\ PublishSample(0, TRUE)
  /\ net' = net \ {m}
  /\ UNCHANGED <<padVars, sessions, accepted, intakeVars, seenGen>>

-----------------------------------------------------------------------------
(* The mux.                                                                 *)

Tombed(ids) ==
  LET all == tombs \o ids
  IN SubSeq(all, IF Len(all) > Tombstones THEN Len(all) - Tombstones + 1 ELSE 1, Len(all))

\* ManualIntake.offer().  The topic keeps its samples in order, so seq is always newer.
Deliver ==
  /\ topic # NoSample
  /\ topic' = NoSample
  /\ IF topic.id \in {tombs[i] : i \in DOMAIN tombs} THEN UNCHANGED intakeVars
     ELSE IF topic.revokes
     THEN /\ tombs' = Tombed(CASE topic.id # 0 -> <<topic.id>>
                               [] topic.id = 0 /\ mux.id # 0 -> <<mux.id>>
                               [] OTHER -> <<>>)
          /\ mux' = IF topic.id \in {0, mux.id} THEN NoCommand ELSE mux
     ELSE mux' = [id |-> topic.id, fresh |-> TRUE] /\ UNCHANGED tombs
  /\ UNCHANGED <<padVars, net, webVars, seenGen>>

\* valid_for_s after its receipt the command no longer counts.
CommandAges ==
  /\ mux.fresh
  /\ mux' = [mux EXCEPT !.fresh = FALSE]
  /\ UNCHANGED <<padVars, net, webVars, topic, tombs, seenGen>>

\* A lease of a new generation reaches the mux, which forgets what it holds.
MuxSeesGeneration ==
  /\ seenGen < MaxJogGen
  /\ seenGen' = seenGen + 1
  /\ mux' = NoCommand
  /\ UNCHANGED <<padVars, net, webVars, topic, tombs>>

JogNext ==
  \/ \E o \in Owners : HandDown(o) \/ HandUp(o) \/ StopKey(o)
  \/ \E m \in net : \/ Lost(m) \/ Answered(m) \/ ServePress(m) \/ ServeRefresh(m)
                    \/ ServeRelease(m) \/ ServeStop(m)
  \/ PublishRefresh \/ Deliver \/ CommandAges
  \/ MuxSeesGeneration

\* Only the mux's clock is relied on.
JogFairness == WF_jogVars(CommandAges)

JogSpec == JogInit /\ [][JogNext]_jogVars /\ JogFairness

-----------------------------------------------------------------------------
(* What select() may take: fresh, and of the lease's generation.            *)
Moves(o) == mux.fresh /\ sessions[mux.id] = [owner |-> o, gen |-> seenGen]

(* No command of a session that was released, stopped or ended by an        *)
(* emergency reaches the mux after the revocation, by whatever way it was    *)
(* delayed: the release can lose to no refresh.                             *)
NothingRevives ==
  [][mux'.fresh /\ mux'.id \in revoked' => mux' = mux]_jogVars

(* A hand that stays off the button moves nothing in the end, whichever      *)
(* requests were under way when it let go, arrived late or were lost.       *)
LetGoStops ==
  \A o \in Owners : <>[]~down[o] => <>[]~Moves(o)

(* A jog follows the hand on the button: it ends with it and does not return. *)
JogFollowsHand == NothingRevives /\ LetGoStops
=============================================================================
