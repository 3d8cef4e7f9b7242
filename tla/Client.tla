------------------------------- MODULE Client -------------------------------
(***************************************************************************)
(* One websocket connection from the HTTP request to the end of its three  *)
(* goroutines: HandleWebSocket, readPump, writePump, pingLoop, with the    *)
(* round trips that pings measure, another connection of the same user,    *)
(* and the shutdown of the server around them.                             *)
(***************************************************************************)
EXTENDS Integers, Sequences

CONSTANTS
  SendCap,   \* capacity of Send
  MaxPings,  \* bound: pings sent by this connection
  MaxTime    \* bound: how far the clock goes

ASSUME ClientAssumption == SendCap \in Nat \ {0} /\ MaxPings \in Nat /\ MaxTime \in Nat

Ping == 1..MaxPings     \* ping IDs; 0 is any other message
Never == -1             \* not a key of pendingPings

VARIABLES
  server,     \* main: serving, stopping after a signal, or exited
  hub,        \* Hub.Run: running or returned
  stage,      \* where HandleWebSocket is
  wire,       \* is the websocket open?
  writer,     \* writePump
  pinger,     \* pingLoop
  entry,      \* whose is the user's entry in h.clients?
  other,      \* does the user have another connection?
  open,       \* is Send not closed?
  send,       \* what is in Send
  panic,      \* did a goroutine panic?
  now,        \* the clock
  pings,      \* pings made so far
  pending,    \* pendingPings: when each unanswered ping was made
  arrived,    \* the pings that the app has received
  rtt,        \* Client.rtt; 0 before the first sample
  samples     \* history: the samples, each with the ping it is of

life == <<server, hub, stage, wire, writer, pinger>>
shared == <<entry, other, open, panic>>
trip == <<now, pings, pending, arrived, rtt, samples>>
vars == <<life, shared, send, trip>>

-----------------------------------------------------------------------------
(* Slips a maintainer could make, variants of the definitions below.       *)

Offered_Always(msg) == Append(send, msg)
Answer_Kept(p) == pending
Blend_NoDecay(sample, r) == {(3 * sample) \div 10 + r}
WriterDone_OnlyClosed == ~open /\ send = <<>>
Waited_Websockets == stage \notin {"none", "gone"}

-----------------------------------------------------------------------------
(* The handler and readPump.                                               *)

Ask ==
  /\ stage = "none" /\ server = "serving"
  /\ stage' = "asking"
  /\ UNCHANGED <<server, hub, wire, writer, pinger, shared, send, trip>>

(* The user is looked up; the connection is refused or becomes a websocket. *)
Accept ==
  /\ stage = "asking"
  /\ \/ stage' = "accepted" /\ wire' = TRUE
     \/ stage' = "gone" /\ UNCHANGED wire
  /\ UNCHANGED <<server, hub, writer, pinger, shared, send, trip>>

(* The hub receives what the handler sends it, and the pumps start.        *)
Register ==
  /\ stage = "accepted" /\ hub = "running"
  /\ stage' = "reading" /\ writer' = "running" /\ pinger' = "running"
  /\ entry' = "mine"
  /\ UNCHANGED <<server, hub, wire, other, open, panic, send, trip>>

ReaderStops ==
  /\ stage = "reading" /\ ~wire
  /\ stage' = "leaving"
  /\ UNCHANGED <<server, hub, wire, writer, pinger, shared, send, trip>>

(* Without an entry of the user, whosever, the channels stay open.         *)
Unregister ==
  /\ stage = "leaving" /\ hub = "running"
  /\ stage' = "closing"
  /\ entry' = "none" /\ open' = (open /\ entry = "none")
  /\ UNCHANGED <<server, hub, wire, writer, pinger, other, panic, send, trip>>

HandlerReturns ==
  /\ stage = "closing"
  /\ stage' = "gone" /\ wire' = FALSE
  /\ UNCHANGED <<server, hub, writer, pinger, shared, send, trip>>

-----------------------------------------------------------------------------
(* writePump, and what else is sent.                                       *)

Offered(msg) == IF Len(send) < SendCap THEN Append(send, msg) ELSE send

(* Presence, sent by the hub to the user's entry.                          *)
OtherTraffic ==
  /\ entry = "mine"
  /\ send' = Offered(0)
  /\ UNCHANGED <<life, shared, trip>>

(* A message is written, or fails, within writeTimeout.                    *)
Write ==
  /\ writer = "running" /\ send # <<>>
  /\ send' = Tail(send)
  /\ \/ wire /\ arrived' = arrived \cup ({Head(send)} \ {0}) /\ UNCHANGED <<wire, writer>>
     \/ wire' = FALSE /\ writer' = "stopped" /\ UNCHANGED arrived
  /\ UNCHANGED <<server, hub, stage, pinger, shared, now, pings, pending, rtt, samples>>

(* Send is closed and drained, or r.Context() done.                        *)
WriterDone == (~open /\ send = <<>>) \/ stage = "gone"

WriterStops ==
  /\ writer = "running" /\ WriterDone
  /\ writer' = "stopped" /\ wire' = FALSE
  /\ UNCHANGED <<server, hub, stage, pinger, shared, send, trip>>

-----------------------------------------------------------------------------
(* Round trips.                                                            *)

(* The ticker: the ping is pending even if Send has no room for it, and    *)
(* its send panics if the hub has closed Send.                             *)
MakePing ==
  /\ pinger = "running" /\ pings < MaxPings
  /\ pings' = pings + 1
  /\ pending' = [pending EXCEPT ![pings + 1] = now]
  /\ IF open THEN send' = Offered(pings + 1) /\ UNCHANGED panic
             ELSE panic' = TRUE /\ UNCHANGED send
  /\ UNCHANGED <<life, entry, other, open, now, arrived, rtt, samples>>

PingerStops ==
  /\ pinger = "running" /\ stage = "gone"
  /\ pinger' = "stopped"
  /\ UNCHANGED <<server, hub, stage, wire, writer, shared, send, trip>>

(* 0.3 * sample + 0.7 * rtt in floating point, truncated: what is a whole  *)
(* number may come out just below it.                                      *)
Blend(sample, r) ==
  {e \in 0..(sample + r) : 10 * e <= 3 * sample + 7 * r /\ 3 * sample + 7 * r <= 10 * e + 10}

Answer(p) == [pending EXCEPT ![p] = Never]

(* handlePong: an ID that is not pending, as of a ping that was answered   *)
(* before, changes nothing.                                                *)
Pong(p) ==
  /\ stage = "reading" /\ wire /\ p \in arrived
  /\ pending[p] # Never
  /\ LET sample == now - pending[p]
     IN /\ rtt' \in IF rtt = 0 THEN {sample} ELSE Blend(sample, rtt)
        /\ samples' = Append(samples, [ping |-> p, took |-> sample])
  /\ pending' = Answer(p)
  /\ UNCHANGED <<life, shared, send, now, pings, arrived>>

Tick ==
  /\ now < MaxTime
  /\ now' = now + 1
  /\ UNCHANGED <<life, shared, send, pings, pending, arrived, rtt, samples>>

-----------------------------------------------------------------------------
(* Around the connection.                                                  *)

(* The app closes, or the network fails.                                   *)
WireBreaks ==
  /\ stage \in {"accepted", "reading", "leaving"} /\ wire
  /\ wire' = FALSE
  /\ UNCHANGED <<server, hub, stage, writer, pinger, shared, send, trip>>

(* The user's other connection, before this one or after it: whichever     *)
(* leaves takes the entry with it.                                         *)
OtherJoins ==
  /\ hub = "running" /\ ~other
  /\ other' = TRUE /\ entry' = "other"
  /\ UNCHANGED <<life, open, panic, send, trip>>

OtherLeaves ==
  /\ hub = "running" /\ other
  /\ other' = FALSE /\ entry' = "none"
  /\ UNCHANGED <<life, open, panic, send, trip>>

(* A signal cancels main's context, ...                                    *)
Signal ==
  /\ server = "serving"
  /\ server' = "stopping"
  /\ UNCHANGED <<hub, stage, wire, writer, pinger, shared, send, trip>>

(* ... at which Hub.Run returns, be there senders or not, ...              *)
HubReturns ==
  /\ server = "stopping" /\ hub = "running"
  /\ hub' = "returned"
  /\ UNCHANGED <<server, stage, wire, writer, pinger, shared, send, trip>>

(* ... and Shutdown waits for the handlers whose connection is still HTTP: *)
(* then main returns, whoever is blocked.                                  *)
Waited == stage = "asking"

Exit ==
  /\ server = "stopping" /\ ~Waited
  /\ server' = "exited"
  /\ UNCHANGED <<hub, stage, wire, writer, pinger, shared, send, trip>>

-----------------------------------------------------------------------------

Init ==
  /\ server = "serving" /\ hub = "running"
  /\ stage = "none" /\ wire = FALSE /\ writer = "off" /\ pinger = "off"
  /\ entry = "none" /\ other = FALSE /\ open = TRUE /\ panic = FALSE
  /\ send = <<>>
  /\ now = 0 /\ pings = 0 /\ rtt = 0
  /\ pending = [p \in Ping |-> Never]
  /\ arrived = {} /\ samples = <<>>

Step ==
  \/ Ask \/ Accept \/ Register \/ ReaderStops \/ Unregister \/ HandlerReturns
  \/ OtherTraffic \/ Write \/ WriterStops \/ MakePing \/ PingerStops
  \/ \E p \in Ping : Pong(p)
  \/ Tick \/ WireBreaks \/ OtherJoins \/ OtherLeaves \/ Signal \/ HubReturns \/ Exit

(* A process that has panicked or exited does nothing, and one that stops  *)
(* may be left with nothing but to wait.                                   *)
Alive == server # "exited" /\ ~panic
Rest == ~Alive \/ server = "stopping"

Next == (Alive /\ Step) \/ (Rest /\ UNCHANGED vars)

Spec == Init /\ [][Next]_vars

(* Goroutines go on when they can: the database answers, writes time out,  *)
(* the hub's select passes nobody over for ever.                           *)
Fairness ==
  /\ WF_vars(Alive /\ Accept) /\ WF_vars(Alive /\ ReaderStops)
  /\ WF_vars(Alive /\ Unregister) /\ WF_vars(Alive /\ HandlerReturns)
  /\ WF_vars(Alive /\ Write) /\ WF_vars(Alive /\ WriterStops)
  /\ WF_vars(Alive /\ PingerStops) /\ WF_vars(Alive /\ Exit)

FairSpec == Spec /\ Fairness

-----------------------------------------------------------------------------
(* Properties.                                                             *)

TypeOK ==
  /\ server \in {"serving", "stopping", "exited"} /\ hub \in {"running", "returned"}
  /\ stage \in {"none", "asking", "accepted", "reading", "leaving", "closing", "gone"}
  /\ writer \in {"off", "running", "stopped"} /\ pinger \in {"off", "running", "stopped"}
  /\ entry \in {"none", "mine", "other"}
  /\ wire \in BOOLEAN /\ other \in BOOLEAN /\ open \in BOOLEAN /\ panic \in BOOLEAN
  /\ send \in Seq(0..MaxPings) /\ Len(send) <= SendCap
  /\ now \in 0..MaxTime /\ pings \in 0..MaxPings
  /\ pending \in [Ping -> 0..MaxTime \cup {Never}]
  /\ arrived \subseteq Ping
  /\ rtt \in 0..MaxTime
  /\ samples \in Seq([ping : Ping, took : 0..MaxTime])

(* However often and in whatever order the app answers pings, dropped and  *)
(* late ones among them, each is a sample once at most.                    *)
SampledOnce ==
  \A i, j \in 1..Len(samples) : i # j => samples[i].ping # samples[j].ping

(* The estimate is between the shortest round trip that was measured, less *)
(* what truncation may lose once, and the longest.                         *)
EstimateIsBounded ==
  /\ rtt > 0 => samples # <<>>
  /\ samples # <<>> =>
       /\ \E i \in 1..Len(samples) : samples[i].took - 1 <= rtt
       /\ \E i \in 1..Len(samples) : rtt <= samples[i].took

(* A connection that has begun to leave is let go and its pumps stop, even *)
(* if a newer connection took its entry and nobody closes its channels,    *)
(* unless the process ends first.                                          *)
NothingLeaks ==
  stage = "leaving" ~>
    panic \/ server = "exited" \/ (stage = "gone" /\ writer = "stopped" /\ pinger = "stopped")

(* A server that is told to stop does, though a handler may be blocked on  *)
(* a hub that does not receive any more.                                   *)
ShutdownEnds == server = "stopping" ~> panic \/ server = "exited"

=============================================================================
