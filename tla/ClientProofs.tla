---------------------------- MODULE ClientProofs ----------------------------
(***************************************************************************)
(* What is proved of Client for any capacity of Send, any number of pings  *)
(* and any round trip times.                                               *)
(***************************************************************************)
EXTENDS Client, SequenceTheorems, TLAPS

-----------------------------------------------------------------------------
(* The invariant.                                                          *)

(* What was sampled is a ping that was made and is not pending any more.   *)
SamplesFit ==
  \A i \in 1..Len(samples) :
    samples[i].ping <= pings /\ pending[samples[i].ping] = Never

(* A pending ping was made, and no later than now.                         *)
PendingFits ==
  \A p \in Ping : pending[p] # Never => p <= pings /\ pending[p] \in 0..now

IInv == TypeOK /\ SamplesFit /\ PendingFits /\ SampledOnce /\ EstimateIsBounded

LEMMA InitEstablishes == Init => IInv
<1> SUFFICES ASSUME Init PROVE IInv
  OBVIOUS
<1>1. TypeOK
  <2>1. send \in Seq(0..MaxPings) /\ samples \in Seq([ping : Ping, took : 0..MaxTime])
    BY EmptySeq DEF Init
  <2>2. Len(send) <= SendCap
    BY EmptySeq, ClientAssumption DEF Init
  <2>3. pending \in [Ping -> 0..MaxTime \cup {Never}]
    BY DEF Init
  <2>4. now \in 0..MaxTime /\ pings \in 0..MaxPings /\ rtt \in 0..MaxTime
    BY ClientAssumption DEF Init
  <2>5. /\ server = "serving" /\ hub = "running" /\ stage = "none" /\ writer = "off"
        /\ pinger = "off" /\ entry = "none" /\ arrived = {}
        /\ wire = FALSE /\ other = FALSE /\ open = TRUE /\ panic = FALSE
    BY DEF Init
  <2> QED
    BY <2>1, <2>2, <2>3, <2>4, <2>5 DEF TypeOK
<1> QED
  BY <1>1, EmptySeq DEF Init, IInv, SamplesFit, PendingFits, SampledOnce, EstimateIsBounded

-----------------------------------------------------------------------------
(* Send, and the estimate.                                                 *)

(* What is offered to Send is in it at most once more, or is dropped.      *)
LEMMA OfferedFits ==
  ASSUME send \in Seq(0..MaxPings), Len(send) <= SendCap, NEW msg \in 0..MaxPings
  PROVE  Offered(msg) \in Seq(0..MaxPings) /\ Len(Offered(msg)) <= SendCap
<1>1. Append(send, msg) \in Seq(0..MaxPings) /\ Len(Append(send, msg)) = Len(send) + 1
  BY AppendProperties
<1>2. Len(send) \in Nat /\ SendCap \in Nat
  BY LenProperties, ClientAssumption
<1>3. CASE Len(send) < SendCap
  <2>1. Offered(msg) = Append(send, msg)
    BY <1>3 DEF Offered
  <2>2. Len(Append(send, msg)) <= SendCap
    BY <1>1, <1>2, <1>3
  <2> QED
    BY <1>1, <2>1, <2>2
<1>4. CASE ~(Len(send) < SendCap)
  BY <1>4 DEF Offered
<1> QED
  BY <1>3, <1>4

LEMMA RestFits ==
  ASSUME send \in Seq(0..MaxPings), Len(send) <= SendCap, send # <<>>
  PROVE  /\ Tail(send) \in Seq(0..MaxPings) /\ Len(Tail(send)) <= SendCap
         /\ Head(send) \in 0..MaxPings
BY HeadTailProperties, LenProperties, ClientAssumption

(* The new estimate is no more than the greater of the sample and the old  *)
(* one, and one below the lesser of them only if rounding has it so.       *)
LEMMA BlendIsBetween ==
  ASSUME NEW sample \in Nat, NEW r \in Nat, NEW e \in Blend(sample, r)
  PROVE  /\ e \in Nat
         /\ e <= sample \/ e <= r
         /\ \A m \in Nat : m - 1 <= r => sample - 1 <= e \/ m - 1 <= e
<1>1. e \in Nat /\ 10 * e <= 3 * sample + 7 * r /\ 3 * sample + 7 * r <= 10 * e + 10
  BY DEF Blend
<1>2. e <= sample \/ e <= r
  BY <1>1
<1>3. \A m \in Nat : m - 1 <= r => sample - 1 <= e \/ m - 1 <= e
  BY <1>1
<1> QED
  BY <1>1, <1>2, <1>3

-----------------------------------------------------------------------------
(* Steps that leave the round trips alone.                                 *)

LEMMA SampleType ==
  ASSUME TypeOK
  PROVE  /\ Len(samples) \in Nat
         /\ \A i \in 1..Len(samples) :
              samples[i].ping \in Ping /\ samples[i].took \in 0..MaxTime
<1>1. samples \in Seq([ping : Ping, took : 0..MaxTime])
  BY DEF TypeOK
<1>2. \A i \in 1..Len(samples) : samples[i] \in [ping : Ping, took : 0..MaxTime]
  BY <1>1, ElementOfSeq
<1> QED
  BY <1>1, <1>2, LenProperties

LEMMA TripKept ==
  ASSUME IInv, TypeOK', UNCHANGED <<pings, pending, rtt, samples>>, now' \in {now, now + 1}
  PROVE  IInv'
<1>1. now \in Nat /\ \A q \in Ping : pending[q] \in 0..now => pending[q] \in 0..now'
  BY ClientAssumption DEF IInv, TypeOK
<1>2. PendingFits'
  BY <1>1 DEF IInv, PendingFits
<1> QED
  BY <1>2 DEF IInv, SamplesFit, SampledOnce, EstimateIsBounded

LEMMA ReaderKeepsTypes ==
  ASSUME TypeOK,
         Ask \/ Accept \/ Register \/ ReaderStops \/ Unregister \/ HandlerReturns
  PROVE  TypeOK' /\ UNCHANGED <<pings, pending, rtt, samples>> /\ now' \in {now, now + 1}
<1>1. UNCHANGED <<send, now, pings, pending, arrived, rtt, samples>>
  BY DEF Ask, Accept, Register, ReaderStops, Unregister, HandlerReturns, trip
<1>2. CASE Ask \/ Accept
  BY <1>1, <1>2 DEF Ask, Accept, TypeOK, shared
<1>3. CASE Register \/ ReaderStops
  BY <1>1, <1>3 DEF Register, ReaderStops, TypeOK, shared
<1>4. CASE Unregister \/ HandlerReturns
  BY <1>1, <1>4 DEF Unregister, HandlerReturns, TypeOK, shared
<1> QED
  BY <1>1, <1>2, <1>3, <1>4

LEMMA AroundKeepsTypes ==
  ASSUME TypeOK,
         \/ WriterStops \/ PingerStops \/ WireBreaks \/ OtherJoins \/ OtherLeaves
         \/ Signal \/ HubReturns \/ Exit
  PROVE  TypeOK' /\ UNCHANGED <<pings, pending, rtt, samples>> /\ now' \in {now, now + 1}
<1>1. UNCHANGED <<send, now, pings, pending, arrived, rtt, samples>>
  BY DEF WriterStops, PingerStops, WireBreaks, OtherJoins, OtherLeaves, Signal, HubReturns,
       Exit, trip
<1>2. CASE WriterStops \/ PingerStops \/ WireBreaks
  BY <1>1, <1>2 DEF WriterStops, PingerStops, WireBreaks, TypeOK, shared
<1>3. CASE OtherJoins \/ OtherLeaves
  BY <1>1, <1>3 DEF OtherJoins, OtherLeaves, TypeOK, life
<1>4. CASE Signal \/ HubReturns \/ Exit
  BY <1>1, <1>4 DEF Signal, HubReturns, Exit, TypeOK, shared
<1> QED
  BY <1>1, <1>2, <1>3, <1>4

LEMMA TrafficKeepsTypes ==
  ASSUME TypeOK, OtherTraffic \/ Write \/ Tick
  PROVE  TypeOK' /\ UNCHANGED <<pings, pending, rtt, samples>> /\ now' \in {now, now + 1}
<1>1. CASE OtherTraffic
  <2>1. Offered(0) \in Seq(0..MaxPings) /\ Len(Offered(0)) <= SendCap
    BY OfferedFits, ClientAssumption DEF TypeOK
  <2> QED
    BY <1>1, <2>1 DEF OtherTraffic, TypeOK, life, shared, trip
<1>2. CASE Write
  <2>1. /\ Tail(send) \in Seq(0..MaxPings) /\ Len(Tail(send)) <= SendCap
        /\ Head(send) \in 0..MaxPings
    BY <1>2, RestFits DEF Write, TypeOK
  <2>2. arrived' \subseteq Ping
    <3>1. {Head(send)} \ {0} \subseteq Ping
      BY <2>1, ClientAssumption DEF Ping
    <3>2. arrived' = arrived \cup ({Head(send)} \ {0}) \/ arrived' = arrived
      BY <1>2 DEF Write
    <3> QED
      BY <3>1, <3>2 DEF TypeOK
  <2>3. send' = Tail(send) /\ wire' \in BOOLEAN /\ writer' \in {"off", "running", "stopped"}
    BY <1>2 DEF Write, TypeOK
  <2>4. UNCHANGED <<server, hub, stage, pinger, entry, other, open, panic, now, pings, pending,
                    rtt, samples>>
    BY <1>2 DEF Write, shared
  <2> QED
    BY <2>1, <2>2, <2>3, <2>4 DEF TypeOK
<1>3. CASE Tick
  <2>1. now' \in 0..MaxTime
    BY <1>3, ClientAssumption DEF Tick, TypeOK
  <2> QED
    BY <1>3, <2>1 DEF Tick, TypeOK, life, shared
<1> QED
  BY <1>1, <1>2, <1>3

-----------------------------------------------------------------------------
(* Pings and pongs.                                                        *)

(* The new ping is not one that was sampled.                               *)
LEMMA MakePingKeeps == ASSUME IInv, MakePing PROVE IInv'
<1> USE DEF IInv
<1>1. pings \in 0..MaxPings /\ pings + 1 \in Ping /\ now \in 0..MaxTime
  BY ClientAssumption DEF MakePing, TypeOK, Ping
<1>2. TypeOK'
  <2>1. pending' \in [Ping -> 0..MaxTime \cup {Never}] /\ pings' \in 0..MaxPings
    BY <1>1 DEF MakePing, TypeOK, Ping
  <2>2. /\ send' \in Seq(0..MaxPings) /\ Len(send') <= SendCap
        /\ panic' \in BOOLEAN
    <3>1. pings + 1 \in 0..MaxPings
      BY <1>1 DEF Ping
    <3>2. CASE open
      BY <3>1, <3>2, OfferedFits DEF MakePing, TypeOK
    <3>3. CASE ~open
      BY <3>3 DEF MakePing, TypeOK
    <3> QED
      BY <3>2, <3>3
  <2> QED
    BY <2>1, <2>2 DEF MakePing, TypeOK, life
<1>3. SamplesFit'
  <2> SUFFICES ASSUME NEW i \in 1..Len(samples)
               PROVE  samples[i].ping <= pings' /\ pending'[samples[i].ping] = Never
    BY DEF MakePing, SamplesFit
  <2>1. samples[i].ping <= pings /\ pending[samples[i].ping] = Never /\ samples[i].ping \in Ping
    BY SampleType DEF SamplesFit
  <2> QED
    BY <1>1, <2>1 DEF MakePing, TypeOK, Ping
<1>4. PendingFits'
  <2>1. 0..now \subseteq Nat /\ now \in 0..now /\ now # Never
    BY <1>1, ClientAssumption DEF Never
  <2> QED
    BY <1>1, <2>1 DEF MakePing, TypeOK, Ping, PendingFits
<1>5. SampledOnce' /\ EstimateIsBounded'
  BY DEF MakePing, SampledOnce, EstimateIsBounded
<1> QED
  BY <1>2, <1>3, <1>4, <1>5

(* A pong is of a ping that was never sampled, and what it adds is what    *)
(* the ping took.                                                          *)
LEMMA PongKeeps == ASSUME IInv, NEW p \in Ping, Pong(p) PROVE IInv'
<1> DEFINE took == now - pending[p]
           sample == [ping |-> p, took |-> took]
<1> USE DEF IInv
<1>1. /\ pending \in [Ping -> 0..MaxTime \cup {Never}] /\ pending[p] # Never
      /\ now \in 0..MaxTime /\ rtt \in 0..MaxTime
      /\ samples \in Seq([ping : Ping, took : 0..MaxTime])
      /\ pending' = [pending EXCEPT ![p] = Never]
      /\ samples' = Append(samples, sample)
      /\ rtt' \in IF rtt = 0 THEN {took} ELSE Blend(took, rtt)
      /\ UNCHANGED <<life, shared, send, now, pings, arrived>>
  BY DEF Pong, TypeOK, Answer
<1>2. took \in 0..MaxTime /\ p <= pings
  <2>1. p <= pings /\ pending[p] \in 0..now
    BY <1>1 DEF PendingFits
  <2> QED
    BY <1>1, <2>1, ClientAssumption
<1>3. sample \in [ping : Ping, took : 0..MaxTime] /\ sample.ping = p /\ sample.took = took
  BY <1>2
<1> HIDE DEF sample, took
<1>4. /\ samples' \in Seq([ping : Ping, took : 0..MaxTime])
      /\ Len(samples') = Len(samples) + 1 /\ Len(samples) \in Nat
      /\ \A i \in 1..Len(samples) : samples'[i] = samples[i]
      /\ samples'[Len(samples) + 1] = sample
      /\ samples' # <<>>
  BY <1>1, <1>3, AppendProperties, LenProperties
<1>5. \A i \in 1..Len(samples') : i = Len(samples) + 1 \/ i \in 1..Len(samples)
  BY <1>4
<1>6. /\ rtt' \in Nat
      /\ rtt' <= took \/ (rtt > 0 /\ rtt' <= rtt)
      /\ \/ took - 1 <= rtt'
         \/ rtt > 0 /\ \A m \in Nat : m - 1 <= rtt => m - 1 <= rtt'
  <2>1. took \in Nat /\ rtt \in Nat
    BY <1>1, <1>2, ClientAssumption
  <2>2. CASE rtt = 0
    BY <1>1, <2>1, <2>2
  <2>3. CASE rtt # 0
    <3>1. rtt' \in Blend(took, rtt)
      BY <1>1, <2>3
    <3>2. /\ rtt' \in Nat
          /\ rtt' <= took \/ rtt' <= rtt
          /\ \A m \in Nat : m - 1 <= rtt => took - 1 <= rtt' \/ m - 1 <= rtt'
      BY <2>1, <3>1, BlendIsBetween
    <3> QED
      BY <2>1, <2>3, <3>2
  <2> QED
    BY <2>2, <2>3
<1>7. TypeOK'
  <2>1. rtt' \in 0..MaxTime
    BY <1>1, <1>2, <1>6, ClientAssumption
  <2> QED
    BY <1>1, <1>4, <2>1 DEF TypeOK, life, shared
<1>8. SamplesFit'
  <2> SUFFICES ASSUME NEW i \in 1..Len(samples')
               PROVE  samples'[i].ping <= pings /\ pending'[samples'[i].ping] = Never
    BY <1>1 DEF SamplesFit
  <2>1. CASE i = Len(samples) + 1
    BY <1>1, <1>2, <1>3, <1>4, <2>1
  <2>2. CASE i \in 1..Len(samples)
    BY <1>1, <1>4, <2>2, SampleType DEF SamplesFit
  <2> QED
    BY <1>5, <2>1, <2>2
<1>9. SampledOnce'
  <2>1. \A i \in 1..Len(samples) : samples[i].ping # p
    BY <1>1 DEF SamplesFit
  <2> QED
    BY <1>3, <1>4, <1>5, <2>1 DEF SampledOnce
<1>10. PendingFits'
  BY <1>1 DEF PendingFits, Never
<1>11. EstimateIsBounded'
  <2>1. \E i \in 1..Len(samples') : rtt' <= samples'[i].took
    <3>1. CASE rtt' <= took
      BY <1>3, <1>4, <3>1
    <3>2. CASE rtt > 0 /\ rtt' <= rtt
      <4>1. PICK i \in 1..Len(samples) : rtt <= samples[i].took
        BY <3>2 DEF EstimateIsBounded
      <4>2. samples[i].took \in Nat /\ samples'[i] = samples[i] /\ i \in 1..Len(samples')
        BY <1>4, <4>1, SampleType, ClientAssumption
      <4>3. rtt' <= samples'[i].took
        BY <1>1, <1>6, <3>2, <4>1, <4>2
      <4> QED
        BY <4>2, <4>3
    <3> QED
      BY <1>6, <3>1, <3>2
  <2>2. \E i \in 1..Len(samples') : samples'[i].took - 1 <= rtt'
    <3>1. CASE took - 1 <= rtt'
      BY <1>3, <1>4, <3>1
    <3>2. CASE rtt > 0 /\ \A m \in Nat : m - 1 <= rtt => m - 1 <= rtt'
      <4>1. PICK i \in 1..Len(samples) : samples[i].took - 1 <= rtt
        BY <3>2 DEF EstimateIsBounded
      <4>2. samples[i].took \in Nat /\ samples'[i] = samples[i] /\ i \in 1..Len(samples')
        BY <1>4, <4>1, SampleType, ClientAssumption
      <4> QED
        BY <3>2, <4>1, <4>2
    <3> QED
      BY <1>6, <3>1, <3>2
  <2> QED
    BY <1>4, <2>1, <2>2 DEF EstimateIsBounded
<1> QED
  BY <1>7, <1>8, <1>9, <1>10, <1>11

LEMMA NextPreserves == IInv /\ [Next]_vars => IInv'
<1> SUFFICES ASSUME IInv, [Next]_vars PROVE IInv'
  OBVIOUS
<1>1. CASE Ask \/ Accept \/ Register \/ ReaderStops \/ Unregister \/ HandlerReturns
  BY <1>1, ReaderKeepsTypes, TripKept DEF IInv
<1>2. CASE \/ WriterStops \/ PingerStops \/ WireBreaks \/ OtherJoins \/ OtherLeaves
           \/ Signal \/ HubReturns \/ Exit
  BY <1>2, AroundKeepsTypes, TripKept DEF IInv
<1>3. CASE OtherTraffic \/ Write \/ Tick
  BY <1>3, TrafficKeepsTypes, TripKept DEF IInv
<1>4. CASE MakePing
  BY <1>4, MakePingKeeps
<1>5. ASSUME NEW p \in Ping, Pong(p) PROVE IInv'
  BY <1>5, PongKeeps
<1>6. CASE UNCHANGED vars
  <2>1. TypeOK' /\ UNCHANGED <<now, pings, pending, rtt, samples>>
    BY <1>6 DEF vars, life, shared, trip, IInv, TypeOK
  <2> QED
    BY <2>1, TripKept
<1> QED
  BY <1>1, <1>2, <1>3, <1>4, <1>5, <1>6 DEF Next, Step

-----------------------------------------------------------------------------
(* The theorems.                                                           *)

(* The invariant holds of every behaviour of a connection.                 *)
THEOREM Invariance == Spec => []IInv
BY InitEstablishes, NextPreserves, PTL DEF Spec

(* Send never holds more than its capacity, and the rest have their types. *)
THEOREM TypeCorrect == Spec => []TypeOK
<1>1. IInv => TypeOK
  BY DEF IInv
<1> QED
  BY <1>1, Invariance, PTL

(* No ping is a sample twice, whatever the app answers and when.           *)
THEOREM NoPingIsSampledTwice == Spec => []SampledOnce
<1>1. IInv => SampledOnce
  BY DEF IInv
<1> QED
  BY <1>1, Invariance, PTL

(* However often the estimate is rounded, it stays between the shortest    *)
(* round trip less one and the longest.                                    *)
THEOREM EstimateStaysBetween == Spec => []EstimateIsBounded
<1>1. IInv => EstimateIsBounded
  BY DEF IInv
<1> QED
  BY <1>1, Invariance, PTL

=============================================================================
