----------------------------- MODULE CosimProofs ------------------------------
(***************************************************************************)
(* What crosses the bridge, for any set of inputs, any number of time steps   *)
(* and rounds, and whatever the client does.  The argument follows a round    *)
(* through the connection: its updates are in toServer or collected, nothing  *)
(* but updates comes before its end, and no update behind it.                *)
(***************************************************************************)
EXTENDS Cosim, SequenceTheorems, TLAPS

Kind(i) == toServer[i].kind
Ends == {"Sync", "Disconnect"}

\* A round has been acknowledged and the server has not seen its end.
Talking == server = "updates" \/ (server = "ack" /\ toServer # <<>> /\ Kind(1) = "SyncAck")

\* The rounds of the client.
Played ==
  /\ \A r \in 1..MaxRounds : r > round => sent[r] = {} /\ r \notin ended
  /\ client = "answering" => round > 0 /\ round \notin ended
  /\ Talking => round > 0

\* The times of the outputs and Syncs on their way.
InTime ==
  /\ current_time <= time
  /\ outgoing # NoOutputs => outgoing <= current_time
  /\ \A i \in Told("SignalUpdate") : outgoing # NoOutputs /\ toClient[i].of <= outgoing
  /\ \A i \in Told("Sync") : toClient[i].of <= current_time

\* What may be on its way to the server, where.
Arriving(i) ==
  /\ Kind(i) = "Connect" => server = "connect" /\ i = 1
  /\ Kind(i) = "SyncAck" => server = "ack" /\ i = 1
  /\ Kind(i) = "SignalUpdate" => Talking /\ toServer[i].of = round
  /\ Kind(i) = "Sync" => Talking
  /\ Kind(i) = "Disconnect" => client = "gone"
  /\ Kind(i) \in Ends => client # "answering" /\ (Talking => round \in ended)

Lockstep ==
  server # "stopped" =>
    /\ \A i \in 1..Len(toServer) : Arriving(i)
    /\ \A i, j \in 1..Len(toServer) : i < j /\ Kind(i) \in Ends => Kind(j) = "Disconnect"
    /\ client = "out" => server = "connect" /\ toServer = <<>>
    /\ client = "answering" => Talking
    /\ Told("Sync") # {} => server = "ack" /\ ~Talking
    /\ \A i, j \in Told("Sync") : i = j

\* The updates of the round are collected or on their way.
OnTheirWay(s) == \E i \in 1..Len(toServer) : Kind(i) = "SignalUpdate" /\ toServer[i].signal = s
Has(U, s) == \E u \in U : u.signal = s
Coming ==
  /\ server = "updates" => \A u \in collected : u.of = round
  /\ Talking => \A s \in sent[round] : OnTheirWay(s) \/ (server = "updates" /\ Has(collected, s))

\* Rounds are stored whole, and newer ones over older ones.
Stored ==
  /\ \A u, v \in incoming : u.of = v.of
  /\ \A u \in incoming : u.of \in ended /\ u.of <= round /\ \A s \in sent[u.of] : Has(incoming, s)
  /\ \A s \in Input : inputs[s] <= round /\ \A u \in incoming : inputs[s] <= u.of

Fresh == ~data_ready => incoming = {}

\* TypeOK in two: no prover takes Booleans and arithmetic in one step.
Flags == data_ready \in BOOLEAN /\ overrun \in BOOLEAN
Typed ==
  /\ time \in Times /\ current_time \in Times /\ outgoing \in Times \cup {NoOutputs}
  /\ inputs \in [Input -> Rounds] /\ stored \in [Input -> Rounds]
  /\ incoming \subseteq Updates /\ collected \subseteq Updates
  /\ server \in {"connect", "outputs", "sync", "ack", "updates", "stopped"}
  /\ toServer \in Seq(FromClient) /\ toClient \in Seq(FromServer)
  /\ client \in {"out", "waiting", "answering", "gone"} /\ round \in Rounds
  /\ sent \in [1..MaxRounds -> SUBSET Input] /\ ended \subseteq 1..MaxRounds
  /\ \A u, v \in collected : u.of = v.of

IInv ==
  /\ Flags /\ Typed /\ Played /\ InTime /\ Lockstep /\ Coming /\ Stored /\ Fresh
  /\ NothingDropped /\ WholeRounds /\ OutputsInTime
-----------------------------------------------------------------------------
LEMMA InitIInv == Init => IInv
<1> SUFFICES ASSUME Init PROVE IInv
  OBVIOUS
<1>1. Typed
  BY CosimAssumption DEF Init, Typed, Times, Rounds, NoOutputs
<1>2. Played /\ Coming
  BY CosimAssumption DEF Init, Played, Coming, Talking
<1>4. InTime /\ Lockstep
  BY CosimAssumption DEF Init, InTime, Lockstep, Talking, Told
<1>5. Stored
  BY CosimAssumption DEF Init, Stored
<1>3. WholeRounds /\ OutputsInTime
  BY CosimAssumption DEF Init, WholeRounds, OutputsInTime, Told
<1>6. Flags /\ Fresh
  BY DEF Init, Flags, Fresh
<1>7. NothingDropped
  <2>1. \A s \in Input : stored[s] = Newest(incoming, s, inputs[s])
    BY DEF Init, Newest
  <2> QED BY <2>1 DEF NothingDropped
<1> QED BY <1>1, <1>2, <1>3, <1>4, <1>5, <1>6, <1>7 DEF IInv

LEMMA Kinds ==
  /\ \A m \in FromClient : m.kind \in {"Connect", "SyncAck", "Sync", "Disconnect", "SignalUpdate"}
  /\ \A m \in FromClient : m.kind = "SignalUpdate" => m \in Updates /\ m.signal \in Input /\ m.of \in Rounds
  /\ \A k \in {"Connect", "SyncAck", "Sync", "Disconnect"} : Message(k, 0) \in FromClient /\ Message(k, 0).kind = k
  /\ \A k \in {"ConnectAck", "Error"} : Message(k, 0) \in FromServer /\ Message(k, 0).kind = k
  /\ \A k \in {"SignalUpdate", "Sync"}, t \in Times :
       Message(k, t) \in FromServer /\ Message(k, t).kind = k /\ Message(k, t).of = t
  /\ \A m \in FromServer : m.kind \in {"SignalUpdate", "Sync"} => m.of \in Times
<1>1. /\ \A m \in FromClient : m.kind \in {"Connect", "SyncAck", "Sync", "Disconnect", "SignalUpdate"}
      /\ \A m \in FromClient : m.kind = "SignalUpdate" => m \in Updates /\ m.signal \in Input /\ m.of \in Rounds
  BY DEF FromClient, Updates, Message
<1>2. \A k \in {"Connect", "SyncAck", "Sync", "Disconnect"} : Message(k, 0) \in FromClient /\ Message(k, 0).kind = k
  BY DEF FromClient, Message
<1>3. \A k \in {"ConnectAck", "Error"} : Message(k, 0) \in FromServer /\ Message(k, 0).kind = k
  BY DEF FromServer, Message
<1>4. \A k \in {"SignalUpdate", "Sync"}, t \in Times :
        Message(k, t) \in FromServer /\ Message(k, t).kind = k /\ Message(k, t).of = t
  BY DEF FromServer, Message
<1>5. \A m \in FromServer : m.kind \in {"SignalUpdate", "Sync"} => m.of \in Times
  BY DEF FromServer, Message
<1> QED BY <1>1, <1>2, <1>3, <1>4, <1>5

\* The newest value of a signal in the updates of one round.
LEMMA NewestFacts ==
  ASSUME NEW U, \A u, v \in U : u.of = v.of, NEW s, NEW old
  PROVE  /\ \A u \in U : u.signal = s => Newest(U, s, old) = u.of
         /\ ~Has(U, s) => Newest(U, s, old) = old
         /\ Has(U, s) => \E u \in U : u.signal = s /\ Newest(U, s, old) = u.of
  BY DEF Newest, Has

LEMMA TypeFacts ==
  ASSUME Typed
  PROVE  /\ time \in Nat /\ current_time \in Nat /\ outgoing \in Nat /\ round \in Nat /\ round <= MaxRounds
         /\ MaxTime \in Nat /\ MaxRounds \in Nat
         /\ toServer \in Seq(FromClient) /\ toClient \in Seq(FromServer)
         /\ \A i \in 1..Len(toServer) : toServer[i] \in FromClient
         /\ \A i \in 1..Len(toClient) : toClient[i] \in FromServer
         /\ \A s \in Input : inputs[s] \in Nat /\ stored[s] \in Nat
         /\ \A u \in incoming \cup collected : u \in Updates /\ u.signal \in Input /\ u.of \in Rounds /\ u.of \in Nat
  BY CosimAssumption DEF Typed, Times, Rounds, NoOutputs, Updates

LEMMA SentTimes ==
  ASSUME Typed
  PROVE  /\ time \in Nat /\ current_time \in Nat /\ outgoing \in Nat
         /\ \A i \in 1..Len(toClient) : toClient[i].kind \in {"SignalUpdate", "Sync"} => toClient[i].of \in Nat
<1>1. Times \subseteq Nat
  BY CosimAssumption DEF Times
<1>2. \A i \in 1..Len(toClient) : toClient[i].kind \in {"SignalUpdate", "Sync"} => toClient[i].of \in Times
  BY TypeFacts, Kinds
<1> QED BY <1>1, <1>2, TypeFacts

LEMMA TimesStay ==
  ASSUME InTime, OutputsInTime, UNCHANGED <<time, current_time, outgoing, toClient>>
  PROVE  InTime' /\ OutputsInTime'
<1>1. \A k : Told(k)' = Told(k)
  BY DEF Told
<1>2. InTime'
  BY <1>1 DEF InTime
<1>3. OutputsInTime'
  BY <1>1 DEF OutputsInTime
<1> QED BY <1>2, <1>3
-----------------------------------------------------------------------------
(* The engine.                                                              *)

LEMMA ChannelStays ==
  ASSUME Played, Lockstep, Coming, server' \in {server, "stopped"},
         UNCHANGED <<collected, toServer, toClient, client, round, sent, ended>>
  PROVE  Played' /\ Lockstep' /\ Coming'
<1>1. (Talking' => Talking) /\ (server' = server => (Talking <=> Talking'))
  BY DEF Talking, Kind
<1>2. Played' /\ Coming'
  BY <1>1 DEF Played, Coming, Talking, OnTheirWay, Kind
<1>3. CASE server' = "stopped"
  BY <1>2, <1>3 DEF Lockstep
<1>4. CASE server' = server
  <2>1. \A i \in 1..Len(toServer) : Arriving(i)' <=> Arriving(i)
    BY <1>1, <1>4 DEF Arriving, Kind
  <2> QED BY <1>1, <1>2, <1>4, <2>1 DEF Lockstep, Told, Kind
<1> QED BY <1>3, <1>4

LEMMA ExchangeKeeps == ASSUME IInv, Exchange PROVE IInv'
<1>1. /\ time <= MaxTime /\ current_time' = time /\ outgoing' = time /\ time' = time + 1
      /\ server' \in {"stopped", server}
      /\ UNCHANGED <<collected, toServer, toClient, client, round, sent, ended, stored>>
  BY DEF Exchange, RunGoesOn, connection, partner, history
<1>2. \/ data_ready /\ inputs' = Applied(incoming, inputs) /\ incoming' = {}
      \/ incoming = {} /\ UNCHANGED <<inputs, incoming>>
  BY DEF Exchange, IInv, Fresh
<1>3. time \in Nat /\ MaxTime \in Nat /\ \A u, v \in incoming : u.of = v.of
  BY TypeFacts DEF IInv, Stored
\* What an input becomes.
<1>4. \A s \in Input :
        /\ ~Has(incoming, s) => inputs'[s] = inputs[s]
        /\ \A u \in incoming : u.signal = s => inputs'[s] = u.of
        /\ Has(incoming, s) => \E u \in incoming : inputs'[s] = u.of
        /\ inputs'[s] = Newest(incoming, s, inputs[s])
  <2>1. CASE inputs' = Applied(incoming, inputs)
    BY <1>3, <2>1, NewestFacts DEF Applied
  <2>2. CASE incoming = {} /\ UNCHANGED inputs
    BY <2>2 DEF Newest, Has
  <2> QED BY <1>2, <2>1, <2>2
<1>5. inputs' \in [Input -> Rounds]
  <2>1. \A s \in Input : inputs'[s] \in Rounds
    BY <1>4, TypeFacts DEF IInv, Typed
  <2>2. CASE inputs' = Applied(incoming, inputs)
    BY <2>1, <2>2 DEF Applied
  <2>3. CASE inputs' = inputs
    BY <2>3 DEF IInv, Typed
  <2> QED BY <1>2, <2>2, <2>3
<1>6. incoming' = {}
  BY <1>2
<1>7. Typed'
  <2>1. time' \in Times /\ current_time' \in Times /\ outgoing' \in Times \cup {NoOutputs}
    BY <1>1, <1>3 DEF Times
  <2> QED BY <1>1, <1>5, <1>6, <2>1 DEF IInv, Typed
<1>8. Flags' /\ Fresh'
  BY <1>6 DEF Exchange, history, IInv, Flags, Fresh
<1>9. Played' /\ Lockstep' /\ Coming'
  BY <1>1, ChannelStays DEF IInv
<1>10. InTime'
  <2>1. /\ outgoing \in Nat /\ current_time \in Nat
        /\ \A i \in 1..Len(toClient) : toClient[i].kind \in {"SignalUpdate", "Sync"} => toClient[i].of \in Nat
    BY SentTimes DEF IInv
  <2> QED BY <1>1, <1>3, <2>1 DEF IInv, InTime, NoOutputs, Told
<1>11. Stored'
  <2>1. \A s \in Input : inputs'[s] <= round
    BY <1>4 DEF IInv, Stored
  <2> QED BY <1>1, <1>6, <2>1 DEF Stored
<1>12. NothingDropped'
  <2>1. \A s \in Input : Newest(incoming, s, inputs[s])' = inputs'[s]
    BY <1>6 DEF Newest
  <2>2. ~overrun' => ~overrun
    BY DEF Exchange, history
  <2>3. ~overrun => \A s \in Input : stored[s] = Newest(incoming, s, inputs[s])
    BY DEF IInv, NothingDropped
  <2> QED BY <1>1, <1>4, <2>1, <2>2, <2>3 DEF NothingDropped
<1>13. WholeRounds'
  <2> SUFFICES ASSUME NEW r \in 1..MaxRounds, NEW s \in Input, inputs'[s] = r
               PROVE  r \in ended /\ \A t \in sent[r] : inputs'[t] >= r
    BY <1>1 DEF WholeRounds
  <2>0. \A t \in sent[r] : t \in Input
    BY DEF IInv, Typed
  <2>1. \A t \in Input : inputs'[t] \in Nat /\ inputs[t] \in Nat /\ inputs'[t] >= inputs[t]
    BY <1>4, TypeFacts DEF IInv, Stored
  <2>2. CASE inputs[s] = r
    <3>1. r \in ended /\ \A t \in sent[r] : inputs[t] >= r
      BY <2>2 DEF IInv, WholeRounds
    <3> QED BY <2>0, <2>1, <3>1
  <2>3. CASE inputs[s] # r
    <3>1. PICK u \in incoming : u.of = r
      BY <1>4, <2>3
    <3>2. r \in ended /\ \A t \in sent[r] : Has(incoming, t)
      BY <3>1 DEF IInv, Stored
    <3>3. \A t \in sent[r] : inputs'[t] = r
      BY <1>3, <1>4, <2>0, <3>1, <3>2 DEF Has
    <3> QED BY <3>2, <3>3
  <2> QED BY <2>2, <2>3
<1>14. OutputsInTime'
  BY <1>1 DEF IInv, OutputsInTime, Told
<1> QED BY <1>7, <1>8, <1>9, <1>10, <1>11, <1>12, <1>13, <1>14 DEF IInv

\* The data is left alone.
LEMMA DataStays ==
  ASSUME IInv, UNCHANGED <<inputs, incoming, data_ready, stored, overrun>>, round' >= round, round' \in Nat,
         ended \subseteq ended', \A r \in ended : sent'[r] = sent[r]
  PROVE  Flags' /\ Fresh' /\ Stored' /\ NothingDropped' /\ WholeRounds'
<1>1. Flags' /\ Fresh'
  BY DEF IInv, Flags, Fresh
<1>2. Stored'
  <2>1. \A s \in Input : inputs[s] \in Nat /\ inputs[s] <= round /\ round \in Nat
    BY TypeFacts DEF IInv, Stored
  <2>2. \A u \in incoming : u.of \in Nat /\ u.of \in ended /\ u.of <= round /\ \A s \in sent'[u.of] : Has(incoming, s)
    BY TypeFacts DEF IInv, Stored
  <2>3. (\A u, v \in incoming : u.of = v.of) /\ \A s \in Input : \A u \in incoming : inputs[s] <= u.of
    BY DEF IInv, Stored
  <2>4. UNCHANGED <<inputs, incoming>>
    OBVIOUS
  <2>5. /\ \A u, v \in incoming' : u.of = v.of
        /\ \A s \in Input : \A u \in incoming' : inputs'[s] <= u.of
    BY <2>3, <2>4
  <2>6. \A u \in incoming' : u.of \in ended' /\ u.of <= round' /\ \A s \in sent'[u.of] : Has(incoming', s)
    <3> SUFFICES ASSUME NEW u \in incoming
                 PROVE  u.of \in ended' /\ u.of <= round' /\ \A s \in sent'[u.of] : Has(incoming, s)
      BY <2>4
    <3>1. u.of <= round'
      BY <2>2, TypeFacts DEF IInv
    <3> QED BY <2>2, <3>1
  <2>7. \A s \in Input : inputs'[s] <= round'
    BY <2>1, <2>4
  <2> QED BY <2>5, <2>6, <2>7 DEF Stored
<1>3. NothingDropped'
  BY DEF IInv, NothingDropped, Newest
<1>4. WholeRounds'
  BY DEF IInv, WholeRounds
<1> QED BY <1>1, <1>2, <1>3, <1>4

LEMMA EnterRunKeeps == ASSUME IInv, EnterRun PROVE IInv'
<1>1. /\ current_time' = time /\ UNCHANGED <<time, inputs, outgoing, incoming, data_ready, server, collected>>
      /\ UNCHANGED <<toServer, toClient, client, round, sent, ended, stored, overrun>>
  BY DEF EnterRun, engine, connection, partner, history
<1>2. Typed'
  BY <1>1 DEF IInv, Typed
<1>3. Played' /\ Lockstep' /\ Coming'
  BY <1>1, ChannelStays DEF IInv
<1>4. Flags' /\ Fresh' /\ Stored' /\ NothingDropped' /\ WholeRounds'
  BY <1>1, DataStays, TypeFacts DEF IInv
<1>5. OutputsInTime'
  BY <1>1 DEF IInv, OutputsInTime, Told
<1>6. InTime'
  <2>1. /\ outgoing \in Nat /\ current_time \in Nat /\ time \in Nat
        /\ \A i \in 1..Len(toClient) : toClient[i].kind \in {"SignalUpdate", "Sync"} => toClient[i].of \in Nat
    BY SentTimes DEF IInv
  <2>2. UNCHANGED <<time, outgoing, toClient>> /\ current_time' = time
    BY <1>1
  <2> QED BY <2>1, <2>2 DEF IInv, InTime, NoOutputs, Told
<1> QED BY <1>2, <1>3, <1>4, <1>5, <1>6 DEF IInv
-----------------------------------------------------------------------------
(* The server thread.                                                       *)

\* Once the server has stopped, nothing is said of the connection.
LEMMA StoppedKeeps ==
  ASSUME Played, server' = "stopped", round' = round, sent' = sent, ended' = ended, client' = client
  PROVE  Played' /\ Lockstep' /\ Coming'
<1>1. ~Talking'
  BY DEF Talking
<1> QED BY <1>1 DEF Played, Lockstep, Coming

\* One more message to the client.
LEMMA SayFacts ==
  ASSUME Typed, NEW m \in FromServer, Sends(m)
  PROVE  /\ toClient' \in Seq(FromServer) /\ Len(toClient') = Len(toClient) + 1 /\ Len(toClient) \in Nat
         /\ \A i \in 1..Len(toClient) : toClient'[i] = toClient[i]
         /\ toClient'[Len(toClient) + 1] = m
         /\ \A k : Told(k)' = IF m.kind = k THEN Told(k) \cup {Len(toClient) + 1} ELSE Told(k)
<1>1. /\ toClient' \in Seq(FromServer) /\ Len(toClient') = Len(toClient) + 1 /\ Len(toClient) \in Nat
      /\ \A i \in 1..Len(toClient) : toClient'[i] = toClient[i]
      /\ toClient'[Len(toClient) + 1] = m
  BY AppendProperties, TypeFacts DEF Sends
<1>2. 1..Len(toClient') = (1..Len(toClient)) \cup {Len(toClient) + 1}
  BY <1>1
<1>3. \A k : Told(k)' = {i \in (1..Len(toClient)) \cup {Len(toClient) + 1} : toClient'[i].kind = k}
  BY <1>2 DEF Told
<1>4. \A k : Told(k)' = IF m.kind = k THEN Told(k) \cup {Len(toClient) + 1} ELSE Told(k)
  <2>1. Len(toClient) + 1 \notin 1..Len(toClient)
    BY <1>1
  <2> QED BY <1>1, <1>3, <2>1 DEF Told
<1> QED BY <1>1, <1>4

LEMMA SendOutputsKeeps == ASSUME IInv, SendOutputs PROVE IInv'
<1>1. /\ server = "outputs" /\ server' = "sync"
      /\ UNCHANGED <<time, inputs, current_time, outgoing, incoming, data_ready>>
      /\ UNCHANGED <<collected, toServer, client, round, sent, ended, stored, overrun>>
  BY DEF SendOutputs, engine, shared, partner, history
<1>2. \/ toClient' = toClient
      \/ outgoing \in Times /\ outgoing # NoOutputs /\ Sends(Message("SignalUpdate", outgoing))
  BY <1>1 DEF SendOutputs, IInv, Typed
<1>3. Message("SignalUpdate", outgoing).kind = "SignalUpdate" /\ Message("SignalUpdate", outgoing).of = outgoing
  BY DEF Message
<1>4. outgoing \in Times => Message("SignalUpdate", outgoing) \in FromServer
  BY Kinds
<1>5. Told("Sync")' = Told("Sync") /\ toClient' \in Seq(FromServer)
  <2>1. CASE toClient' = toClient
    BY <2>1, TypeFacts DEF IInv, Told
  <2>2. CASE outgoing \in Times /\ Sends(Message("SignalUpdate", outgoing))
    BY <1>3, <1>4, <2>2, SayFacts DEF IInv
  <2> QED BY <1>2, <2>1, <2>2
<1>6. Typed'
  BY <1>1, <1>5 DEF IInv, Typed
<1>7. ~Talking /\ ~Talking'
  BY <1>1 DEF Talking
<1>8. Played' /\ Coming'
  BY <1>1, <1>7 DEF IInv, Played, Coming
<1>9. Lockstep'
  <2>1. \A i \in 1..Len(toServer) : Arriving(i)'
    BY <1>1, <1>7 DEF IInv, Lockstep, Arriving, Kind, Ends
  <2> QED BY <1>1, <1>5, <1>7, <2>1 DEF IInv, Lockstep, Kind
<1>10. InTime' /\ OutputsInTime'
  <2>1. CASE toClient' = toClient
    BY <1>1, <2>1, TimesStay DEF IInv
  <2>2. CASE outgoing \in Times /\ outgoing # NoOutputs /\ Sends(Message("SignalUpdate", outgoing))
    <3>1. /\ Told("Sync")' = Told("Sync") /\ Told("SignalUpdate")' = Told("SignalUpdate") \cup {Len(toClient) + 1}
          /\ Len(toClient) \in Nat
          /\ \A i \in 1..Len(toClient) : toClient'[i] = toClient[i]
          /\ toClient'[Len(toClient) + 1].of = outgoing
      BY <1>3, <1>4, <2>2, SayFacts DEF IInv
    <3>2. \A k : Told(k) \subseteq 1..Len(toClient)
      BY DEF Told
    <3>3. InTime'
      BY <1>1, <2>2, <3>1, <3>2, SentTimes DEF IInv, InTime, NoOutputs
    <3>4. OutputsInTime'
      BY <1>1, <3>1, <3>2, SentTimes DEF IInv, InTime, OutputsInTime
    <3> QED BY <3>3, <3>4
  <2> QED BY <1>2, <2>1, <2>2
<1>11. Flags' /\ Fresh' /\ Stored' /\ NothingDropped' /\ WholeRounds'
  BY <1>1, DataStays, TypeFacts DEF IInv
<1> QED BY <1>6, <1>8, <1>9, <1>10, <1>11 DEF IInv

LEMMA SendSyncKeeps == ASSUME IInv, SendSync PROVE IInv'
<1>1. /\ server = "sync" /\ server' = "ack" /\ Sends(Message("Sync", current_time))
      /\ UNCHANGED <<time, inputs, current_time, outgoing, incoming, data_ready>>
      /\ UNCHANGED <<collected, toServer, client, round, sent, ended, stored, overrun>>
  BY DEF SendSync, engine, shared, partner, history
<1>2. /\ Message("Sync", current_time).kind = "Sync" /\ Message("Sync", current_time).of = current_time
      /\ Message("Sync", current_time) \in FromServer
  BY Kinds DEF IInv, Typed, Message
<1>3. /\ Told("Sync")' = Told("Sync") \cup {Len(toClient) + 1} /\ Told("SignalUpdate")' = Told("SignalUpdate")
      /\ Len(toClient) \in Nat /\ toClient' \in Seq(FromServer)
      /\ \A i \in 1..Len(toClient) : toClient'[i] = toClient[i]
      /\ toClient'[Len(toClient) + 1].of = current_time
  BY <1>1, <1>2, SayFacts DEF IInv
<1>4. \A k : Told(k) \subseteq 1..Len(toClient)
  BY DEF Told
<1>5. Told("Sync") = {} /\ ~Talking
  BY <1>1 DEF IInv, Lockstep, Talking
<1>6. ~Talking'
  <2>1. toServer # <<>> => Len(toServer) > 0 /\ Len(toServer) \in Nat
    BY TypeFacts DEF IInv
  <2>2. toServer # <<>> => Kind(1) # "SyncAck"
    BY <1>1, <2>1 DEF IInv, Lockstep, Arriving
  <2> QED BY <1>1, <2>2 DEF Talking, Kind
<1>7. Typed'
  BY <1>1, <1>3 DEF IInv, Typed
<1>8. Played' /\ Coming'
  BY <1>1, <1>5, <1>6 DEF IInv, Played, Coming
<1>9. Lockstep'
  <2>1. \A i \in 1..Len(toServer) : Arriving(i)'
    BY <1>1, <1>5, <1>6 DEF IInv, Lockstep, Arriving, Kind, Ends
  <2> QED BY <1>1, <1>3, <1>5, <1>6, <2>1 DEF IInv, Lockstep, Kind
<1>10. InTime' /\ OutputsInTime'
  <2>1. UNCHANGED <<time, current_time, outgoing>> /\ current_time \in Nat /\ outgoing \in Nat
    BY <1>1, SentTimes DEF IInv
  <2>2. \A i \in Told("SignalUpdate") : toClient'[i] = toClient[i] /\ toClient[i].of \in Nat /\ toClient[i].of <= current_time
    BY <1>3, <1>4, SentTimes DEF IInv, InTime, Told
  <2>3. Told("Sync")' = {Len(toClient) + 1} /\ \A k : Told(k) \subseteq 1..Len(toClient)
    BY <1>3, <1>4, <1>5
  <2>4. InTime'
    BY <1>3, <2>1, <2>2, <2>3 DEF IInv, InTime, NoOutputs
  <2>5. OutputsInTime'
    BY <1>3, <2>1, <2>2, <2>3 DEF IInv, OutputsInTime
  <2> QED BY <2>4, <2>5
<1>12. Flags' /\ Fresh' /\ Stored' /\ NothingDropped' /\ WholeRounds'
  BY <1>1, DataStays, TypeFacts DEF IInv
<1> QED BY <1>7, <1>8, <1>9, <1>10, <1>12 DEF IInv

\* One message less for the server.
LEMMA ReadFacts ==
  ASSUME Typed, NEW K, Reads(K)
  PROVE  /\ toServer' \in Seq(FromClient) /\ Len(toServer') = Len(toServer) - 1
         /\ Len(toServer) \in Nat /\ Len(toServer) > 0 /\ toServer # <<>>
         /\ Head(toServer) = toServer[1] /\ Kind(1) \in K /\ toServer[1] \in FromClient
         /\ \A i \in 1..Len(toServer') : toServer'[i] = toServer[i + 1] /\ i + 1 \in 1..Len(toServer)
         /\ \A i \in 2..Len(toServer) : toServer'[i - 1] = toServer[i] /\ i - 1 \in 1..Len(toServer')
<1>1. toServer \in Seq(FromClient) /\ toServer # <<>> /\ Head(toServer).kind \in K /\ toServer' = Tail(toServer)
  BY DEF Reads, Typed
<1>2. /\ toServer' \in Seq(FromClient) /\ Len(toServer') = Len(toServer) - 1
      /\ Len(toServer) \in Nat /\ Len(toServer) > 0
      /\ Head(toServer) = toServer[1] /\ Head(toServer) \in FromClient
      /\ \A i \in 1..Len(toServer') : toServer'[i] = toServer[i + 1] /\ i + 1 \in 1..Len(toServer)
  BY <1>1, HeadTailProperties
<1>3. \A i \in 2..Len(toServer) : toServer'[i - 1] = toServer[i] /\ i - 1 \in 1..Len(toServer')
  <2> SUFFICES ASSUME NEW i \in 2..Len(toServer)
               PROVE  toServer'[i - 1] = toServer[i] /\ i - 1 \in 1..Len(toServer')
    OBVIOUS
  <2>1. i - 1 \in 1..Len(toServer') /\ (i - 1) + 1 = i
    BY <1>2
  <2> QED BY <1>2, <2>1
<1> QED BY <1>1, <1>2, <1>3 DEF Kind

LEMMA LineMovesOn ==
  ASSUME Typed, Lockstep, server # "stopped", NEW K, Reads(K)
  PROVE  \A i, j \in 1..Len(toServer') : i < j /\ Kind(i)' \in Ends => Kind(j)' = "Disconnect"
<1> SUFFICES ASSUME NEW i \in 1..Len(toServer'), NEW j \in 1..Len(toServer'), i < j, Kind(i)' \in Ends
             PROVE  Kind(j)' = "Disconnect"
  OBVIOUS
<1>1. /\ i + 1 \in 1..Len(toServer) /\ toServer'[i] = toServer[i + 1]
      /\ j + 1 \in 1..Len(toServer) /\ toServer'[j] = toServer[j + 1]
  BY ReadFacts
<1>2. Kind(i + 1) \in Ends
  BY <1>1 DEF Kind
<1>3. i + 1 < j + 1
  OBVIOUS
<1>4. Kind(j + 1) = "Disconnect"
  BY <1>1, <1>2, <1>3 DEF Lockstep
<1> QED BY <1>1, <1>4 DEF Kind

LEMMA ReadConnectKeeps == ASSUME IInv, ReadConnect PROVE IInv'
<1>1. /\ server = "connect" /\ server' \in {"outputs", "stopped"}
      /\ UNCHANGED <<time, inputs, current_time, outgoing, incoming, data_ready>>
      /\ UNCHANGED <<collected, client, round, sent, ended, stored, overrun>>
      /\ server' = "outputs" => Reads({"Connect"})
      /\ Reads({"Connect"}) \/ Reads({"Disconnect"})
  BY DEF ReadConnect, engine, shared, partner, history
<1>2. PICK k \in {"ConnectAck", "Error"} : Sends(Message(k, 0))
  BY DEF ReadConnect
<1>3. Message(k, 0) \in FromServer /\ Message(k, 0).kind = k
  BY Kinds
<1>4. toClient' \in Seq(FromServer) /\ \A c \in {"SignalUpdate", "Sync"} : Told(c)' = Told(c)
  BY <1>2, <1>3, SayFacts DEF IInv
<1>5. \A i \in 1..Len(toClient) : toClient'[i] = toClient[i]
  BY <1>2, <1>3, SayFacts DEF IInv
<1>6. InTime' /\ OutputsInTime'
  <2>1. \A c : Told(c) \subseteq 1..Len(toClient)
    BY DEF Told
  <2>2. InTime'
    BY <1>1, <1>4, <1>5, <2>1 DEF IInv, InTime
  <2>3. OutputsInTime'
    BY <1>4, <1>5, <2>1 DEF IInv, OutputsInTime
  <2> QED BY <2>2, <2>3
<1>7. toServer' \in Seq(FromClient)
  BY <1>1, ReadFacts DEF IInv
<1>8. Typed'
  BY <1>1, <1>4, <1>7 DEF IInv, Typed
<1>9. Flags' /\ Fresh' /\ Stored' /\ NothingDropped' /\ WholeRounds'
  BY <1>1, DataStays, TypeFacts DEF IInv
<1>10. CASE server' = "stopped"
  BY <1>1, <1>6, <1>8, <1>9, <1>10, StoppedKeeps DEF IInv
<1>11. CASE server' = "outputs"
  <2>1. ~Talking /\ ~Talking'
    BY <1>1, <1>11 DEF Talking
  <2>2. Played' /\ Coming'
    BY <1>1, <1>11, <2>1 DEF IInv, Played, Coming
  <2>3. /\ Len(toServer) > 0 /\ Len(toServer) \in Nat
        /\ \A i \in 1..Len(toServer') : toServer'[i] = toServer[i + 1] /\ i + 1 \in 1..Len(toServer) /\ i + 1 # 1
    BY <1>1, <1>11, ReadFacts DEF IInv
  <2>4. \A i \in 1..Len(toServer') : toServer[i + 1] \in FromClient
    BY <2>3, TypeFacts DEF IInv
  <2>5. \A i \in 1..Len(toServer') : Kind(i + 1) = "Disconnect" /\ client = "gone"
    BY <1>1, <2>1, <2>3, <2>4, Kinds DEF IInv, Lockstep, Arriving, Kind
  <2>6. \A i \in 1..Len(toServer') : Arriving(i)' /\ Kind(i)' = "Disconnect"
    BY <1>1, <2>1, <2>3, <2>5 DEF Arriving, Kind, Ends
  <2>7. client # "out" /\ client # "answering" /\ Told("Sync") = {}
    BY <1>1, <2>1, <2>3 DEF IInv, Lockstep
  <2>8. Lockstep'
    BY <1>1, <1>4, <2>6, <2>7 DEF Lockstep, Kind
  <2> QED BY <1>6, <1>8, <1>9, <2>2, <2>8 DEF IInv
<1> QED BY <1>1, <1>10, <1>11

LEMMA ReadAckKeeps == ASSUME IInv, ReadAck PROVE IInv'
<1>1. /\ server = "ack" /\ server' \in {"updates", "stopped"}
      /\ UNCHANGED <<time, inputs, current_time, outgoing, incoming, data_ready>>
      /\ UNCHANGED <<toClient, client, round, sent, ended, stored, overrun>>
      /\ server' = "updates" => Reads({"SyncAck"}) /\ collected' = {}
      /\ collected' \in {{}, collected}
      /\ Reads({"SyncAck"}) \/ Reads({"Disconnect", "SignalUpdate", "Sync"})
  BY DEF ReadAck, engine, shared, partner, history
<1>2. toServer' \in Seq(FromClient)
  BY <1>1, ReadFacts DEF IInv
<1>3. Typed'
  BY <1>1, <1>2 DEF IInv, Typed
<1>4. InTime' /\ OutputsInTime'
  BY <1>1, TimesStay DEF IInv
<1>5. Flags' /\ Fresh' /\ Stored' /\ NothingDropped' /\ WholeRounds'
  BY <1>1, DataStays, TypeFacts DEF IInv
<1>6. CASE server' = "stopped"
  BY <1>1, <1>3, <1>4, <1>5, <1>6, StoppedKeeps DEF IInv
<1>7. CASE server' = "updates"
  <2>1. /\ Len(toServer) > 0 /\ Len(toServer) \in Nat /\ Kind(1) = "SyncAck" /\ toServer # <<>>
        /\ \A i \in 1..Len(toServer') : toServer'[i] = toServer[i + 1] /\ i + 1 \in 1..Len(toServer) /\ i + 1 # 1
        /\ \A i \in 2..Len(toServer) : toServer'[i - 1] = toServer[i] /\ i - 1 \in 1..Len(toServer')
    BY <1>1, <1>7, ReadFacts DEF IInv
  <2>2. Talking /\ Talking'
    BY <1>1, <1>7, <2>1 DEF Talking
  <2>3. Played'
    BY <1>1, <2>2 DEF IInv, Played
  <2>4. \A i \in 1..Len(toServer') : Arriving(i)'
    <3> SUFFICES ASSUME NEW i \in 1..Len(toServer') PROVE Arriving(i)'
      OBVIOUS
    <3>1. i + 1 \in 1..Len(toServer) /\ i + 1 # 1 /\ Kind(i)' = Kind(i + 1) /\ toServer'[i] = toServer[i + 1]
      BY <2>1 DEF Kind
    <3>2. Arriving(i + 1)
      BY <1>1, <3>1 DEF IInv, Lockstep
    <3> QED BY <1>1, <1>7, <2>2, <3>1, <3>2 DEF Arriving
  <2>5. \A i, j \in 1..Len(toServer') : i < j /\ Kind(i)' \in Ends => Kind(j)' = "Disconnect"
    BY <1>1, <1>7, LineMovesOn DEF IInv
  <2>6. Told("Sync")' = {} /\ client # "out"
    BY <1>1, <2>2 DEF IInv, Lockstep, Told
  <2>7. Lockstep'
    BY <1>1, <2>2, <2>4, <2>5, <2>6 DEF Lockstep
  <2>8. Coming'
    <3> SUFFICES ASSUME NEW s \in sent[round] PROVE OnTheirWay(s)'
      BY <1>1, <1>7 DEF Coming
    <3>1. PICK i \in 1..Len(toServer) : Kind(i) = "SignalUpdate" /\ toServer[i].signal = s
      BY <1>1, <2>2 DEF IInv, Coming, OnTheirWay
    <3>2. i \in 2..Len(toServer)
      BY <2>1, <3>1
    <3> QED BY <2>1, <3>1, <3>2 DEF OnTheirWay, Kind
  <2> QED BY <1>3, <1>4, <1>5, <2>3, <2>7, <2>8 DEF IInv
<1> QED BY <1>1, <1>6, <1>7

LEMMA ReadUpdateKeeps == ASSUME IInv, ReadUpdate PROVE IInv'
<1>1. /\ server = "updates" /\ Reads({"SignalUpdate"}) /\ collected' = collected \cup {Head(toServer)}
      /\ UNCHANGED <<time, inputs, current_time, outgoing, incoming, data_ready>>
      /\ UNCHANGED <<server, toClient, client, round, sent, ended, stored, overrun>>
  BY DEF ReadUpdate, engine, shared, partner, history
<1>2. /\ toServer' \in Seq(FromClient)
      /\ Len(toServer) > 0 /\ Len(toServer) \in Nat /\ Kind(1) = "SignalUpdate" /\ toServer # <<>>
      /\ Head(toServer) = toServer[1] /\ toServer[1] \in FromClient
      /\ \A i \in 1..Len(toServer') : toServer'[i] = toServer[i + 1] /\ i + 1 \in 1..Len(toServer) /\ i + 1 # 1
      /\ \A i \in 2..Len(toServer) : toServer'[i - 1] = toServer[i] /\ i - 1 \in 1..Len(toServer')
  BY <1>1, ReadFacts DEF IInv
<1>3. Talking /\ Talking'
  BY <1>1 DEF Talking
<1>4. toServer[1] \in Updates /\ toServer[1].of = round
  BY <1>1, <1>2, Kinds DEF IInv, Lockstep, Arriving, Kind
<1>5. \A u \in collected' : u.of = round
  BY <1>1, <1>2, <1>4 DEF IInv, Coming
<1>6. Typed'
  BY <1>1, <1>2, <1>4, <1>5 DEF IInv, Typed
<1>7. InTime' /\ OutputsInTime'
  BY <1>1, TimesStay DEF IInv
<1>8. Flags' /\ Fresh' /\ Stored' /\ NothingDropped' /\ WholeRounds'
  BY <1>1, DataStays, TypeFacts DEF IInv
<1>9. Played'
  BY <1>1, <1>3 DEF IInv, Played
<1>10. Lockstep'
  <2>1. \A i \in 1..Len(toServer') : Arriving(i)'
    BY <1>1, <1>2, <1>3 DEF IInv, Lockstep, Arriving, Kind
  <2>2. \A i, j \in 1..Len(toServer') : i < j /\ Kind(i)' \in Ends => Kind(j)' = "Disconnect"
    BY <1>1, LineMovesOn DEF IInv
  <2>3. Told("Sync")' = {} /\ client # "out"
    BY <1>1, <1>3 DEF IInv, Lockstep, Told
  <2> QED BY <1>1, <1>3, <2>1, <2>2, <2>3 DEF Lockstep
<1>11. Coming'
  <2> SUFFICES ASSUME NEW s \in sent[round] PROVE OnTheirWay(s)' \/ Has(collected', s)
    BY <1>1, <1>5 DEF Coming
  <2>1. CASE Has(collected, s)
    BY <1>1, <2>1 DEF Has
  <2>2. CASE OnTheirWay(s)
    <3>1. PICK i \in 1..Len(toServer) : Kind(i) = "SignalUpdate" /\ toServer[i].signal = s
      BY <2>2 DEF OnTheirWay
    <3>2. CASE i = 1
      BY <1>1, <1>2, <3>1, <3>2 DEF Has
    <3>3. CASE i \in 2..Len(toServer)
      BY <1>2, <3>1, <3>3 DEF OnTheirWay, Kind
    <3> QED BY <3>2, <3>3
  <2> QED BY <1>3, <2>1, <2>2 DEF IInv, Coming
<1> QED BY <1>6, <1>7, <1>8, <1>9, <1>10, <1>11 DEF IInv

\* At the end of a round all its updates are collected.
LEMMA EndUpdatesKeeps == ASSUME IInv, EndUpdates PROVE IInv'
<1>1. /\ server = "updates" /\ server' \in {"outputs", "stopped"} /\ incoming' = collected
      /\ Reads({"Disconnect"}) \/ Reads({"Sync", "SyncAck"})
      /\ server' = "outputs" => Reads({"Sync", "SyncAck"})
      /\ stored' = Applied(collected, stored)
      /\ UNCHANGED <<time, inputs, current_time, outgoing, collected, toClient, client, round, sent, ended>>
  BY DEF EndUpdates, Store, engine, partner
<1>2. /\ toServer' \in Seq(FromClient) /\ Len(toServer) > 0 /\ Len(toServer) \in Nat
      /\ Kind(1) \in {"Disconnect", "Sync", "SyncAck"}
      /\ \A i \in 1..Len(toServer') : toServer'[i] = toServer[i + 1] /\ i + 1 \in 2..Len(toServer)
  <2>1. PICK K \in {{"Disconnect"}, {"Sync", "SyncAck"}} : Reads(K)
    BY <1>1
  <2>2. \A i \in 1..Len(toServer') : toServer'[i] = toServer[i + 1] /\ i + 1 \in 1..Len(toServer)
    BY <2>1, ReadFacts DEF IInv
  <2>3. /\ toServer' \in Seq(FromClient) /\ Len(toServer) > 0 /\ Len(toServer) \in Nat /\ Kind(1) \in K
        /\ Len(toServer') = Len(toServer) - 1
    BY <2>1, ReadFacts DEF IInv
  <2> QED BY <2>1, <2>2, <2>3
<1>3. Talking
  BY <1>1 DEF Talking
<1>4. Kind(1) \in Ends /\ round \in ended /\ \A j \in 2..Len(toServer) : Kind(j) = "Disconnect"
  <2>1. Arriving(1) /\ 1 \in 1..Len(toServer)
    BY <1>1, <1>2 DEF IInv, Lockstep
  <2>2. Kind(1) \in Ends /\ round \in ended
    BY <1>1, <1>2, <1>3, <2>1 DEF Arriving, Ends
  <2>3. \A j \in 2..Len(toServer) : 1 < j /\ j \in 1..Len(toServer)
    BY <1>2
  <2> QED BY <1>1, <2>1, <2>2, <2>3 DEF IInv, Lockstep
<1>5. \A s \in sent[round] : Has(collected, s)
  <2>1. \A s : ~OnTheirWay(s)
    <3>1. \A i \in 1..Len(toServer) : i = 1 \/ i \in 2..Len(toServer)
      BY <1>2
    <3>2. \A i \in 1..Len(toServer) : Kind(i) # "SignalUpdate"
      BY <1>2, <1>4, <3>1
    <3> QED BY <3>2 DEF OnTheirWay
  <2> QED BY <1>3, <2>1 DEF IInv, Coming
<1>6. \A u, v \in collected : u.of = round /\ u.of = v.of
  BY <1>1 DEF IInv, Coming
\* What an input has been stored as.
<1>7. \A s \in Input :
        /\ stored'[s] = Newest(collected, s, stored[s])
        /\ stored'[s] \in Rounds
  <2>1. \A s \in Input : stored'[s] = Newest(collected, s, stored[s])
    BY <1>1 DEF Applied
  <2>2. \A s \in Input : stored[s] \in Rounds /\ round \in Rounds
    BY DEF IInv, Typed
  <2>3. \A s \in Input : Newest(collected, s, stored[s]) \in {stored[s], round}
    BY <1>6, NewestFacts
  <2> QED BY <2>1, <2>2, <2>3
<1>8. stored' \in [Input -> Rounds]
  BY <1>1, <1>7 DEF Applied
<1>9. Typed'
  BY <1>1, <1>2, <1>8 DEF IInv, Typed
<1>10. InTime' /\ OutputsInTime'
  BY <1>1, TimesStay DEF IInv
<1>11. Flags' /\ Fresh'
  BY DEF EndUpdates, Store, IInv, Flags, Fresh
<1>12. Stored'
  <2>1. round \in Nat /\ \A s \in Input : inputs[s] <= round
    BY TypeFacts DEF IInv, Stored
  <2> QED BY <1>1, <1>4, <1>5, <1>6, <2>1 DEF Stored
<1>13. NothingDropped'
  <2>1. ~overrun' => incoming = {} /\ ~overrun
    BY DEF EndUpdates, IInv, Fresh
  <2>2. incoming = {} => \A s \in Input : Newest(incoming, s, inputs[s]) = inputs[s]
    BY DEF Newest
  <2>3. ~overrun' => \A s \in Input : stored[s] = inputs[s]
    BY <2>1, <2>2 DEF IInv, NothingDropped
  <2>4. ~overrun' => \A s \in Input : stored'[s] = Newest(collected, s, inputs[s])
    BY <1>7, <2>3
  <2> QED BY <1>1, <2>4 DEF NothingDropped, Newest
<1>14. WholeRounds'
  BY <1>1 DEF IInv, WholeRounds
<1>15. CASE server' = "stopped"
  <2>1. Played' /\ Lockstep' /\ Coming'
    BY <1>1, <1>15, StoppedKeeps DEF IInv
  <2> QED BY <1>9, <1>10, <1>11, <1>12, <1>13, <1>14, <2>1 DEF IInv
<1>16. CASE server' = "outputs"
  <2>1. ~Talking'
    BY <1>16 DEF Talking
  <2>2. Played' /\ Coming'
    BY <1>1, <1>16, <2>1 DEF IInv, Played, Coming
  <2>3. \A i \in 1..Len(toServer') : Kind(i)' = "Disconnect" /\ client = "gone"
    <3> SUFFICES ASSUME NEW i \in 1..Len(toServer') PROVE Kind(i)' = "Disconnect" /\ client = "gone"
      OBVIOUS
    <3>1. i + 1 \in 1..Len(toServer) /\ Kind(i + 1) = "Disconnect" /\ Kind(i)' = Kind(i + 1)
      BY <1>2, <1>4 DEF Kind
    <3>2. Arriving(i + 1)
      BY <1>1, <3>1 DEF IInv, Lockstep
    <3> QED BY <3>1, <3>2 DEF Arriving
  <2>4. \A i \in 1..Len(toServer') : Arriving(i)'
    BY <1>1, <2>1, <2>3 DEF Arriving, Ends
  <2>5. client # "out" /\ client # "answering" /\ Told("Sync")' = {}
    <3>1. client # "out" /\ Told("Sync") = {}
      BY <1>1, <1>3 DEF IInv, Lockstep
    <3>2. client # "answering"
      BY <1>1, <1>2, <1>4 DEF IInv, Lockstep, Arriving
    <3> QED BY <1>1, <3>1, <3>2 DEF Told
  <2>6. Lockstep'
    BY <1>1, <2>3, <2>4, <2>5 DEF Lockstep
  <2> QED BY <1>9, <1>10, <1>11, <1>12, <1>13, <1>14, <2>2, <2>6 DEF IInv
<1> QED BY <1>1, <1>15, <1>16

LEMMA StopKeeps == ASSUME IInv, ConnectionLost \/ ReadTimeout PROVE IInv'
<1>1. /\ server' = "stopped"
      /\ UNCHANGED <<time, inputs, current_time, outgoing, incoming, data_ready>>
      /\ UNCHANGED <<collected, toServer, toClient, client, round, sent, ended, stored, overrun>>
  BY DEF ConnectionLost, DropWhatCame, ReadTimeout, engine, shared, connection, partner, history
<1>2. Typed'
  BY <1>1 DEF IInv, Typed
<1>3. Flags' /\ Fresh' /\ Stored' /\ NothingDropped' /\ WholeRounds'
  BY <1>1, DataStays, TypeFacts DEF IInv
<1> QED BY <1>1, <1>2, <1>3, StoppedKeeps, TimesStay DEF IInv
-----------------------------------------------------------------------------
(* The client.                                                              *)

\* One more message to the server.
LEMMA ArriveFacts ==
  ASSUME Typed, NEW m \in FromClient, ClientSends(m)
  PROVE  /\ toServer' \in Seq(FromClient) /\ Len(toServer') = Len(toServer) + 1 /\ Len(toServer) \in Nat
         /\ toServer' # <<>> /\ (toServer # <<>> => Kind(1)' = Kind(1)) /\ (toServer = <<>> => Kind(1)' = m.kind)
         /\ \A i \in 1..Len(toServer) : toServer'[i] = toServer[i]
         /\ toServer'[Len(toServer) + 1] = m
         /\ \A i \in 1..Len(toServer') : i \in 1..Len(toServer) \/ i = Len(toServer) + 1
<1>1. /\ toServer' \in Seq(FromClient) /\ Len(toServer') = Len(toServer) + 1 /\ Len(toServer) \in Nat
      /\ \A i \in 1..Len(toServer) : toServer'[i] = toServer[i]
      /\ toServer'[Len(toServer) + 1] = m
  BY AppendProperties, TypeFacts DEF ClientSends
<1>2. toServer # <<>> => 1 \in 1..Len(toServer)
  BY TypeFacts
<1>3. toServer = <<>> => Len(toServer) = 0
  OBVIOUS
<1>4. toServer' # <<>>
  BY <1>1
<1> QED BY <1>1, <1>2, <1>3, <1>4 DEF Kind

\* A message that may come now, behind those on their way.
LEMMA ArriveKeeps ==
  ASSUME Typed, Lockstep, server # "stopped", NEW m \in FromClient, ClientSends(m),
         UNCHANGED <<server, round>>, Talking' <=> Talking \/ m.kind = "SyncAck",
         client' # "answering" \/ Talking', client' # "out", client = "gone" => client' = "gone",
         \A i \in 1..Len(toServer) : Kind(i) \notin Ends \/ m.kind = "Disconnect",
         \A i \in 1..Len(toServer) : Kind(i) \in Ends => client' # "answering" /\ (Talking' => round \in ended'),
         \A i \in Told("Sync")' : server = "ack" /\ ~Talking',
         Told("Sync")' = {} \/ UNCHANGED toClient,
         NEW n, n = Len(toServer) + 1, Arriving(n)'
  PROVE  Lockstep'
<1>1. /\ Len(toServer) \in Nat /\ Len(toServer') = n
      /\ \A i \in 1..Len(toServer) : toServer'[i] = toServer[i]
      /\ toServer'[n] = m
      /\ \A i \in 1..Len(toServer') : i \in 1..Len(toServer) \/ i = n
  BY ArriveFacts
<1>2. \A i \in 1..Len(toServer) : Kind(i)' = Kind(i)
  BY <1>1 DEF Kind
<1>3. \A i \in 1..Len(toServer) : Arriving(i)'
  BY <1>1, <1>2 DEF Lockstep, Arriving
<1>4. \A i, j \in 1..Len(toServer') : i < j /\ Kind(i)' \in Ends => Kind(j)' = "Disconnect"
  <2> SUFFICES ASSUME NEW i \in 1..Len(toServer'), NEW j \in 1..Len(toServer'), i < j, Kind(i)' \in Ends
               PROVE  Kind(j)' = "Disconnect"
    OBVIOUS
  <2>1. i \in 1..Len(toServer) /\ Kind(i) \in Ends
    BY <1>1, <1>2
  <2>2. CASE j = n
    BY <1>1, <2>1, <2>2 DEF Kind
  <2>3. CASE j \in 1..Len(toServer)
    BY <1>2, <2>1, <2>3 DEF Lockstep
  <2> QED BY <1>1, <2>2, <2>3
<1>5. \A i, j \in Told("Sync")' : i = j
  BY DEF Lockstep, Told
<1> QED BY <1>1, <1>3, <1>4, <1>5 DEF Lockstep

LEMMA TalkingStays ==
  ASSUME Typed, NEW m \in FromClient, ClientSends(m), m.kind # "SyncAck", server' = server
  PROVE  Talking' <=> Talking
<1>1. CASE toServer = <<>>
  BY <1>1, ArriveFacts DEF Talking
<1>2. CASE toServer # <<>>
  BY <1>2, ArriveFacts DEF Talking
<1> QED BY <1>1, <1>2

LEMMA StoppedSays == ASSUME server' = "stopped" PROVE ~Talking' /\ Lockstep' /\ Coming'
  BY DEF Talking, Lockstep, Coming

LEMMA ConnectKeeps == ASSUME IInv, Connect PROVE IInv'
<1>1. /\ client = "out" /\ client' = "waiting" /\ ClientSends(Message("Connect", 0))
      /\ UNCHANGED <<time, inputs, current_time, outgoing, incoming, data_ready>>
      /\ UNCHANGED <<server, collected, toClient, round, sent, ended, stored, overrun>>
  BY DEF Connect, ServerSide, engine, shared, history
<1>2. Message("Connect", 0) \in FromClient /\ Message("Connect", 0).kind = "Connect"
  BY Kinds
<1>3. Typed'
  BY <1>1, <1>2, ArriveFacts DEF IInv, Typed
<1>4. InTime' /\ OutputsInTime'
  BY <1>1, TimesStay DEF IInv
<1>5. Flags' /\ Fresh' /\ Stored' /\ NothingDropped' /\ WholeRounds'
  BY <1>1, DataStays, TypeFacts DEF IInv
<1>6. Talking' <=> Talking
  BY <1>1, <1>2, TalkingStays DEF IInv
<1>7. Played'
  BY <1>1, <1>6 DEF IInv, Played
<1>8. Lockstep' /\ Coming'
  <2>1. CASE server = "stopped"
    BY <1>1, <2>1, StoppedSays
  <2>2. CASE server # "stopped"
    <3>1. server = "connect" /\ toServer = <<>> /\ Len(toServer) = 0
      BY <1>1, <2>2 DEF IInv, Lockstep
    <3>2. ~Talking /\ Told("Sync") = {}
      BY <2>2, <3>1 DEF IInv, Lockstep, Talking
    <3>3. Len(toServer') = 1 /\ Kind(1)' = "Connect"
      BY <1>1, <1>2, <3>1, ArriveFacts DEF IInv
    <3>4. Coming'
      BY <1>1, <1>6, <3>1, <3>2 DEF Coming
    <3>5. Lockstep'
      <4>1. \A i \in 1..Len(toServer') : i = 1 /\ Arriving(i)'
        BY <1>1, <1>6, <3>1, <3>2, <3>3 DEF Arriving, Ends
      <4> QED BY <1>1, <3>1, <3>2, <4>1 DEF Lockstep, Told
    <3> QED BY <3>4, <3>5
  <2> QED BY <2>1, <2>2
<1> QED BY <1>3, <1>4, <1>5, <1>7, <1>8 DEF IInv

LEMMA ReceiveKeeps == ASSUME IInv, Receive PROVE IInv'
<1> DEFINE Answers == Head(toClient).kind = "Sync" /\ round < MaxRounds
<1>1. /\ client = "waiting" /\ toClient # <<>> /\ toClient' = Tail(toClient)
      /\ UNCHANGED <<time, inputs, current_time, outgoing, incoming, data_ready>>
      /\ UNCHANGED <<server, collected, sent, ended, stored, overrun>>
      /\ Answers => client' = "answering" /\ round' = round + 1 /\ ClientSends(Message("SyncAck", 0))
      /\ ~Answers => UNCHANGED <<client, round, toServer>>
  BY DEF Receive, ServerSide, engine, shared, history
<1>2. /\ toClient' \in Seq(FromServer) /\ Head(toClient) = toClient[1] /\ 1 \in 1..Len(toClient)
      /\ \A i \in 1..Len(toClient') : toClient'[i] = toClient[i + 1] /\ i + 1 \in 1..Len(toClient)
  BY <1>1, HeadTailProperties, TypeFacts DEF IInv
<1>3. \A k : \A i \in Told(k)' : i \in Nat /\ i > 0 /\ i + 1 \in Told(k) /\ toClient'[i] = toClient[i + 1]
  BY <1>2 DEF Told
<1>4. Message("SyncAck", 0) \in FromClient /\ Message("SyncAck", 0).kind = "SyncAck"
  BY Kinds
<1>5. round' \in Rounds /\ round' \in Nat /\ round' >= round
  BY <1>1, TypeFacts DEF IInv, Rounds
<1>6. Typed'
  BY <1>1, <1>2, <1>4, <1>5, ArriveFacts DEF IInv, Typed
<1>7. InTime'
  BY <1>1, <1>3 DEF IInv, InTime
<1>8. OutputsInTime'
  <2>1. \A i, j \in Nat : i < j => i + 1 < j + 1
    OBVIOUS
  <2> QED BY <1>3, <2>1 DEF IInv, OutputsInTime
<1>9. Flags' /\ Fresh' /\ Stored' /\ NothingDropped' /\ WholeRounds'
  BY <1>1, <1>5, DataStays DEF IInv
<1>10. CASE ~Answers
  <2>1. Talking' <=> Talking
    BY <1>1, <1>10 DEF Talking, Kind
  <2>2. Played' /\ Coming'
    BY <1>1, <1>10, <2>1 DEF IInv, Played, Coming, OnTheirWay, Kind
  <2>3. Lockstep'
    <3>1. \A i \in 1..Len(toServer) : Arriving(i)' <=> Arriving(i)
      BY <1>1, <1>10, <2>1 DEF Arriving, Kind
    <3>2. \A i, j \in Told("Sync")' : server # "stopped" => i = j
      <4>1. \A i, j \in Nat : i + 1 = j + 1 => i = j
        OBVIOUS
      <4> QED BY <1>3, <4>1 DEF IInv, Lockstep
    <3>3. Told("Sync")' # {} => Told("Sync") # {}
      BY <1>3
    <3> QED BY <1>1, <1>10, <2>1, <3>1, <3>2, <3>3 DEF IInv, Lockstep, Kind
  <2> QED BY <1>6, <1>7, <1>8, <1>9, <2>2, <2>3 DEF IInv
<1>11. CASE Answers
  <2>1. sent[round'] = {} /\ round' \notin ended /\ round' > 0
    BY <1>1, <1>5, <1>11, TypeFacts DEF IInv, Played, Rounds
  <2>2. Played'
    BY <1>1, <1>5, <1>11, <2>1, TypeFacts DEF IInv, Played
  <2>3. CASE server = "stopped"
    BY <1>1, <1>6, <1>7, <1>8, <1>9, <2>2, <2>3, StoppedSays DEF IInv
  <2>4. CASE server # "stopped"
    <3>1. 1 \in Told("Sync")
      BY <1>2, <1>11 DEF Told
    <3>2. server = "ack" /\ ~Talking /\ \A i \in Told("Sync") : i = 1
      BY <2>4, <3>1 DEF IInv, Lockstep
    <3>3. Told("Sync")' = {}
      BY <1>3, <3>2
    <3>4. toServer = <<>>
      <4> SUFFICES ASSUME toServer # <<>> PROVE FALSE
        OBVIOUS
      <4>1. 1 \in 1..Len(toServer) /\ toServer[1] \in FromClient
        BY TypeFacts DEF IInv
      <4>2. Arriving(1)
        BY <2>4, <4>1 DEF IInv, Lockstep
      <4>3. Kind(1) \in {"Connect", "SyncAck", "Sync", "Disconnect", "SignalUpdate"}
        BY <4>1, Kinds DEF Kind
      <4> QED BY <1>1, <3>2, <4>2, <4>3 DEF Arriving, Talking
    <3>5. Len(toServer') = 1 /\ Kind(1)' = "SyncAck" /\ toServer' # <<>>
      BY <1>1, <1>4, <1>11, <3>4, ArriveFacts DEF IInv
    <3>6. Talking'
      BY <1>1, <3>2, <3>5 DEF Talking
    <3>7. Coming'
      BY <1>1, <2>1, <3>2 DEF Coming
    <3>8. Lockstep'
      <4>1. \A i \in 1..Len(toServer') : i = 1 /\ Arriving(i)'
        BY <1>1, <3>2, <3>5 DEF Arriving, Ends
      <4> QED BY <1>1, <1>11, <3>3, <3>6, <4>1 DEF Lockstep
    <3> QED BY <1>6, <1>7, <1>8, <1>9, <2>2, <3>7, <3>8 DEF IInv
  <2> QED BY <2>3, <2>4
<1> QED BY <1>10, <1>11

LEMMA SendUpdateKeeps == ASSUME IInv, NEW s \in Input, SendUpdate(s) PROVE IInv'
<1>1. /\ client = "answering" /\ ClientSends(Update(s))
      /\ sent' = [sent EXCEPT ![round] = sent[round] \cup {s}]
      /\ UNCHANGED <<time, inputs, current_time, outgoing, incoming, data_ready>>
      /\ UNCHANGED <<server, collected, toClient, client, round, ended, stored, overrun>>
  BY DEF SendUpdate, ServerSide, engine, shared, history
<1>2. round \in 1..MaxRounds /\ round \notin ended /\ round \in Rounds
  BY <1>1, TypeFacts DEF IInv, Played, Rounds
<1>3. /\ Update(s) \in FromClient /\ Update(s).kind = "SignalUpdate"
      /\ Update(s).signal = s /\ Update(s).of = round
  BY <1>2 DEF Update, FromClient, Updates
<1>4. /\ sent' \in [1..MaxRounds -> SUBSET Input] /\ sent'[round] = sent[round] \cup {s}
      /\ \A r \in 1..MaxRounds : r # round => sent'[r] = sent[r]
  BY <1>1, <1>2 DEF IInv, Typed
<1>5. Typed'
  BY <1>1, <1>3, <1>4, ArriveFacts DEF IInv, Typed
<1>6. InTime' /\ OutputsInTime'
  BY <1>1, TimesStay DEF IInv
<1>7. Flags' /\ Fresh' /\ Stored' /\ NothingDropped' /\ WholeRounds'
  <2>1. \A r \in ended : sent'[r] = sent[r]
    BY <1>2, <1>4 DEF IInv, Typed
  <2>2. round' >= round /\ round' \in Nat /\ ended \subseteq ended'
    BY <1>1, TypeFacts DEF IInv
  <2> QED BY <1>1, <2>1, <2>2, DataStays
<1>8. Talking' <=> Talking
  BY <1>1, <1>3, TalkingStays DEF IInv
<1>9. Played'
  BY <1>1, <1>2, <1>4, <1>8 DEF IInv, Played
<1>10. CASE server = "stopped"
  BY <1>1, <1>5, <1>6, <1>7, <1>9, <1>10, StoppedSays DEF IInv
<1>11. CASE server # "stopped"
  <2> PICK n : n = Len(toServer) + 1
    OBVIOUS
  <2>1. Talking /\ \A i \in 1..Len(toServer) : Kind(i) \notin Ends
    BY <1>1, <1>11 DEF IInv, Lockstep, Arriving
  <2>2. /\ toServer'[n] = Update(s) /\ n \in 1..Len(toServer')
        /\ \A i \in 1..Len(toServer) : toServer'[i] = toServer[i] /\ i \in 1..Len(toServer')
    BY <1>1, <1>3, ArriveFacts DEF IInv
  <2>3. Arriving(n)'
    <3>1. Kind(n)' = "SignalUpdate"
      BY <1>3, <2>2 DEF Kind
    <3> QED BY <1>1, <1>3, <1>8, <2>1, <2>2, <3>1 DEF Arriving, Ends
  <2>4. Told("Sync")' = {}
    BY <1>1, <1>11, <2>1 DEF IInv, Lockstep, Told
  <2>5. Lockstep'
    BY <1>1, <1>3, <1>8, <1>11, <2>1, <2>3, <2>4, ArriveKeeps DEF IInv
  <2>6. Coming'
    <3>1. ASSUME NEW t \in sent'[round] PROVE OnTheirWay(t)' \/ (server = "updates" /\ Has(collected, t))
      <4>1. CASE t = s
        BY <1>3, <2>2, <4>1 DEF OnTheirWay, Kind
      <4>2. CASE t \in sent[round]
        BY <2>1, <2>2, <4>2 DEF IInv, Coming, OnTheirWay, Kind
      <4> QED BY <1>4, <3>1, <4>1, <4>2
    <3> QED BY <1>1, <3>1 DEF IInv, Coming
  <2> QED BY <1>5, <1>6, <1>7, <1>9, <2>5, <2>6 DEF IInv
<1> QED BY <1>10, <1>11

\* A message of the kind m.kind that ends a round.
LEMMA EndKeeps ==
  ASSUME IInv, NEW m \in FromClient, ClientSends(m),
         \/ m.kind = "Sync" /\ client = "answering" /\ client' = "waiting"
         \/ m.kind = "Disconnect" /\ client \in {"waiting", "answering"} /\ client' = "gone",
         ended' = IF round > 0 THEN ended \cup {round} ELSE ended,
         UNCHANGED <<time, inputs, current_time, outgoing, incoming, data_ready>>,
         UNCHANGED <<server, collected, toClient, round, sent, stored, overrun>>
  PROVE  IInv'
<1>1. round > 0 => round \in 1..MaxRounds
  BY TypeFacts DEF IInv
<1>2. ended' \subseteq 1..MaxRounds /\ ended \subseteq ended' /\ \A r \in ended' : r \in ended \/ r = round
  BY <1>1 DEF IInv, Typed
<1>3. Typed'
  BY <1>2, ArriveFacts DEF IInv, Typed
<1>4. InTime' /\ OutputsInTime'
  BY TimesStay DEF IInv
<1>5. Flags' /\ Fresh' /\ Stored' /\ NothingDropped' /\ WholeRounds'
  <2>1. round' >= round /\ round' \in Nat
    BY TypeFacts DEF IInv
  <2> QED BY <1>2, <2>1, DataStays
<1>6. Talking' <=> Talking
  BY TalkingStays DEF IInv
<1>7. Played'
  <2>1. \A r \in 1..MaxRounds : r > round => r # round
    BY TypeFacts DEF IInv
  <2> QED BY <1>2, <1>6, <2>1 DEF IInv, Played
<1>8. CASE server = "stopped"
  BY <1>3, <1>4, <1>5, <1>7, <1>8, StoppedSays DEF IInv
<1>9. CASE server # "stopped"
  <2> PICK n : n = Len(toServer) + 1
    OBVIOUS
  <2>1. Talking' => round \in ended'
    BY <1>6 DEF IInv, Played
  <2>2. /\ toServer'[n] = m /\ n \in 1..Len(toServer')
        /\ \A i \in 1..Len(toServer) : toServer'[i] = toServer[i] /\ i \in 1..Len(toServer')
    BY ArriveFacts DEF IInv
  <2>3. \A i \in 1..Len(toServer) : Kind(i) \in Ends => client # "answering"
    BY <1>9 DEF IInv, Lockstep, Arriving
  <2>4. m.kind = "Sync" => Talking
    BY <1>9 DEF IInv, Lockstep
  <2>5. Arriving(n)'
    <3>1. Kind(n)' = m.kind
      BY <2>2 DEF Kind
    <3> QED BY <1>6, <2>1, <2>4, <3>1 DEF Arriving, Ends
  <2>6. \A i \in Told("Sync")' : server = "ack" /\ ~Talking'
    BY <1>6, <1>9 DEF IInv, Lockstep, Told
  <2>7. client' # "answering" /\ client' # "out" /\ client # "gone" /\ m.kind # "SyncAck"
    OBVIOUS
  <2>8. \A i \in 1..Len(toServer) : Kind(i) \notin Ends \/ m.kind = "Disconnect"
    BY <2>3
  <2>9. Lockstep'
    BY <1>6, <1>9, <2>1, <2>5, <2>6, <2>7, <2>8, ArriveKeeps DEF IInv
  <2>10. Coming'
    <3>1. \A s : OnTheirWay(s) => OnTheirWay(s)'
      BY <2>2 DEF OnTheirWay, Kind
    <3> QED BY <1>6, <3>1 DEF IInv, Coming
  <2> QED BY <1>3, <1>4, <1>5, <1>7, <2>9, <2>10 DEF IInv
<1> QED BY <1>8, <1>9

LEMMA EndRoundKeeps == ASSUME IInv, EndRound PROVE IInv'
<1>1. Message("Sync", 0) \in FromClient /\ Message("Sync", 0).kind = "Sync"
  BY Kinds
<1>2. /\ client = "answering" /\ client' = "waiting" /\ ClientSends(Message("Sync", 0))
      /\ ended' = ended \cup {round}
      /\ UNCHANGED <<time, inputs, current_time, outgoing, incoming, data_ready>>
      /\ UNCHANGED <<server, collected, toClient, round, sent, stored, overrun>>
  BY DEF EndRound, ServerSide, engine, shared, history
<1>3. round > 0
  BY <1>2 DEF IInv, Played
<1> QED BY <1>1, <1>2, <1>3, EndKeeps

LEMMA LeaveKeeps == ASSUME IInv, Leave PROVE IInv'
<1>1. Message("Disconnect", 0) \in FromClient /\ Message("Disconnect", 0).kind = "Disconnect"
  BY Kinds
<1>2. /\ client \in {"waiting", "answering"} /\ client' = "gone" /\ ClientSends(Message("Disconnect", 0))
      /\ ended' = IF round > 0 THEN ended \cup {round} ELSE ended
      /\ UNCHANGED <<time, inputs, current_time, outgoing, incoming, data_ready>>
      /\ UNCHANGED <<server, collected, toClient, round, sent, stored, overrun>>
  BY DEF Leave, ServerSide, engine, shared, history
<1> QED BY <1>1, <1>2, EndKeeps

LEMMA SilenceKeeps == ASSUME IInv, AwaitSync \/ Die PROVE IInv'
<1>1. /\ client' \in {"waiting", "gone"} /\ client \in {"waiting", "answering"}
      /\ UNCHANGED <<time, inputs, current_time, outgoing, incoming, data_ready>>
      /\ UNCHANGED <<server, collected, toServer, toClient, round, sent, ended, stored, overrun>>
  BY DEF AwaitSync, Die, ServerSide, engine, shared, connection, history
<1>2. Typed'
  BY <1>1 DEF IInv, Typed
<1>3. InTime' /\ OutputsInTime'
  BY <1>1, TimesStay DEF IInv
<1>4. Flags' /\ Fresh' /\ Stored' /\ NothingDropped' /\ WholeRounds'
  BY <1>1, DataStays, TypeFacts DEF IInv
<1>5. Talking' <=> Talking
  BY <1>1 DEF Talking, Kind
<1>6. Played' /\ Coming'
  BY <1>1, <1>5 DEF IInv, Played, Coming, OnTheirWay, Kind
<1>7. Lockstep'
  <2>1. \A i \in 1..Len(toServer) : Arriving(i) => Arriving(i)'
    BY <1>1, <1>5 DEF Arriving, Kind
  <2> QED BY <1>1, <1>5, <2>1 DEF IInv, Lockstep, Told, Kind
<1> QED BY <1>2, <1>3, <1>4, <1>6, <1>7 DEF IInv
-----------------------------------------------------------------------------
LEMMA StepKeeps == IInv /\ [Next]_vars => IInv'
<1> SUFFICES ASSUME IInv, [Next]_vars PROVE IInv'
  OBVIOUS
<1>1. CASE Exchange \/ EnterRun
  BY <1>1, ExchangeKeeps, EnterRunKeeps
<1>2. CASE Serve
  BY <1>2, ReadConnectKeeps, SendOutputsKeeps, SendSyncKeeps, ReadAckKeeps, ReadUpdateKeeps, EndUpdatesKeeps,
     StopKeeps DEF Serve
<1>3. CASE Partner
  BY <1>3, ConnectKeeps, ReceiveKeeps, SendUpdateKeeps, EndRoundKeeps, LeaveKeeps, SilenceKeeps DEF Partner
<1>4. CASE UNCHANGED vars
  <2>1. /\ UNCHANGED <<time, inputs, current_time, outgoing, incoming, data_ready>>
        /\ UNCHANGED <<server, collected, toServer, toClient, client, round, sent, ended, stored, overrun>>
    BY <1>4 DEF vars, engine, shared, connection, partner, history
  <2>2. Typed'
    BY <2>1 DEF IInv, Typed
  <2>3. Played' /\ Lockstep' /\ Coming'
    BY <2>1, ChannelStays DEF IInv
  <2>4. Flags' /\ Fresh' /\ Stored' /\ NothingDropped' /\ WholeRounds'
    BY <2>1, DataStays, TypeFacts DEF IInv
  <2> QED BY <2>1, <2>2, <2>3, <2>4, TimesStay DEF IInv
<1> QED BY <1>1, <1>2, <1>3, <1>4 DEF Next

LEMMA AlwaysIInv == Spec => []IInv
<1> QED BY InitIInv, StepKeeps, PTL DEF Spec

\* Every reachable state is well-typed, and the server never holds updates of
\* two rounds (server.rs:104-163), for any set of inputs.
THEOREM TypeCorrect == Spec => []TypeOK
<1>1. IInv => TypeOK
  BY DEF IInv, Flags, Typed, TypeOK
<1> QED BY <1>1, AlwaysIInv, PTL

\* What crosses the bridge is whole, complete and in time (server.rs:79-163 and
\* the exchange in core.rs:1666-1711), whatever the client does.
THEOREM BridgeSafety == Spec => []ExchangeSound
<1>1. IInv => ExchangeSound
  BY DEF IInv, ExchangeSound
<1> QED BY <1>1, AlwaysIInv, PTL
=============================================================================
