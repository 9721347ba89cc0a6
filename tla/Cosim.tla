-------------------------------- MODULE Cosim ---------------------------------
(***************************************************************************)
(* The co-simulation bridge: the engine, a server thread and an external     *)
(* simulator.  Engine and server share CosimState under a mutex, the server  *)
(* talks to the client over one TCP connection (cosim/server.rs, cosim/      *)
(* mod.rs, and the exchange at the end of a time step in engine/core.rs).    *)
(* Each lock region and each message read or written is a step.              *)
(*                                                                         *)
(* The client is external.  It does what the server's handler makes it do: it *)
(* answers a Sync with SyncAck and updates of its signals, then sends any     *)
(* message the handler takes for the end of the updates, or, as the          *)
(* handler's comment has it, none; it may leave or die at any time.          *)
(*                                                                         *)
(* The value of an output is the time step that produced it, that of an       *)
(* input the round of the client that sent it.                               *)
(***************************************************************************)
EXTENDS Naturals, Sequences

CONSTANTS
  Input,      \* the signals the client drives
  MaxTime,    \* sim_limit
  MaxRounds   \* bound: Syncs the client answers

ASSUME CosimAssumption == MaxTime \in Nat /\ MaxRounds \in Nat

VARIABLES
  time,           \* state.time; beyond MaxTime the program has ended
  inputs,         \* the input signals in the engine
  current_time, outgoing, incoming, data_ready,   \* CosimState
  server,         \* where the handler is
  collected,      \* the updates of this round it has read
  toServer, toClient,
  client,         \* "out", "waiting" for a Sync, "answering", or "gone"
  round,          \* the Syncs the client has answered
  sent,           \* history: the signals it sent in each round
  ended,          \* history: the rounds it ended
  stored,         \* history: the newest value of each input that was stored
  overrun         \* history: a round was stored over one not taken yet

engine == <<time, inputs>>
shared == <<current_time, outgoing, incoming, data_ready>>
connection == <<toServer, toClient>>
partner == <<client, round, sent, ended>>
history == <<stored, overrun>>
vars == <<engine, shared, server, collected, connection, partner, history>>

Message(kind, of) == [kind |-> kind, of |-> of]
Update(s) == [kind |-> "SignalUpdate", signal |-> s, of |-> round]
NoOutputs == MaxTime + 2   \* none published yet

Init ==
  /\ time = 0 /\ inputs = [s \in Input |-> 0]
  /\ current_time = 0 /\ outgoing = NoOutputs /\ incoming = {} /\ data_ready = FALSE
  /\ server = "connect" /\ collected = {}
  /\ toServer = <<>> /\ toClient = <<>>
  /\ client = "out" /\ round = 0
  /\ sent = [r \in 1..MaxRounds |-> {}] /\ ended = {}
  /\ stored = [s \in Input |-> 0] /\ overrun = FALSE
-----------------------------------------------------------------------------
(* The engine.                                                              *)

\* Updates in the order they came: a signal has its newest value.
Newest(U, s, old) ==
  IF \E u \in U : u.signal = s THEN (CHOOSE u \in U : u.signal = s).of ELSE old
Applied(U, f) == [s \in Input |-> Newest(U, s, f[s])]

RunGoesOn == time <= MaxTime

\* The end of a time step: outputs and time are published and what the client
\* sent is taken, under one lock.  After the last step the program ends, and
\* its server thread with it.
Exchange ==
  /\ RunGoesOn
  /\ current_time' = time /\ outgoing' = time
  /\ IF data_ready
     THEN inputs' = Applied(incoming, inputs) /\ incoming' = {} /\ data_ready' = FALSE
     ELSE UNCHANGED <<inputs, incoming, data_ready>>
  /\ time' = time + 1
  /\ server' = IF time = MaxTime THEN "stopped" ELSE server
  /\ UNCHANGED <<collected, connection, partner, history>>

\* run() is entered again after a pause: the time is published, no outputs.
EnterRun ==
  /\ RunGoesOn /\ current_time # time
  /\ current_time' = time
  /\ UNCHANGED <<engine, outgoing, incoming, data_ready, server, collected, connection, partner, history>>
-----------------------------------------------------------------------------
(* The server thread.                                                       *)

Sends(m) == toClient' = Append(toClient, m)
Reads(kinds) == toServer # <<>> /\ Head(toServer).kind \in kinds /\ toServer' = Tail(toServer)

\* Connect with a list of signals; anything else is answered with an error.
ReadConnect ==
  /\ server = "connect"
  /\ \/ Reads({"Connect"}) /\ Sends(Message("ConnectAck", 0)) /\ server' = "outputs"
     \/ Reads({"Disconnect"}) /\ Sends(Message("Error", 0)) /\ server' = "stopped"
  /\ UNCHANGED <<engine, shared, collected, partner, history>>

SendOutputs ==
  /\ server = "outputs"
  /\ IF outgoing = NoOutputs THEN UNCHANGED toClient ELSE Sends(Message("SignalUpdate", outgoing))
  /\ server' = "sync"
  /\ UNCHANGED <<engine, shared, collected, toServer, partner, history>>

\* The time is read under a lock of its own.
SendSync ==
  /\ server = "sync"
  /\ Sends(Message("Sync", current_time))
  /\ server' = "ack"
  /\ UNCHANGED <<engine, shared, collected, toServer, partner, history>>

HeapingAck ==   \* mutant: the updates of the round before are kept
  /\ server = "ack"
  /\ \/ Reads({"SyncAck"}) /\ server' = "updates"
     \/ Reads({"Disconnect", "SignalUpdate", "Sync"}) /\ server' = "stopped"
  /\ UNCHANGED <<engine, shared, collected, toClient, partner, history>>

ReadAck ==
  /\ server = "ack"
  /\ \/ Reads({"SyncAck"}) /\ server' = "updates" /\ collected' = {}
     \/ Reads({"Disconnect", "SignalUpdate", "Sync"}) /\ server' = "stopped" /\ UNCHANGED collected
  /\ UNCHANGED <<engine, shared, toClient, partner, history>>

ReadUpdate ==
  /\ server = "updates"
  /\ Reads({"SignalUpdate"})
  /\ collected' = collected \cup {Head(toServer)}
  /\ UNCHANGED <<engine, shared, server, toClient, partner, history>>

\* incoming_signals = incoming; data_ready = true.
Store == incoming' = collected /\ data_ready' = TRUE

\* The end of the updates: Disconnect, or whatever else is not an update.
EndUpdates ==
  /\ server = "updates"
  /\ \/ Reads({"Disconnect"}) /\ server' = "stopped"
     \/ Reads({"Sync", "SyncAck"}) /\ server' = "outputs"
  /\ Store
  /\ stored' = Applied(collected, stored)
  /\ overrun' = (overrun \/ data_ready)
  /\ UNCHANGED <<engine, current_time, outgoing, collected, toClient, partner>>

KeepWhatCame ==   \* mutant: the updates read before the connection broke are stored
  IF server = "updates" THEN Store ELSE UNCHANGED <<incoming, data_ready>>

DropWhatCame == UNCHANGED <<incoming, data_ready>>

\* The connection is closed, or lost with what was on its way.
ConnectionLost ==
  /\ client = "gone" /\ server # "stopped"
  /\ server \in {"connect", "ack", "updates"} => toServer = <<>> \/ toClient # <<>>
  /\ server' = "stopped"
  /\ DropWhatCame
  /\ UNCHANGED <<engine, current_time, outgoing, collected, connection, partner, history>>

OnlyAckTimed == {"ack"}   \* mutant: updates are waited for without a limit
TimedReads == {"ack", "updates"}

\* set_read_timeout: 30 seconds without a message.  It is set behind the
\* Connect, which is waited for without a limit.
ReadTimeout ==
  /\ server \in TimedReads /\ toServer = <<>>
  /\ server' = "stopped"
  /\ UNCHANGED <<engine, shared, collected, connection, partner, history>>

Serve ==
  \/ ReadConnect \/ SendOutputs \/ SendSync \/ ReadAck \/ ReadUpdate \/ EndUpdates
  \/ ConnectionLost \/ ReadTimeout
-----------------------------------------------------------------------------
(* The client.                                                              *)

ClientSends(m) == toServer' = Append(toServer, m)
ServerSide == <<engine, shared, server, collected, history>>

Connect ==
  /\ client = "out"
  /\ ClientSends(Message("Connect", 0)) /\ client' = "waiting"
  /\ UNCHANGED <<ServerSide, toClient, round, sent, ended>>

\* A Sync is acknowledged at once and begins a round.
Receive ==
  /\ client = "waiting" /\ toClient # <<>>
  /\ toClient' = Tail(toClient)
  /\ IF Head(toClient).kind = "Sync" /\ round < MaxRounds
     THEN client' = "answering" /\ round' = round + 1 /\ ClientSends(Message("SyncAck", 0))
     ELSE UNCHANGED <<client, round, toServer>>
  /\ UNCHANGED <<ServerSide, sent, ended>>

SendUpdate(s) ==
  /\ client = "answering" /\ s \notin sent[round]
  /\ ClientSends(Update(s))
  /\ sent' = [sent EXCEPT ![round] = @ \cup {s}]
  /\ UNCHANGED <<ServerSide, toClient, client, round, ended>>

EndRound ==
  /\ client = "answering"
  /\ ClientSends(Message("Sync", 0)) /\ client' = "waiting"
  /\ ended' = ended \cup {round}
  /\ UNCHANGED <<ServerSide, toClient, round, sent>>

\* It waits for the next Sync without saying that its updates are complete.
AwaitSync ==
  /\ client = "answering"
  /\ client' = "waiting"
  /\ UNCHANGED <<ServerSide, connection, round, sent, ended>>

Leave ==
  /\ client \in {"waiting", "answering"}
  /\ ClientSends(Message("Disconnect", 0)) /\ client' = "gone"
  /\ ended' = IF round > 0 THEN ended \cup {round} ELSE ended
  /\ UNCHANGED <<ServerSide, toClient, round, sent>>

Die ==
  /\ client \in {"waiting", "answering"}
  /\ client' = "gone"
  /\ UNCHANGED <<ServerSide, connection, round, sent, ended>>

Partner ==
  Connect \/ Receive \/ (\E s \in Input : SendUpdate(s)) \/ EndRound \/ AwaitSync \/ Leave \/ Die
-----------------------------------------------------------------------------
Next == Exchange \/ EnterRun \/ Serve \/ Partner

\* The server thread runs on, and its reads return at the latest by their
\* timeout.  Nothing is assumed of the engine and the client.
Spec == Init /\ [][Next]_vars /\ WF_vars(Serve)
-----------------------------------------------------------------------------
Rounds == 0..MaxRounds
Times == 0..MaxTime + 1
FromServer ==
  {Message(k, 0) : k \in {"ConnectAck", "Error"}} \cup {Message(k, t) : k \in {"SignalUpdate", "Sync"}, t \in Times}
Updates == [kind : {"SignalUpdate"}, signal : Input, of : Rounds]
FromClient == {Message(k, 0) : k \in {"Connect", "SyncAck", "Sync", "Disconnect"}} \cup Updates

\* Every variable has its type, and the two sides are in lockstep: the server
\* holds no more than the updates of one round.
TypeOK ==
  /\ time \in Times /\ current_time \in Times /\ outgoing \in Times \cup {NoOutputs}
  /\ inputs \in [Input -> Rounds] /\ stored \in [Input -> Rounds]
  /\ incoming \subseteq Updates /\ collected \subseteq Updates
  /\ data_ready \in BOOLEAN /\ overrun \in BOOLEAN
  /\ server \in {"connect", "outputs", "sync", "ack", "updates", "stopped"}
  /\ toServer \in Seq(FromClient) /\ toClient \in Seq(FromServer)
  /\ client \in {"out", "waiting", "answering", "gone"} /\ round \in Rounds
  /\ sent \in [1..MaxRounds -> SUBSET Input] /\ ended \subseteq 1..MaxRounds
  /\ \A u, v \in collected : u.of = v.of

\* Unless a round was stored over one the engine had not taken, the newest
\* stored value of every input is in the engine or waits for it.
NothingDropped == ~overrun => \A s \in Input : stored[s] = Newest(incoming, s, inputs[s])

\* A round reaches the engine all together or not at all, and only if the
\* client ended it.
WholeRounds ==
  \A r \in 1..MaxRounds :
    (\E s \in Input : inputs[s] = r) => r \in ended /\ \A s \in sent[r] : inputs[s] >= r

\* Outputs on their way to the client are never newer than the time of the
\* Sync that follows, and neither goes back: their lock regions may be of
\* different time steps.
Told(k) == {i \in 1..Len(toClient) : toClient[i].kind = k}
OutputsInTime ==
  /\ \A i \in Told("SignalUpdate"), j \in Told("Sync") : i < j => toClient[i].of <= toClient[j].of
  /\ \A k \in {"SignalUpdate", "Sync"} : \A i, j \in Told(k) : i < j => toClient[i].of <= toClient[j].of

\* What crosses the bridge is whole, complete and in time, whatever the client
\* does and whenever the connection breaks.
ExchangeSound == NothingDropped /\ WholeRounds /\ OutputsInTime

\* A client that waits gets a message or is let go: nobody waits for the other
\* for ever, even if the client does not end its updates.
NoMutualWait == client = "waiting" ~> (toClient # <<>> \/ client # "waiting" \/ server = "stopped")
=============================================================================
