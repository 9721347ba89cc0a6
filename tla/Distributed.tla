----------------------------- MODULE Distributed ------------------------------
(***************************************************************************)
(* A distributed run: a master that accepts one slave per partition, syncs    *)
(* them in rounds and marks those it loses as faulty, and slaves that take a  *)
(* partition, simulate it to its end, report once and close their connection *)
(* (distributed/master.rs, slave.rs).  Every message is a step, and a slave   *)
(* can fail between any two of its own.                                      *)
(*                                                                         *)
(* These are the only messages the program's slaves send, so the master's    *)
(* branches for SignalExchange and Heartbeat never run and are left out.     *)
(***************************************************************************)
EXTENDS Naturals, Sequences

CONSTANTS
  Slave,        \* the slave processes anybody may start
  Partitions,   \* partition.num_partitions
  MaxTime       \* bound of max_time

ASSUME DistributedAssumption == Partitions \in Nat \ {0, 1} /\ MaxTime \in Nat

VARIABLES
  max_time,
  master,         \* "accept", "ack", "round", "sync", "collect", "notify", "ended"
  slaves,         \* self.slaves: the slave of each partition, in order
  index,          \* the partition the loop of the round has come to
  faulty_slaves,  \* partitions
  current_time,   \* rounds
  outcome,        \* "none" yet, "complete", or the error the run returned
  slave,          \* "new", "connected", "simulating", "reported", "ended" or "failed"
  backlog,        \* connections not accepted yet
  assigned,       \* slaves a PartitionAssign was sent to
  toMaster,       \* what each slave sent and the master has not read
  heard           \* history: partitions whose PartitionDone was read

masters == <<max_time, master, slaves, index, faulty_slaves, current_time, outcome, heard>>
workers == <<slave, backlog>>
vars == <<masters, workers, assigned, toMaster>>

Init ==
  /\ max_time \in 0..MaxTime
  /\ master = "accept" /\ slaves = <<>> /\ index = 1
  /\ faulty_slaves = {} /\ current_time = 0 /\ outcome = "none"
  /\ slave = [s \in Slave |-> "new"] /\ backlog = <<>> /\ assigned = {}
  /\ toMaster = [s \in Slave |-> <<>>]
  /\ heard = {}

Closed(s) == slave[s] \in {"ended", "failed"}
Sends(s, m) == toMaster' = [toMaster EXCEPT ![s] = Append(@, m)]
Fails(why) == master' = "ended" /\ outcome' = why
-----------------------------------------------------------------------------
(* The master accepts the slaves.                                           *)

Current == slaves[index]
Newest == slaves[Len(slaves)]
AcceptingOneMore == master = "accept" /\ Len(slaves) <= Partitions   \* mutant
Accepting == master = "accept" /\ Len(slaves) < Partitions

\* timeout_secs, looked at before each accept.
Timeout ==
  /\ Accepting
  /\ Fails("timeout")
  /\ UNCHANGED <<max_time, slaves, index, faulty_slaves, current_time, heard, workers, assigned, toMaster>>

\* The write to a slave that is gone fails, or not yet.
Accept ==
  /\ Accepting /\ backlog # <<>>
  /\ backlog' = Tail(backlog)
  /\ \/ /\ assigned' = assigned \cup {Head(backlog)}
        /\ slaves' = Append(slaves, Head(backlog))
        /\ master' = "ack"
        /\ UNCHANGED outcome
     \/ /\ Closed(Head(backlog))
        /\ Fails("handshake")
        /\ UNCHANGED <<slaves, assigned>>
  /\ UNCHANGED <<max_time, index, faulty_slaves, current_time, heard, slave, toMaster>>

\* The reads of the master have no timeout: they end with a message or with
\* the connection.  One that is closed over a DeltaSync its slave never reads
\* is reset, and may lose what the master has not read.
Hears(s, m) == toMaster[s] # <<>> /\ Head(toMaster[s]) = m /\ toMaster' = [toMaster EXCEPT ![s] = Tail(@)]
Loses(s) ==
  /\ Closed(s) /\ (master = "collect" \/ toMaster[s] = <<>>)
  /\ toMaster' = [toMaster EXCEPT ![s] = <<>>]

ReadAck ==
  /\ master = "ack"
  /\ \/ Hears(Newest, "PartitionAck") /\ master' = "accept" /\ UNCHANGED outcome
     \/ Loses(Newest) /\ Fails("handshake")
  /\ UNCHANGED <<max_time, slaves, index, faulty_slaves, current_time, heard, workers, assigned>>

AllConnected ==
  /\ master = "accept" /\ Len(slaves) = Partitions
  /\ master' = "round"
  /\ UNCHANGED <<max_time, slaves, index, faulty_slaves, current_time, outcome, heard, workers, assigned, toMaster>>
-----------------------------------------------------------------------------
(* The rounds.                                                              *)

\* To the next partition of the loop, or behind the loop.
Advance(next) ==
  IF index = Partitions THEN index' = 1 /\ master' = next ELSE index' = index + 1 /\ UNCHANGED master

StartRound ==
  /\ master = "round"
  /\ IF current_time >= max_time THEN master' = "notify" /\ UNCHANGED outcome
     ELSE IF faulty_slaves = 1..Partitions THEN Fails("aborted")
     ELSE master' = "sync" /\ UNCHANGED outcome
  /\ UNCHANGED <<max_time, slaves, index, faulty_slaves, current_time, heard, workers, assigned, toMaster>>

SendSync ==
  /\ master = "sync"
  /\ \/ UNCHANGED faulty_slaves
     \/ /\ index \notin faulty_slaves /\ Closed(Current)
        /\ faulty_slaves' = faulty_slaves \cup {index}
  /\ Advance("collect")
  /\ UNCHANGED <<max_time, slaves, current_time, outcome, heard, workers, assigned, toMaster>>

EndRound ==
  IF index = Partitions
  THEN index' = 1 /\ master' = "round" /\ current_time' = current_time + 1
  ELSE index' = index + 1 /\ UNCHANGED <<master, current_time>>

ForgivingRead ==   \* mutant: the end of a connection is not a fault
  Loses(Current) /\ UNCHANGED <<faulty_slaves, heard>>

CarelessRead ==   \* mutant: a slave that has reported is done with, and so is its connection
  \/ Hears(Current, "PartitionDone") /\ heard' = heard \cup {index} /\ faulty_slaves' = faulty_slaves \cup {index}
  \/ Loses(Current) /\ faulty_slaves' = faulty_slaves \cup {index} /\ UNCHANGED heard

WaitingRead ==   \* mutant: the end of a connection does not end a read
  Hears(Current, "PartitionDone") /\ heard' = heard \cup {index} /\ UNCHANGED faulty_slaves

\* One message of the slave, or the end of its connection.
CollectOne ==
  \/ Hears(Current, "PartitionDone") /\ heard' = heard \cup {index} /\ UNCHANGED faulty_slaves
  \/ Loses(Current) /\ faulty_slaves' = faulty_slaves \cup {index} /\ UNCHANGED heard

Collect ==
  /\ master = "collect"
  /\ IF index \in faulty_slaves THEN UNCHANGED <<toMaster, heard, faulty_slaves>> ELSE CollectOne
  /\ EndRound
  /\ UNCHANGED <<max_time, slaves, outcome, workers, assigned>>

\* PartitionDone to all slaves, the faulty ones too: one that cannot be
\* written fails the run.
Notify ==
  /\ master = "notify"
  /\ \/ /\ Advance("ended")
        /\ outcome' = IF index = Partitions THEN "complete" ELSE outcome
     \/ Closed(Current) /\ Fails("notify") /\ UNCHANGED index
  /\ UNCHANGED <<max_time, slaves, faulty_slaves, current_time, heard, workers, assigned, toMaster>>

Master == Timeout \/ Accept \/ ReadAck \/ AllConnected \/ StartRound \/ SendSync \/ Collect \/ Notify
-----------------------------------------------------------------------------
(* A slave.                                                                 *)

Connect(s) ==
  /\ slave[s] = "new"
  /\ IF master = "ended" THEN slave' = [slave EXCEPT ![s] = "failed"] /\ UNCHANGED backlog
     ELSE slave' = [slave EXCEPT ![s] = "connected"] /\ backlog' = Append(backlog, s)
  /\ UNCHANGED <<masters, assigned, toMaster>>

ReadAssign(s) ==
  /\ slave[s] = "connected" /\ s \in assigned
  /\ slave' = [slave EXCEPT ![s] = "simulating"]
  /\ Sends(s, "PartitionAck")
  /\ UNCHANGED <<masters, backlog, assigned>>

\* engine.run() to its end, and one message about it.
Report(s) ==
  /\ slave[s] = "simulating"
  /\ slave' = [slave EXCEPT ![s] = "reported"]
  /\ Sends(s, "PartitionDone")
  /\ UNCHANGED <<masters, backlog, assigned>>

Close(s) ==
  /\ slave[s] = "reported"
  /\ slave' = [slave EXCEPT ![s] = "ended"]
  /\ UNCHANGED <<masters, backlog, assigned, toMaster>>

\* The master is gone: no assignment comes, or a write fails.
LoseMaster(s) ==
  /\ master = "ended"
  /\ slave[s] \in {"connected", "simulating"}
  /\ slave' = [slave EXCEPT ![s] = "failed"]
  /\ UNCHANGED <<masters, backlog, assigned, toMaster>>

\* A crash, or an error of the simulation.
Crash(s) ==
  /\ slave[s] \in {"connected", "simulating", "reported"}
  /\ slave' = [slave EXCEPT ![s] = "failed"]
  /\ UNCHANGED <<masters, backlog, assigned, toMaster>>

Work(s) == ReadAssign(s) \/ Report(s) \/ Close(s) \/ LoseMaster(s)
-----------------------------------------------------------------------------
Next == Master \/ \E s \in Slave : Connect(s) \/ Work(s) \/ Crash(s)

\* The master runs on, and a slave that has connected simulates to an end.
\* Nobody has to start a slave.
Spec == Init /\ [][Next]_vars /\ WF_vars(Master) /\ \A s \in Slave : WF_vars(Work(s))
-----------------------------------------------------------------------------
\* Every variable has its type, the slave of a partition is the slave of no
\* other, and no more slaves are accepted than there are partitions.
TypeOK ==
  /\ max_time \in 0..MaxTime /\ current_time \in 0..max_time
  /\ master \in {"accept", "ack", "round", "sync", "collect", "notify", "ended"}
  /\ slaves \in Seq(Slave) /\ Len(slaves) <= Partitions
  /\ \A i, j \in 1..Len(slaves) : slaves[i] = slaves[j] => i = j
  /\ index \in 1..Partitions /\ faulty_slaves \subseteq 1..Partitions /\ heard \subseteq 1..Partitions
  /\ outcome \in {"none", "complete", "timeout", "handshake", "aborted", "notify"}
  /\ slave \in [Slave -> {"new", "connected", "simulating", "reported", "ended", "failed"}]
  /\ backlog \in Seq(Slave) /\ assigned \subseteq Slave
  /\ toMaster \in [Slave -> Seq({"PartitionAck", "PartitionDone"})]

\* Only a slave whose connection is gone is ever marked as faulty, so the
\* master never goes on without one that is still simulating or has a report
\* on its way.
FaultyIsGone == \A i \in faulty_slaves : Closed(slaves[i])

\* A round waits for all: after the first, every partition has reported or its
\* slave is gone; and no partition reports before the last slave has connected.
RoundsWaitForAll ==
  /\ current_time > 0 => heard \cup faulty_slaves = 1..Partitions
  /\ heard # {} => Len(slaves) = Partitions

\* The master comes to an end, and with it every slave that has connected.
EverybodyEnds ==
  <>(outcome # "none" /\ \A s \in Slave : slave[s] \notin {"connected", "simulating", "reported"})
=============================================================================
