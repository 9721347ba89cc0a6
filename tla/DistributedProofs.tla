-------------------------- MODULE DistributedProofs ---------------------------
(***************************************************************************)
(* The rounds of a distributed run, for any number of partitions, slaves and *)
(* crashes.  The argument counts messages: a slave sends PartitionAck and    *)
(* PartitionDone, the handshake takes the one and the first round that hears *)
(* it the other: a partition that has been heard of has nothing more to say.  *)
(***************************************************************************)
EXTENDS Distributed, SequenceTheorems, TLAPS

Ack == "PartitionAck"
Done == "PartitionDone"

\* What a slave may have sent, and what is left of it once its PartitionAck has
\* been read.
Silent == {"new", "connected"}
Over == {"reported", "ended", "failed"}
Mail == {<<>>, <<Ack>>, <<Ack, Done>>, <<Done>>}

\* slaves and backlog hold every slave at most once, and only connected ones.
Queues ==
  /\ assigned = {slaves[i] : i \in 1..Len(slaves)}
  /\ \A i, j \in 1..Len(backlog) : backlog[i] = backlog[j] => i = j
  /\ \A i \in 1..Len(backlog) : slave[backlog[i]] # "new" /\ backlog[i] \notin assigned
  /\ \A s \in assigned : slave[s] # "new"
  /\ \A s \in Slave : slave[s] \in {"simulating", "reported", "ended"} => s \in assigned

\* Whether the handshake with the slave of partition i is over.
Greeted(i) == i < Len(slaves) \/ master # "ack"

Messages ==
  /\ \A s \in Slave :
       /\ toMaster[s] \in Mail
       /\ slave[s] \in Silent \/ s \notin assigned => toMaster[s] = <<>>
       /\ slave[s] = "simulating" => toMaster[s] \in {<<>>, <<Ack>>}
  /\ \A i \in 1..Len(slaves) :
       /\ Greeted(i) /\ outcome # "handshake" => toMaster[slaves[i]] \in {<<>>, <<Done>>} /\ slave[slaves[i]] \notin Silent
       /\ i \in heard => toMaster[slaves[i]] = <<>> /\ slave[slaves[i]] \in Over

Busy == {"round", "sync", "collect", "notify"}

\* Where the loops are.
Loops ==
  /\ master \in {"accept", "ack", "round"} => index = 1
  /\ master = "ack" => Len(slaves) > 0
  /\ master \in Busy => Len(slaves) = Partitions
  /\ Len(slaves) # Partitions => faulty_slaves = {} /\ heard = {} /\ current_time = 0
  /\ master \in {"sync", "collect"} => current_time < max_time
  /\ (master = "ended") <=> (outcome # "none")

\* Partition i has been read from in this round.
Passed(i) == master = "collect" /\ i < index

\* The first round hears or loses every slave.
Rounds ==
  \A i \in 1..Partitions : current_time > 0 \/ Passed(i) => i \in heard \cup faulty_slaves

IInv == TypeOK /\ Queues /\ Messages /\ Loops /\ Rounds /\ FaultyIsGone
-----------------------------------------------------------------------------
(* The mail of a slave.                                                     *)

LEMMA MailFacts ==
  /\ \A m \in Mail : m # <<>> /\ Head(m) = Ack => Tail(m) \in {<<>>, <<Done>>}
  /\ \A m \in {<<>>, <<Done>>} : m # <<>> => Head(m) = Done /\ Tail(m) = <<>>
  /\ Append(<<>>, Ack) = <<Ack>> /\ Append(<<>>, Done) = <<Done>> /\ Append(<<Ack>>, Done) = <<Ack, Done>>
  /\ Mail \subseteq Seq({Ack, Done}) /\ <<>> \in Mail /\ <<Ack>> # <<>> /\ <<Done>> # <<>>
<1>1. /\ <<Ack, Done>> # <<>> /\ Head(<<Ack, Done>>) = Ack /\ Tail(<<Ack, Done>>) = <<Done>>
      /\ <<Ack>> # <<>> /\ Head(<<Ack>>) = Ack /\ Tail(<<Ack>>) = <<>>
      /\ <<Done>> # <<>> /\ Head(<<Done>>) = Done /\ Tail(<<Done>>) = <<>>
  OBVIOUS
<1>2. Append(<<>>, Ack) = <<Ack>> /\ Append(<<>>, Done) = <<Done>> /\ Append(<<Ack>>, Done) = <<Ack, Done>>
  <2> DEFINE S == {Ack, Done}
  <2>1. /\ <<>> \in Seq(S) /\ <<Ack>> \in Seq(S) /\ <<Done>> \in Seq(S) /\ <<Ack, Done>> \in Seq(S)
        /\ Ack \in S /\ Done \in S
    OBVIOUS
  <2>2. \A m \in S : /\ Append(<<>>, m) \in Seq(S) /\ Len(Append(<<>>, m)) = 1 /\ Append(<<>>, m)[1] = m
                     /\ <<m>> \in Seq(S) /\ Len(<<m>>) = 1 /\ <<m>>[1] = m
    BY <2>1, AppendProperties
  <2>3. \A m \in S : Append(<<>>, m) = <<m>>
    <3> SUFFICES ASSUME NEW m \in S PROVE Append(<<>>, m) = <<m>>
      OBVIOUS
    <3>1. \A i \in 1..1 : Append(<<>>, m)[i] = <<m>>[i]
      BY <2>2
    <3> HIDE DEF S
    <3> QED BY <2>2, <3>1, SeqEqual
  <2>4. /\ Append(<<Ack>>, Done) \in Seq(S) /\ Len(Append(<<Ack>>, Done)) = 2
        /\ Append(<<Ack>>, Done)[1] = Ack /\ Append(<<Ack>>, Done)[2] = Done
        /\ Len(<<Ack, Done>>) = 2 /\ <<Ack, Done>>[1] = Ack /\ <<Ack, Done>>[2] = Done
    BY <2>1, AppendProperties
  <2>5. \A i \in 1..2 : Append(<<Ack>>, Done)[i] = <<Ack, Done>>[i]
    BY <2>4
  <2>6. Append(<<Ack>>, Done) = <<Ack, Done>>
    <3> HIDE DEF S
    <3> QED BY <2>1, <2>4, <2>5, SeqEqual
  <2> QED BY <2>1, <2>3, <2>6
<1>3. Ack # Done
  BY DEF Ack, Done
<1>4. Mail \subseteq Seq({Ack, Done})
  BY DEF Mail
<1> QED BY <1>1, <1>2, <1>3, <1>4 DEF Mail

LEMMA InitIInv == Init => IInv
<1> SUFFICES ASSUME Init PROVE IInv
  OBVIOUS
<1>1. TypeOK
  BY DistributedAssumption DEF Init, TypeOK
<1>2. Queues /\ Loops
  BY <1>1, DistributedAssumption DEF Init, Queues, Loops, Busy, TypeOK
<1>3. Messages
  BY MailFacts DEF Init, Messages
<1>4. Rounds /\ FaultyIsGone
  BY DistributedAssumption DEF Init, Rounds, Passed, FaultyIsGone
<1> QED BY <1>1, <1>2, <1>3, <1>4 DEF IInv, Init
-----------------------------------------------------------------------------
(* The steps of a slave.                                                     *)

\* What only the master changes.
MasterFacts == Loops /\ Rounds

LEMMA MasterFactsStay ==
  ASSUME IInv, UNCHANGED masters PROVE MasterFacts'
  BY DEF IInv, MasterFacts, masters, Loops, Rounds, Passed, Busy

LEMMA SlaveEnds ==
  ASSUME IInv, NEW s \in Slave, NEW x \in {"ended", "failed"},
         slave[s] \in {"connected", "simulating", "reported"}, x = "ended" => s \in assigned,
         slave' = [slave EXCEPT ![s] = x],
         UNCHANGED <<masters, backlog, assigned, toMaster>>
  PROVE  IInv'
<1> USE DEF masters
<1>1. slave'[s] = x /\ \A r \in Slave \ {s} : slave'[r] = slave[r]
  BY DEF IInv, TypeOK
<1>2. TypeOK'
  BY DEF IInv, TypeOK
<1>3. assigned \subseteq Slave /\ (\A i \in 1..Len(backlog) : backlog[i] \in Slave)
      /\ (\A i \in 1..Len(slaves) : slaves[i] \in Slave)
  BY DEF IInv, TypeOK
<1>4. Queues'
  BY <1>1, <1>3 DEF IInv, Queues
<1>5. Messages'
  BY <1>1, <1>3 DEF IInv, Messages, Greeted, Silent, Over
<1>6. FaultyIsGone'
  <2>1. \A i \in faulty_slaves : i \in 1..Len(slaves)
    BY DistributedAssumption DEF IInv, TypeOK, Loops
  <2> QED BY <1>1, <1>3, <2>1 DEF IInv, FaultyIsGone, Closed
<1> QED BY <1>2, <1>4, <1>5, <1>6, MasterFactsStay DEF IInv, MasterFacts

LEMMA ConnectKeeps ==
  ASSUME IInv, NEW s \in Slave, Connect(s) PROVE IInv'
<1> USE DEF masters
<1>1. slave[s] = "new" /\ UNCHANGED <<masters, assigned, toMaster>>
  BY DEF Connect
<1>2. assigned \subseteq Slave /\ (\A i \in 1..Len(backlog) : backlog[i] \in Slave)
      /\ (\A i \in 1..Len(slaves) : slaves[i] \in Slave) /\ backlog \in Seq(Slave) /\ slave \in [Slave -> {"new", "connected", "simulating", "reported", "ended", "failed"}]
  BY DEF IInv, TypeOK
<1>3. PICK x \in {"connected", "failed"} : slave' = [slave EXCEPT ![s] = x]
  BY DEF Connect
<1>4. slave'[s] = x /\ \A r \in Slave \ {s} : slave'[r] = slave[r]
  BY <1>2, <1>3
<1>5. s \notin assigned /\ toMaster[s] = <<>> /\ \A i \in 1..Len(backlog) : backlog[i] # s
  BY <1>1 DEF IInv, Queues, Messages, Silent
<1>6. backlog' \in Seq(Slave) /\ (backlog' = backlog \/ backlog' = Append(backlog, s))
  BY <1>2, AppendProperties DEF Connect
<1>7. TypeOK'
  BY <1>1, <1>2, <1>3, <1>6 DEF IInv, TypeOK
<1>8. Queues'
  <2>1. CASE backlog' = backlog
    BY <1>1, <1>2, <1>4, <1>5, <2>1 DEF IInv, Queues
  <2>2. CASE backlog' = Append(backlog, s)
    <3>1. /\ Len(backlog') = Len(backlog) + 1 /\ Len(backlog) \in Nat
          /\ \A i \in 1..Len(backlog) : backlog'[i] = backlog[i]
          /\ backlog'[Len(backlog) + 1] = s
      BY <1>2, <2>2, AppendProperties
    <3>2. \A i, j \in 1..Len(backlog') : backlog'[i] = backlog'[j] => i = j
      BY <1>5, <3>1 DEF IInv, Queues
    <3>3. \A i \in 1..Len(backlog') : slave'[backlog'[i]] # "new" /\ backlog'[i] \notin assigned
      BY <1>2, <1>4, <1>5, <3>1 DEF IInv, Queues
    <3> QED BY <1>1, <1>2, <1>4, <1>5, <3>2, <3>3 DEF IInv, Queues
  <2> QED BY <1>6, <2>1, <2>2
<1>9. Messages'
  <2>1. \A i \in 1..Len(slaves) : slaves[i] # s
    BY <1>5 DEF IInv, Queues
  <2> QED BY <1>1, <1>2, <1>4, <1>5, <2>1 DEF IInv, Messages, Greeted, Silent, Over
<1>10. FaultyIsGone'
  <2>1. \A i \in faulty_slaves : i \in 1..Len(slaves)
    BY DistributedAssumption DEF IInv, TypeOK, Loops
  <2> QED BY <1>1, <1>2, <1>4, <2>1 DEF IInv, FaultyIsGone, Closed
<1> QED BY <1>1, <1>7, <1>8, <1>9, <1>10, MasterFactsStay DEF IInv, MasterFacts

\* A slave that sends a message.
LEMMA SlaveSends ==
  ASSUME IInv, NEW s \in Slave, s \in assigned,
         \/ slave[s] = "connected" /\ slave' = [slave EXCEPT ![s] = "simulating"] /\ Sends(s, Ack)
         \/ slave[s] = "simulating" /\ slave' = [slave EXCEPT ![s] = "reported"] /\ Sends(s, Done),
         UNCHANGED <<masters, backlog, assigned>>
  PROVE  IInv'
<1> USE DEF masters
<1>1. assigned \subseteq Slave /\ (\A i \in 1..Len(backlog) : backlog[i] \in Slave)
      /\ (\A i \in 1..Len(slaves) : slaves[i] \in Slave)
      /\ slave \in [Slave -> {"new", "connected", "simulating", "reported", "ended", "failed"}]
  BY DEF IInv, TypeOK
<1>2. \A r \in Slave \ {s} : slave'[r] = slave[r] /\ toMaster'[r] = toMaster[r]
  BY <1>1 DEF Sends, IInv, TypeOK
<1>3. /\ slave[s] = "connected" => slave'[s] = "simulating" /\ toMaster'[s] = <<Ack>>
      /\ slave[s] = "simulating" => slave'[s] = "reported" /\ toMaster'[s] \in {<<Done>>, <<Ack, Done>>}
      /\ slave[s] = "simulating" /\ toMaster[s] = <<>> => toMaster'[s] = <<Done>>
      /\ slave[s] \in {"connected", "simulating"}
  <2>1. CASE slave[s] = "connected" /\ slave' = [slave EXCEPT ![s] = "simulating"] /\ Sends(s, Ack)
    <3>1. toMaster[s] = <<>>
      BY <2>1 DEF IInv, Messages, Silent
    <3>2. toMaster'[s] = Append(toMaster[s], Ack)
      BY <2>1 DEF Sends, IInv, TypeOK
    <3> QED BY <1>1, <2>1, <3>1, <3>2, MailFacts
  <2>2. CASE slave[s] = "simulating" /\ slave' = [slave EXCEPT ![s] = "reported"] /\ Sends(s, Done)
    <3>1. toMaster[s] \in {<<>>, <<Ack>>}
      BY <2>2 DEF IInv, Messages
    <3>2. toMaster'[s] = Append(toMaster[s], Done)
      BY <2>2 DEF Sends, IInv, TypeOK
    <3> QED BY <1>1, <2>2, <3>1, <3>2, MailFacts
  <2> QED BY <2>1, <2>2
<1>4. TypeOK'
  <2>1. slave' \in [Slave -> {"new", "connected", "simulating", "reported", "ended", "failed"}]
    BY <1>1
  <2>2. toMaster' \in [Slave -> Seq({Ack, Done})]
    <3>1. toMaster \in [Slave -> Seq({Ack, Done})]
      BY DEF IInv, TypeOK, Ack, Done
    <3>2. toMaster'[s] \in Seq({Ack, Done})
      BY <1>3, MailFacts DEF Mail
    <3> QED BY <3>1, <3>2 DEF Sends
  <2> QED BY <2>1, <2>2 DEF IInv, TypeOK, Ack, Done
<1>5. Queues'
  BY <1>1, <1>2, <1>3 DEF IInv, Queues
<1>6. Messages'
  <2>1. \A r \in Slave :
          /\ toMaster'[r] \in Mail
          /\ slave'[r] \in Silent \/ r \notin assigned => toMaster'[r] = <<>>
          /\ slave'[r] = "simulating" => toMaster'[r] \in {<<>>, <<Ack>>}
    BY <1>2, <1>3 DEF IInv, Messages, Silent, Mail
  <2>2. ASSUME NEW i \in 1..Len(slaves)
        PROVE  /\ Greeted(i) /\ outcome # "handshake" => toMaster'[slaves[i]] \in {<<>>, <<Done>>} /\ slave'[slaves[i]] \notin Silent
               /\ i \in heard => toMaster'[slaves[i]] = <<>> /\ slave'[slaves[i]] \in Over
    <3>1. CASE slaves[i] # s
      BY <1>1, <1>2, <3>1 DEF IInv, Messages
    <3>2. CASE slaves[i] = s
      <4>1. i \notin heard
        BY <1>3, <3>2 DEF IInv, Messages, Over
      <4>2. Greeted(i) /\ outcome # "handshake" => slave[s] = "simulating" /\ toMaster[s] = <<>>
        <5>1. Greeted(i) /\ outcome # "handshake" => toMaster[s] \in {<<>>, <<Done>>} /\ slave[s] = "simulating"
          BY <1>3, <3>2 DEF IInv, Messages, Silent
        <5>2. slave[s] = "simulating" => toMaster[s] \in {<<>>, <<Ack>>}
          BY DEF IInv, Messages
        <5>3. <<Ack>> # <<>> /\ <<Ack>> # <<Done>>
          BY DEF Ack, Done
        <5> QED BY <5>1, <5>2, <5>3
      <4> QED BY <1>3, <3>2, <4>1, <4>2 DEF Silent
    <3> QED BY <3>1, <3>2
  <2> QED BY <2>1, <2>2 DEF Messages, Greeted
<1>7. FaultyIsGone'
  <2>1. \A i \in faulty_slaves : i \in 1..Len(slaves)
    BY DistributedAssumption DEF IInv, TypeOK, Loops
  <2> QED BY <1>1, <1>2, <1>3, <2>1 DEF IInv, FaultyIsGone, Closed
<1> QED BY <1>4, <1>5, <1>6, <1>7, MasterFactsStay DEF IInv, MasterFacts

LEMMA SlaveKeeps ==
  ASSUME IInv, NEW s \in Slave, Connect(s) \/ Work(s) \/ Crash(s) PROVE IInv'
<1>1. CASE Connect(s)
  BY <1>1, ConnectKeeps
<1>2. CASE ReadAssign(s)
  BY <1>2, SlaveSends DEF ReadAssign, Ack
<1>3. CASE Report(s)
  <2>1. s \in assigned
    BY <1>3 DEF Report, IInv, Queues
  <2> QED BY <1>3, <2>1, SlaveSends DEF Report, Done
<1>4. CASE Close(s)
  <2>1. s \in assigned
    BY <1>4 DEF Close, IInv, Queues
  <2> QED BY <1>4, <2>1, SlaveEnds DEF Close
<1>5. CASE LoseMaster(s)
  BY <1>5, SlaveEnds DEF LoseMaster
<1>6. CASE Crash(s)
  BY <1>6, SlaveEnds DEF Crash
<1> QED BY <1>1, <1>2, <1>3, <1>4, <1>5, <1>6 DEF Work
-----------------------------------------------------------------------------
(* The steps of the master.                                                  *)

LEMMA Basics ==
  ASSUME IInv
  PROVE  /\ assigned \subseteq Slave /\ slaves \in Seq(Slave) /\ backlog \in Seq(Slave)
         /\ Len(slaves) \in Nat /\ Len(slaves) <= Partitions /\ Partitions \in Nat /\ Partitions > 1
         /\ \A i \in 1..Len(slaves) : slaves[i] \in Slave /\ slaves[i] \in assigned
         /\ \A i, j \in 1..Len(slaves) : slaves[i] = slaves[j] => i = j
         /\ index \in 1..Partitions /\ faulty_slaves \subseteq 1..Partitions /\ heard \subseteq 1..Partitions
         /\ faulty_slaves \subseteq 1..Len(slaves) /\ heard \subseteq 1..Len(slaves)
         /\ master \in Busy => index \in 1..Len(slaves) /\ Current \in Slave /\ Len(slaves) = Partitions
         /\ current_time \in Nat /\ max_time \in Nat /\ current_time <= max_time
<1>1. /\ assigned \subseteq Slave /\ slaves \in Seq(Slave) /\ backlog \in Seq(Slave)
      /\ Len(slaves) \in Nat /\ Len(slaves) <= Partitions /\ Partitions \in Nat /\ Partitions > 1
      /\ \A i \in 1..Len(slaves) : slaves[i] \in Slave
      /\ \A i, j \in 1..Len(slaves) : slaves[i] = slaves[j] => i = j
      /\ index \in 1..Partitions /\ faulty_slaves \subseteq 1..Partitions /\ heard \subseteq 1..Partitions
      /\ current_time \in Nat /\ max_time \in Nat /\ current_time <= max_time
  BY DistributedAssumption DEF IInv, TypeOK
<1>2. \A i \in 1..Len(slaves) : slaves[i] \in assigned
  BY DEF IInv, Queues
<1>3. faulty_slaves \subseteq 1..Len(slaves) /\ heard \subseteq 1..Len(slaves)
  BY <1>1 DEF IInv, Loops
<1>4. master \in Busy => Len(slaves) = Partitions
  BY DEF IInv, Loops
<1>5. master \in Busy => index \in 1..Len(slaves) /\ Current \in Slave
  BY <1>1, <1>4 DEF Current
<1> QED BY <1>1, <1>2, <1>3, <1>4, <1>5

\* The steps that only move the master on.
LEMMA MasterMoves ==
  ASSUME IInv, master # "ack", outcome = "none",
         Timeout \/ AllConnected \/ StartRound \/ Notify
  PROVE  Queues' /\ Messages' /\ FaultyIsGone'
<1>1. UNCHANGED <<slaves, faulty_slaves, heard, slave, backlog, assigned, toMaster>>
  BY DEF Timeout, AllConnected, StartRound, Notify, workers
<1>2. \A i \in 1..Len(slaves) : Greeted(i) /\ outcome # "handshake"
  BY DEF Greeted
<1>3. Queues'
  BY <1>1 DEF IInv, Queues
<1>4. Messages'
  BY <1>1, <1>2 DEF IInv, Messages
<1>5. FaultyIsGone'
  BY <1>1 DEF IInv, FaultyIsGone, Closed
<1> QED BY <1>3, <1>4, <1>5

LEMMA TimeoutKeeps == ASSUME IInv, Timeout PROVE IInv'
<1>1. master = "accept" /\ outcome = "none" /\ Len(slaves) # Partitions
  BY Basics DEF Timeout, Accepting, IInv, Loops
<1>2. Queues' /\ Messages' /\ FaultyIsGone'
  BY <1>1, MasterMoves
<1>3. TypeOK'
  BY DEF Timeout, Fails, workers, IInv, TypeOK
<1>4. Loops' /\ Rounds'
  BY <1>1, Basics DEF Timeout, Fails, IInv, Loops, Rounds, Passed, Busy
<1> QED BY <1>2, <1>3, <1>4 DEF IInv

LEMMA AllConnectedKeeps == ASSUME IInv, AllConnected PROVE IInv'
<1>1. master = "accept" /\ outcome = "none" /\ Len(slaves) = Partitions
  BY DEF AllConnected, IInv, Loops
<1>2. Queues' /\ Messages' /\ FaultyIsGone'
  BY <1>1, MasterMoves
<1>3. TypeOK'
  BY DEF AllConnected, workers, IInv, TypeOK
<1>4. Loops' /\ Rounds'
  BY <1>1, Basics DEF AllConnected, IInv, Loops, Rounds, Passed, Busy
<1> QED BY <1>2, <1>3, <1>4 DEF IInv

LEMMA StartRoundKeeps == ASSUME IInv, StartRound PROVE IInv'
<1>1. master = "round" /\ outcome = "none" /\ Len(slaves) = Partitions /\ index = 1
  BY DEF StartRound, IInv, Loops, Busy
<1>2. Queues' /\ Messages' /\ FaultyIsGone'
  BY <1>1, MasterMoves
<1>3. TypeOK'
  BY <1>1 DEF StartRound, Fails, workers, IInv, TypeOK
<1>4. Rounds'
  BY <1>1, Basics DEF StartRound, IInv, Rounds, Passed
<1>5. Loops'
  BY <1>1, Basics DEF StartRound, Fails, IInv, Loops, Busy
<1> QED BY <1>2, <1>3, <1>4, <1>5 DEF IInv

LEMMA NotifyKeeps == ASSUME IInv, Notify PROVE IInv'
<1>1. master = "notify" /\ outcome = "none" /\ Len(slaves) = Partitions
  BY DEF Notify, IInv, Loops, Busy
<1>2. Queues' /\ Messages' /\ FaultyIsGone'
  BY <1>1, MasterMoves
<1>3. /\ UNCHANGED <<max_time, slaves, faulty_slaves, current_time, heard>>
      /\ master' \in {"notify", "ended"} /\ index' \in 1..Partitions
      /\ master' = "ended" => outcome' \in {"complete", "notify"}
      /\ master' = "notify" => outcome' = outcome
  BY <1>1, Basics DEF Notify, Advance, Fails
<1>4. TypeOK'
  BY <1>1, <1>3, Basics DEF Notify, workers, IInv, TypeOK
<1>5. Loops'
  BY <1>1, <1>3, Basics DEF IInv, Loops, Busy
<1>6. Rounds'
  BY <1>1, <1>3, Basics DEF IInv, Rounds, Passed
<1> QED BY <1>2, <1>4, <1>5, <1>6 DEF IInv

LEMMA AcceptKeeps == ASSUME IInv, Accept PROVE IInv'
<1> DEFINE h == Head(backlog)
           n == Len(slaves)
<1>1. /\ master = "accept" /\ outcome = "none" /\ n < Partitions /\ backlog # <<>>
      /\ faulty_slaves = {} /\ heard = {} /\ current_time = 0 /\ index = 1
      /\ backlog' = Tail(backlog)
      /\ UNCHANGED <<max_time, index, faulty_slaves, current_time, heard, slave, toMaster>>
  BY Basics DEF Accept, Accepting, IInv, Loops
<1>2. /\ backlog' \in Seq(Slave) /\ Len(backlog') = Len(backlog) - 1 /\ Len(backlog) \in Nat /\ Len(backlog) > 0
      /\ h = backlog[1] /\ h \in Slave
      /\ \A i \in 1..Len(backlog') : backlog'[i] = backlog[i + 1] /\ i + 1 \in 1..Len(backlog)
  BY <1>1, Basics, HeadTailProperties
<1>3. h \notin assigned /\ slave[h] # "new" /\ \A i \in 1..Len(backlog') : backlog'[i] # h
  BY <1>2 DEF IInv, Queues
<1>4. \A i, j \in 1..Len(backlog') : backlog'[i] = backlog'[j] => i = j
  BY <1>2 DEF IInv, Queues
<1>5. \A i \in 1..Len(backlog') : slave[backlog'[i]] # "new" /\ backlog'[i] \notin assigned
  BY <1>2 DEF IInv, Queues
<1>6. FaultyIsGone' /\ Rounds'
  BY <1>1 DEF Accept, Fails, FaultyIsGone, IInv, Rounds, Passed
<1>7. CASE assigned' = assigned \cup {h} /\ slaves' = Append(slaves, h) /\ master' = "ack" /\ UNCHANGED outcome
  <2>1. /\ slaves' \in Seq(Slave) /\ Len(slaves') = n + 1 /\ n \in Nat
        /\ \A i \in 1..n : slaves'[i] = slaves[i]
        /\ slaves'[n + 1] = h
    BY <1>2, <1>7, Basics, AppendProperties
  <2>2. assigned' = {slaves'[i] : i \in 1..Len(slaves')}
    <3>1. assigned = {slaves[i] : i \in 1..n}
      BY DEF IInv, Queues
    <3> QED BY <1>7, <2>1, <3>1
  <2>3. \A i, j \in 1..Len(slaves') : slaves'[i] = slaves'[j] => i = j
    BY <1>3, <2>1, Basics
  <2>4. TypeOK'
    BY <1>1, <1>2, <1>7, <2>1, <2>3, Basics DEF IInv, TypeOK
  <2>5. Queues'
    BY <1>1, <1>3, <1>4, <1>5, <1>7, <2>2 DEF IInv, Queues
  <2>6. Loops'
    BY <1>1, <1>7, <2>1, Basics DEF IInv, Loops, Busy
  <2>7. Messages'
    <3>1. \A s \in Slave :
            /\ toMaster'[s] \in Mail
            /\ slave'[s] \in Silent \/ s \notin assigned' => toMaster'[s] = <<>>
            /\ slave'[s] = "simulating" => toMaster'[s] \in {<<>>, <<Ack>>}
      BY <1>1, <1>7 DEF IInv, Messages
    <3>2. ASSUME NEW i \in 1..Len(slaves'), Greeted(i)'
          PROVE  toMaster'[slaves'[i]] \in {<<>>, <<Done>>} /\ slave'[slaves'[i]] \notin Silent
      <4>1. i \in 1..n
        BY <1>7, <2>1, <3>2 DEF Greeted
      <4> QED BY <1>1, <2>1, <4>1 DEF IInv, Messages, Greeted
    <3> QED BY <1>1, <3>1, <3>2 DEF Messages
  <2> QED BY <1>1, <1>6, <1>7, <2>4, <2>5, <2>6, <2>7 DEF IInv
<1>8. CASE Fails("handshake") /\ UNCHANGED <<slaves, assigned>>
  <2>1. TypeOK'
    BY <1>1, <1>2, <1>8 DEF Fails, IInv, TypeOK
  <2>2. Queues'
    BY <1>1, <1>4, <1>5, <1>8 DEF IInv, Queues
  <2>3. Loops'
    BY <1>1, <1>8 DEF Fails, IInv, Loops, Busy
  <2>4. Messages'
    BY <1>1, <1>8 DEF Fails, IInv, Messages
  <2> QED BY <1>1, <1>6, <1>8, <2>1, <2>2, <2>3, <2>4 DEF IInv, Fails
<1> QED BY <1>7, <1>8 DEF Accept

\* The master takes m from the slave of partition p, or has lost it.
LEMMA MailTaken ==
  ASSUME IInv, NEW p \in 1..Len(slaves), UNCHANGED slave,
         \/ Hears(slaves[p], Ack) \/ Hears(slaves[p], Done) \/ Loses(slaves[p])
  PROVE  /\ toMaster' \in [Slave -> Seq({Ack, Done})]
         /\ \A s \in Slave \ {slaves[p]} : toMaster'[s] = toMaster[s]
         /\ toMaster'[slaves[p]] \in {<<>>, <<Done>>}
         /\ \A s \in Slave :
              /\ toMaster'[s] \in Mail
              /\ slave'[s] \in Silent \/ s \notin assigned => toMaster'[s] = <<>>
              /\ slave'[s] = "simulating" => toMaster'[s] \in {<<>>, <<Ack>>}
         /\ slave[slaves[p]] \notin Silent
<1> DEFINE s == slaves[p]
<1>1. s \in Slave /\ s \in assigned
  BY Basics
<1>2. toMaster \in [Slave -> Seq({Ack, Done})] /\ toMaster[s] \in Mail
  BY <1>1 DEF IInv, TypeOK, Messages, Ack, Done
<1>3. toMaster'[s] \in {<<>>, <<Done>>} /\ (slave[s] = "simulating" => toMaster'[s] = <<>>) /\ slave[s] \notin Silent
  <2>1. CASE Hears(s, Ack)
    <3>1. toMaster[s] # <<>> /\ Head(toMaster[s]) = Ack /\ toMaster'[s] = Tail(toMaster[s])
      BY <1>1, <1>2, <2>1 DEF Hears
    <3>2. slave[s] \notin Silent
      BY <1>1, <3>1 DEF IInv, Messages
    <3>3. slave[s] = "simulating" => toMaster[s] = <<Ack>> /\ Tail(<<Ack>>) = <<>>
      BY <1>1, <3>1 DEF IInv, Messages
    <3> QED BY <1>2, <3>1, <3>2, <3>3, MailFacts
  <2>2. CASE Hears(s, Done)
    <3>1. toMaster[s] # <<>> /\ Head(toMaster[s]) = Done /\ toMaster'[s] = Tail(toMaster[s])
      BY <1>1, <1>2, <2>2 DEF Hears
    <3>2. slave[s] \notin Silent
      BY <1>1, <3>1 DEF IInv, Messages
    <3>3. Head(<<Ack>>) = Ack /\ Head(<<Ack, Done>>) = Ack /\ Ack # Done /\ Tail(<<Done>>) = <<>>
      BY DEF Ack, Done
    <3>4. toMaster[s] = <<Done>>
      BY <1>2, <3>1, <3>3 DEF Mail
    <3> QED BY <3>1, <3>2, <3>3, <3>4
  <2>3. CASE Loses(s)
    BY <1>1, <1>2, <2>3 DEF Loses, Closed, Silent
  <2> QED BY <2>1, <2>2, <2>3
<1>4. PICK m \in Mail : toMaster' = [toMaster EXCEPT ![s] = m]
  <2>1. PICK m : toMaster' = [toMaster EXCEPT ![s] = m]
    BY DEF Hears, Loses
  <2>2. m = toMaster'[s]
    BY <1>1, <1>2, <2>1
  <2> QED BY <1>3, <2>1, <2>2 DEF Mail
<1>5. toMaster' \in [Slave -> Seq({Ack, Done})] /\ \A r \in Slave \ {s} : toMaster'[r] = toMaster[r]
  BY <1>1, <1>2, <1>4, MailFacts
<1>6. \A r \in Slave :
        /\ toMaster'[r] \in Mail
        /\ slave'[r] \in Silent \/ r \notin assigned => toMaster'[r] = <<>>
        /\ slave'[r] = "simulating" => toMaster'[r] \in {<<>>, <<Ack>>}
  BY <1>1, <1>3, <1>5 DEF IInv, Messages, Mail
<1> QED BY <1>3, <1>5, <1>6

LEMMA ReadAckKeeps == ASSUME IInv, ReadAck PROVE IInv'
<1> DEFINE n == Len(slaves)
<1>1. /\ master = "ack" /\ outcome = "none" /\ n > 0 /\ index = 1
      /\ UNCHANGED <<max_time, slaves, index, faulty_slaves, current_time, heard, slave, backlog, assigned>>
  BY DEF ReadAck, workers, IInv, Loops
<1>2. n \in 1..Len(slaves) /\ Newest = slaves[n]
  BY <1>1, Basics DEF Newest
<1>3. \/ Hears(slaves[n], Ack) /\ master' = "accept" /\ outcome' = "none"
      \/ Loses(slaves[n]) /\ Fails("handshake")
  BY <1>1, <1>2 DEF ReadAck, Ack
<1>4. /\ toMaster' \in [Slave -> Seq({Ack, Done})]
      /\ \A s \in Slave \ {slaves[n]} : toMaster'[s] = toMaster[s]
      /\ toMaster'[slaves[n]] \in {<<>>, <<Done>>}
      /\ \A s \in Slave :
           /\ toMaster'[s] \in Mail
           /\ slave'[s] \in Silent \/ s \notin assigned => toMaster'[s] = <<>>
           /\ slave'[s] = "simulating" => toMaster'[s] \in {<<>>, <<Ack>>}
      /\ slave[slaves[n]] \notin Silent
  BY <1>1, <1>2, <1>3, MailTaken
<1>5. n \in heard => toMaster[slaves[n]] = <<>> /\ slave[slaves[n]] \in Over
  BY <1>2 DEF IInv, Messages
<1>6. n \in heard => toMaster'[slaves[n]] = <<>>
  <2>1. Hears(slaves[n], Ack) => n \notin heard
    BY <1>5 DEF Hears
  <2>2. Loses(slaves[n]) => toMaster'[slaves[n]] = <<>>
    BY <1>2, Basics DEF Loses, IInv, TypeOK
  <2> QED BY <1>3, <2>1, <2>2
<1>7. TypeOK'
  BY <1>1, <1>3, <1>4 DEF Fails, IInv, TypeOK, Ack, Done
<1>8. Messages'
  <2>1. ASSUME NEW i \in 1..n
        PROVE  /\ outcome' # "handshake" => toMaster'[slaves[i]] \in {<<>>, <<Done>>} /\ slave[slaves[i]] \notin Silent
               /\ i \in heard => toMaster'[slaves[i]] = <<>> /\ slave[slaves[i]] \in Over
    <3>1. CASE i = n
      BY <1>4, <1>5, <1>6, <3>1
    <3>2. CASE i # n
      <4>1. i < n /\ slaves[i] \in Slave \ {slaves[n]}
        BY <1>2, <3>2, Basics
      <4> QED BY <1>1, <1>4, <4>1 DEF IInv, Messages, Greeted
    <3> QED BY <3>1, <3>2
  <2> QED BY <1>1, <1>4, <2>1 DEF Messages
<1>9. Queues' /\ FaultyIsGone'
  BY <1>1 DEF IInv, Queues, FaultyIsGone, Closed
<1>10. Loops' /\ Rounds'
  BY <1>1, <1>3 DEF Fails, IInv, Loops, Rounds, Passed, Busy
<1> QED BY <1>1, <1>3, <1>7, <1>8, <1>9, <1>10 DEF IInv, Fails

LEMMA SendSyncKeeps == ASSUME IInv, SendSync PROVE IInv'
<1>1. /\ master = "sync" /\ outcome = "none" /\ Len(slaves) = Partitions /\ index \in 1..Partitions
      /\ current_time < max_time
      /\ UNCHANGED <<max_time, slaves, current_time, outcome, heard, slave, backlog, assigned, toMaster>>
  BY Basics DEF SendSync, workers, IInv, Loops, Busy
<1>2. /\ faulty_slaves \subseteq faulty_slaves' /\ faulty_slaves' \subseteq faulty_slaves \cup {index}
      /\ index \in faulty_slaves' => index \in faulty_slaves \/ Closed(Current)
  BY DEF SendSync
<1>3. master' \in {"sync", "collect"} /\ index' \in 1..Partitions /\ (master' = "collect" => index' = 1)
  BY <1>1, Basics DEF SendSync, Advance
<1>4. TypeOK'
  BY <1>1, <1>2, <1>3 DEF IInv, TypeOK
<1>5. Queues'
  BY <1>1 DEF IInv, Queues
<1>6. Messages'
  BY <1>1, <1>3 DEF IInv, Messages, Greeted
<1>7. Loops'
  BY <1>1, <1>3, Basics DEF IInv, Loops, Busy
<1>8. Rounds'
  BY <1>1, <1>2, <1>3 DEF IInv, Rounds, Passed
<1>9. FaultyIsGone'
  BY <1>1, <1>2 DEF IInv, FaultyIsGone, Closed, Current
<1> QED BY <1>1, <1>4, <1>5, <1>6, <1>7, <1>8, <1>9 DEF IInv

LEMMA CollectKeeps == ASSUME IInv, Collect PROVE IInv'
<1>1. /\ master = "collect" /\ outcome = "none" /\ Len(slaves) = Partitions /\ index \in 1..Len(slaves)
      /\ current_time < max_time /\ Current = slaves[index] /\ slaves[index] \in Slave
      /\ UNCHANGED <<max_time, slaves, outcome, slave, backlog, assigned>>
  BY Basics DEF Collect, workers, IInv, Loops, Busy, Current
<1>2. /\ toMaster' \in [Slave -> Seq({Ack, Done})]
      /\ \A s \in Slave \ {slaves[index]} : toMaster'[s] = toMaster[s]
      /\ \A s \in Slave :
           /\ toMaster'[s] \in Mail
           /\ slave'[s] \in Silent \/ s \notin assigned => toMaster'[s] = <<>>
           /\ slave'[s] = "simulating" => toMaster'[s] \in {<<>>, <<Ack>>}
      /\ toMaster'[slaves[index]] \in {<<>>, <<Done>>} /\ slave[slaves[index]] \notin Silent
  <2>1. CASE index \in faulty_slaves
    <3>1. toMaster' = toMaster
      BY <1>1, <2>1 DEF Collect
    <3>2. toMaster[slaves[index]] \in {<<>>, <<Done>>} /\ slave[slaves[index]] \notin Silent
      BY <1>1 DEF IInv, Messages, Greeted
    <3> QED BY <1>1, <3>1, <3>2 DEF IInv, TypeOK, Messages, Ack, Done
  <2>2. CASE index \notin faulty_slaves
    <3>1. Hears(slaves[index], Done) \/ Loses(slaves[index])
      BY <1>1, <2>2 DEF Collect, CollectOne, Done
    <3> QED BY <1>1, <3>1, MailTaken
  <2> QED BY <2>1, <2>2
\* What the read of partition index leaves.
<1>3. /\ index \in heard' \cup faulty_slaves'
      /\ heard \subseteq heard' /\ heard' \subseteq heard \cup {index}
      /\ faulty_slaves \subseteq faulty_slaves' /\ faulty_slaves' \subseteq faulty_slaves \cup {index}
      /\ index \in faulty_slaves' => Closed(slaves[index])
      /\ index \in heard' => toMaster'[slaves[index]] = <<>> /\ slave[slaves[index]] \in Over
  <2>2. index \in heard => toMaster[slaves[index]] = <<>> /\ slave[slaves[index]] \in Over
    BY <1>1 DEF IInv, Messages
  <2>3. CASE index \in faulty_slaves
    BY <1>1, <2>2, <2>3 DEF Collect, IInv, FaultyIsGone
  <2>4. CASE index \notin faulty_slaves /\ Hears(slaves[index], Done) /\ heard' = heard \cup {index} /\ UNCHANGED faulty_slaves
    <3>1. toMaster[slaves[index]] # <<>> /\ Head(toMaster[slaves[index]]) = Done
          /\ toMaster'[slaves[index]] = Tail(toMaster[slaves[index]])
      BY <1>1, <2>4 DEF Hears, IInv, TypeOK
    <3>2. toMaster[slaves[index]] \in {<<>>, <<Done>>} /\ slave[slaves[index]] \notin Silent
      BY <1>1 DEF IInv, Messages, Greeted
    <3>3. toMaster[slaves[index]] = <<Done>> /\ toMaster'[slaves[index]] = <<>>
      BY <3>1, <3>2, MailFacts
    <3>4. slave[slaves[index]] # "simulating"
      <4>1. <<Done>> # <<>> /\ <<Done>> # <<Ack>>
        BY DEF Ack, Done
      <4> QED BY <1>1, <3>3, <4>1 DEF IInv, Messages
    <3>5. slave[slaves[index]] \in Over
      BY <1>1, <3>2, <3>4 DEF IInv, TypeOK, Silent, Over
    <3> QED BY <2>4, <3>3, <3>5
  <2>5. CASE index \notin faulty_slaves /\ Loses(slaves[index]) /\ faulty_slaves' = faulty_slaves \cup {index} /\ UNCHANGED heard
    <3>1. toMaster'[slaves[index]] = <<>> /\ Closed(slaves[index])
      BY <1>1, <2>5 DEF Loses, IInv, TypeOK
    <3> QED BY <2>2, <2>5, <3>1
  <2> QED BY <1>1, <2>3, <2>4, <2>5 DEF Collect, CollectOne, Done
<1>4. /\ index = Partitions => index' = 1 /\ master' = "round" /\ current_time' = current_time + 1
      /\ index # Partitions => index' = index + 1 /\ master' = "collect" /\ current_time' = current_time
  BY <1>1 DEF Collect, EndRound
<1>5. TypeOK'
  <2>1. index' \in 1..Partitions /\ current_time' \in 0..max_time /\ master' \in {"round", "collect"}
    BY <1>1, <1>4, Basics
  <2>2. heard' \subseteq 1..Partitions /\ faulty_slaves' \subseteq 1..Partitions
    BY <1>1, <1>3, Basics
  <2> QED BY <1>1, <1>2, <2>1, <2>2 DEF IInv, TypeOK, Ack, Done
<1>6. Queues'
  BY <1>1 DEF IInv, Queues
<1>7. Messages'
  <2>1. ASSUME NEW i \in 1..Len(slaves)
        PROVE  /\ toMaster'[slaves[i]] \in {<<>>, <<Done>>} /\ slave[slaves[i]] \notin Silent
               /\ i \in heard' => toMaster'[slaves[i]] = <<>> /\ slave[slaves[i]] \in Over
    <3>1. CASE i = index
      BY <1>2, <1>3, <3>1
    <3>2. CASE i # index
      <4>1. slaves[i] \in Slave \ {slaves[index]}
        BY <1>1, <3>2, Basics
      <4> QED BY <1>1, <1>2, <1>3, <3>2, <4>1 DEF IInv, Messages, Greeted
    <3> QED BY <3>1, <3>2
  <2> QED BY <1>1, <1>2, <2>1 DEF Messages
<1>8. Loops'
  BY <1>1, <1>4, Basics DEF IInv, Loops, Busy
<1>9. Rounds'
  <2>1. ASSUME NEW i \in 1..Partitions, i <= index
        PROVE  i \in heard' \cup faulty_slaves'
    BY <1>1, <1>3, <2>1, Basics DEF IInv, Rounds, Passed
  <2>2. ASSUME NEW i \in 1..Partitions, current_time > 0 PROVE i \in heard' \cup faulty_slaves'
    BY <1>3, <2>2 DEF IInv, Rounds
  <2>3. CASE index = Partitions
    BY <1>1, <1>4, <2>1, <2>2, <2>3, Basics DEF Rounds, Passed
  <2>4. CASE index # Partitions
    BY <1>1, <1>4, <2>1, <2>2, <2>4, Basics DEF Rounds, Passed
  <2> QED BY <2>3, <2>4
<1>10. FaultyIsGone'
  BY <1>1, <1>3 DEF IInv, FaultyIsGone, Closed
<1> QED BY <1>1, <1>5, <1>6, <1>7, <1>8, <1>9, <1>10 DEF IInv

LEMMA StepKeeps == IInv /\ [Next]_vars => IInv'
<1> SUFFICES ASSUME IInv, [Next]_vars PROVE IInv'
  OBVIOUS
<1>1. CASE Master
  BY <1>1, TimeoutKeeps, AcceptKeeps, ReadAckKeeps, AllConnectedKeeps, StartRoundKeeps, SendSyncKeeps,
     CollectKeeps, NotifyKeeps DEF Master
<1>2. ASSUME NEW s \in Slave, Connect(s) \/ Work(s) \/ Crash(s) PROVE IInv'
  BY <1>2, SlaveKeeps
<1>3. CASE UNCHANGED vars
  <2>1. UNCHANGED <<max_time, master, slaves, index, faulty_slaves, current_time, outcome, heard, slave, backlog, assigned, toMaster>>
    BY <1>3 DEF vars, masters, workers
  <2>2. TypeOK'
    BY <2>1 DEF IInv, TypeOK
  <2>3. Queues' /\ FaultyIsGone'
    BY <2>1 DEF IInv, Queues, FaultyIsGone, Closed
  <2>4. Messages' /\ Loops' /\ Rounds'
    BY <2>1 DEF IInv, Messages, Greeted, Loops, Busy, Rounds, Passed
  <2> QED BY <2>1, <2>2, <2>3, <2>4 DEF IInv
<1> QED BY <1>1, <1>2, <1>3 DEF Next

LEMMA AlwaysIInv == Spec => []IInv
<1> QED BY InitIInv, StepKeeps, PTL DEF Spec
-----------------------------------------------------------------------------
(* What the master may conclude.                                             *)

\* Every reachable state is well-typed: in particular no slave is given two
\* partitions, and no slave is accepted beyond the partitions
\* (master.rs:125-203).
THEOREM TypeCorrect == Spec => []TypeOK
<1>1. IInv => TypeOK
  BY DEF IInv
<1> QED BY <1>1, AlwaysIInv, PTL

\* The master marks as faulty only slaves whose connection is gone
\* (master.rs:234-321), for any number of slaves, partitions and crashes.
THEOREM FaultsAreReal == Spec => []FaultyIsGone
<1>1. IInv => FaultyIsGone
  BY DEF IInv
<1> QED BY <1>1, AlwaysIInv, PTL

\* Behind the first round every partition has reported or is marked as faulty
\* (master.rs:254-323), and none is heard of before the last has connected.
THEOREM RoundsComplete == Spec => []RoundsWaitForAll
<1>1. IInv => RoundsWaitForAll
  <2> SUFFICES ASSUME IInv PROVE RoundsWaitForAll
    OBVIOUS
  <2>1. current_time > 0 => \A i \in 1..Partitions : i \in heard \cup faulty_slaves
    BY DEF IInv, Rounds
  <2>2. heard # {} => Len(slaves) = Partitions
    BY DEF IInv, Loops
  <2> QED BY <2>1, <2>2, Basics DEF RoundsWaitForAll
<1> QED BY <1>1, AlwaysIInv, PTL
=============================================================================
