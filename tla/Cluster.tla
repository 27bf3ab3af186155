------------------------------ MODULE Cluster ------------------------------
(***************************************************************************)
(* The peers of a Node cluster: a master and its workers, which talk over  *)
(* the channel between each worker and the master.  The master forwards    *)
(* what a worker sends to the peers it knows.  Changes of data travel as   *)
(* "triggerEvents" messages.                                               *)
(*                                                                         *)
(* Workers come, leave with a "bye" or die; the master outlives them.      *)
(***************************************************************************)
EXTENDS Naturals, Sequences, FiniteSets, SequencesExt

CONSTANTS
  Workers,
  Master,
  All,           \* the addressee of a broadcast
  MaxEvents      \* bound: changes of data

ASSUME ClusterAssumption ==
  /\ Master \notin Workers
  /\ All \notin Workers \cup {Master}
  /\ MaxEvents \in Nat

Peers == Workers \cup {Master}

VARIABLES
  state,         \* of each worker
  peers,         \* the list every process keeps of the others
  up,            \* from a worker to the master
  down,          \* from the master to a worker
  exits,         \* workers whose "exit" event the master has not handled
  events,        \* number of changes so far
  heard,         \* by process: the changes of others, in the order they came
  told,          \* history: workers that have the hello of the master
  due,           \* history: by process, changes it must hear of
  late           \* history: workers whose exit overtook their messages

vars == <<state, peers, up, down, exits, events, heard, told, due, late>>

Message == [type : {"hello", "bye", "event"}, from : Peers, to : Peers \cup {All},
            nr : 0..MaxEvents]

Hello(p, q) == [type |-> "hello", from |-> p, to |-> q, nr |-> 0]
Bye(p) == [type |-> "bye", from |-> p, to |-> All, nr |-> 0]
Changed(p, n) == [type |-> "event", from |-> p, to |-> All, nr |-> n]

TypeOK ==
  /\ state \in [Workers -> {"off", "up", "dead"}]
  /\ peers \in [Peers -> Seq(Peers)]
  /\ \A p \in Peers : IsInjective(peers[p]) /\ p \notin ToSet(peers[p])
  /\ up \in [Workers -> Seq(Message)]
  /\ down \in [Workers -> Seq(Message)]
  /\ exits \subseteq Workers
  /\ events \in 0..MaxEvents
  /\ heard \in [Peers -> Seq(Message)]
  /\ told \subseteq Workers
  /\ due \in [Peers -> SUBSET Message]
  /\ late \subseteq Workers

Init ==
  /\ state = [w \in Workers |-> "off"]
  /\ peers = [p \in Peers |-> <<>>]
  /\ up = [w \in Workers |-> <<>>]
  /\ down = [w \in Workers |-> <<>>]
  /\ exits = {}
  /\ events = 0
  /\ heard = [p \in Peers |-> <<>>]
  /\ told = {}
  /\ due = [p \in Peers |-> {}]
  /\ late = {}

----------------------------------------------------------------------------
Living == {Master} \cup {w \in Workers : state[w] = "up"}

AddPeer_Again(list, p) == Append(list, p)

AddPeer(list, p) == IF p \in ToSet(list) THEN list ELSE Append(list, p)

RemovePeer_Last(list, p) == IF p \in ToSet(list) THEN Front(list) ELSE list

RemovePeer(list, p) ==
  IF p \in ToSet(list) THEN RemoveAt(list, Min({i \in DOMAIN list : list[i] = p})) ELSE list

\* The entries of a list that sendMessage picks for a worker.
Picked(list, w, m) ==
  {i \in DOMAIN list : list[i] = w /\ w # m.from /\ m.to \in {All, w}}

\* sendMessage of the master, to the peers in a list: a copy for every entry.
Sent(lines, list, m) ==
  [w \in Workers |-> IF state[w] = "up"
     THEN lines[w] \o [i \in 1..Cardinality(Picked(list, w, m)) |-> m] ELSE lines[w]]

\* A worker starts: hello to all.
Start(w) ==
  /\ state[w] = "off"
  /\ state' = [state EXCEPT ![w] = "up"]
  /\ peers' = [peers EXCEPT ![w] = <<Master>>]
  /\ up' = [up EXCEPT ![w] = <<Hello(w, All)>>]
  /\ UNCHANGED <<down, exits, events, heard, told, due, late>>

\* The process ends; what it sent last may not have left it.
End(w, sent) ==
  /\ state[w] = "up"
  /\ state' = [state EXCEPT ![w] = "dead"]
  /\ \E n \in 0..Len(sent) :
       /\ up' = [up EXCEPT ![w] = SubSeq(sent, 1, n)]
       /\ due' = [p \in Peers |-> due[p] \ ToSet(SubSeq(sent, n + 1, Len(sent)))]
  /\ down' = [down EXCEPT ![w] = <<>>]
  /\ exits' = exits \cup {w}
  /\ UNCHANGED <<peers, events, heard, told, late>>

Die(w) == End(w, up[w])

\* SIGINT or SIGTERM: sayGoodbye, then process.exit.
Leave(w) == End(w, Append(up[w], Bye(w)))

\* A change of data at p.
Trigger(p) ==
  LET m == Changed(p, events + 1) IN
  /\ p \in Living
  /\ events < MaxEvents
  /\ events' = events + 1
  /\ IF p = Master
       THEN down' = Sent(down, peers[Master], m) /\ UNCHANGED up
       ELSE up' = [up EXCEPT ![p] = Append(@, m)] /\ UNCHANGED down
  /\ due' = [q \in Peers |-> IF q \in Living \ {p} /\ q \in told \cup {Master}
                               THEN due[q] \cup {m} ELSE due[q]]
  /\ UNCHANGED <<state, peers, exits, heard, told, late>>

\* handleMessage of the cluster and of the base class, at the master:
\* a hello enters the sender first, so that the answer finds it.
MasterHandle(w) ==
  /\ up[w] # <<>>
  /\ up' = [up EXCEPT ![w] = Tail(@)]
  /\ LET m == Head(up[w])
         known == IF m.type = "hello" THEN AddPeer(peers[Master], m.from) ELSE peers[Master]
         forwarded == IF m.to # Master THEN Sent(down, known, m) ELSE down
         mine == m.to \in {All, Master}
     IN /\ peers' = [peers EXCEPT ![Master] =
                       IF mine /\ m.type = "bye" THEN RemovePeer(known, m.from) ELSE known]
        /\ down' = IF m.type = "hello" /\ m.to = All
                     THEN Sent(forwarded, known, Hello(Master, m.from)) ELSE forwarded
        /\ heard' = IF m.type = "event" THEN [heard EXCEPT ![Master] = Append(@, m)] ELSE heard
  /\ UNCHANGED <<state, exits, events, told, due, late>>

\* The same at a worker, which answers the hello of a newcomer.
WorkerHandle(w) ==
  /\ state[w] = "up"
  /\ down[w] # <<>>
  /\ down' = [down EXCEPT ![w] = Tail(@)]
  /\ LET m == Head(down[w])
     IN /\ peers' = [peers EXCEPT ![w] =
                       CASE m.type = "hello" -> AddPeer(@, m.from)
                         [] m.type = "bye" -> RemovePeer(@, m.from)
                         [] OTHER -> @]
        /\ up' = IF m.type = "hello" /\ m.to = All
                   THEN [up EXCEPT ![w] = Append(@, Hello(w, m.from))] ELSE up
        /\ heard' = IF m.type = "event" THEN [heard EXCEPT ![w] = Append(@, m)] ELSE heard
        /\ told' = IF m.type = "hello" /\ m.from = Master THEN told \cup {w} ELSE told
  /\ UNCHANGED <<state, exits, events, due, late>>

SeeExit_Silently(w) ==
  /\ w \in exits
  /\ exits' = exits \ {w}
  /\ peers' = [peers EXCEPT ![Master] = RemovePeer(@, w)]
  /\ late' = IF up[w] = <<>> THEN late ELSE late \cup {w}
  /\ UNCHANGED <<state, up, down, events, heard, told, due>>

\* The "exit" event of a worker, which may come before its last messages:
\* the master says goodbye for one that did not.
SeeExit(w) ==
  /\ w \in exits
  /\ exits' = exits \ {w}
  /\ peers' = [peers EXCEPT ![Master] = RemovePeer(@, w)]
  /\ down' = IF w \in ToSet(peers[Master]) THEN Sent(down, peers'[Master], Bye(w)) ELSE down
  /\ late' = IF up[w] = <<>> THEN late ELSE late \cup {w}
  /\ UNCHANGED <<state, up, events, heard, told, due>>

Next ==
  \/ \E w \in Workers : \/ Start(w) \/ Die(w) \/ Leave(w)
                        \/ MasterHandle(w) \/ WorkerHandle(w) \/ SeeExit(w)
  \/ \E p \in Peers : Trigger(p)

Spec == Init /\ [][Next]_vars

----------------------------------------------------------------------------
(***************************************************************************)
(* No process hears of a change twice, of its own changes, or of the       *)
(* changes of another in the wrong order: forwarding neither echoes,       *)
(* duplicates nor overtakes, through joins, goodbyes and deaths.           *)
(***************************************************************************)
HeardOnceInOrder ==
  \A p \in Peers :
    /\ \A i \in DOMAIN heard[p] : heard[p][i].from # p
    /\ \A i, j \in DOMAIN heard[p] :
         i < j /\ heard[p][i].from = heard[p][j].from => heard[p][i].nr < heard[p][j].nr

AtRest == exits = {} /\ \A w \in Workers : up[w] = <<>> /\ down[w] = <<>>

(***************************************************************************)
(* A worker that has the hello of the master misses no later change of any *)
(* process, and the master misses none; only what a dying process had not  *)
(* got out is lost.                                                        *)
(***************************************************************************)
HearsAll ==
  AtRest => \A p \in Living : due[p] \subseteq ToSet(heard[p])

(***************************************************************************)
(* At rest the living processes know each other, and nobody else but a     *)
(* worker whose last hello came after its exit: that one stays for good.   *)
(***************************************************************************)
PeersKnown ==
  AtRest => \A p \in Living :
    /\ Living \ {p} \subseteq ToSet(peers[p])
    /\ ToSet(peers[p]) \subseteq (Living \ {p}) \cup late
=============================================================================
