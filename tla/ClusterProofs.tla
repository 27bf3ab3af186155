------------------------- MODULE ClusterProofs -------------------------
(***************************************************************************)
(* Proofs about the peers of a cluster, for any workers and any number of  *)
(* changes.                                                                *)
(***************************************************************************)
EXTENDS Cluster, SequenceTheorems, FiniteSetTheorems, TLAPS

----------------------------------------------------------------------------
(* The inductive invariants. *)

\* What is sent, and by whom: nothing comes back to its sender, and nothing
\* is numbered beyond the changes there were.
Origins ==
  /\ \A w \in Workers : \A m \in ToSet(up[w]) : m.from = w /\ m.nr <= events
  /\ \A w \in Workers : \A m \in ToSet(down[w]) : m.from # w /\ m.nr <= events
  /\ \A p \in Peers : \A m \in ToSet(heard[p]) :
       m.from # p /\ m.nr <= events /\ m.type = "event"

\* Changes of one process in a set of messages come before those in another.
Before(S, T) ==
  \A m \in S, k \in T :
    m.type = "event" /\ k.type = "event" /\ m.from = k.from => m.nr < k.nr

Ordered(s) == \A i, j \in DOMAIN s : i < j => Before({s[i]}, {s[j]})

\* Along the way from an originator to a hearer numbers only fall.
InOrder ==
  /\ \A w \in Workers : Ordered(up[w]) /\ Ordered(down[w])
  /\ \A p \in Peers : Ordered(heard[p])
  /\ \A w \in Workers : Before(ToSet(heard[w]), ToSet(down[w]))
  /\ \A w, v \in Workers : Before(ToSet(down[w]), ToSet(up[v]))
  /\ \A p \in Peers, v \in Workers : Before(ToSet(heard[p]), ToSet(up[v]))

\* The lives of the workers: what is sent, listed or waiting is of a worker that started.
Lives ==
  /\ \A w \in Workers : state[w] = "off" => up[w] = <<>> /\ peers[w] = <<>> /\ w \notin told
  /\ \A w \in Workers : state[w] # "up" => down[w] = <<>>
  /\ \A w \in Workers : \A m \in ToSet(down[w]) : m.from = Master \/ state[m.from] # "off"
  /\ \A p \in Peers : \A q \in ToSet(peers[p]) : q = Master \/ state[q] # "off"
  /\ \A w \in exits \cup late : state[w] = "dead"

\* Goodbyes are said for the dead only.
Goodbyes ==
  /\ \A w \in Workers : \A m \in ToSet(up[w]) : 
       m.type = "bye" => state[w] = "dead" /\ m.to = All
  /\ \A w \in Workers : \A m \in ToSet(down[w]) :
       m.type = "bye" => m.from \in Workers /\ state[m.from] = "dead"

\* A worker that hears of the others is on the list of the master.
Enlisted ==
  \A w \in Workers : state[w] = "up" =>
    /\ w \in told \/ (\E m \in ToSet(down[w]) : TRUE) \/ (ToSet(peers[w]) \ {Master} # {})
         => w \in ToSet(peers[Master])

\* What a process is to hear of has been heard or is on its way.
OnItsWay ==
  /\ \A w \in Workers : due[w] # {} => w \in told
  /\ \A p \in Living : \A m \in due[p] :
       /\ m.to = All
       /\ m.type = "event"
       /\ \/ m \in ToSet(heard[p])
          \/ p \in Workers /\ m \in ToSet(down[p])
          \/ m.from \in Workers \ {p} /\ m \in ToSet(up[m.from])

IsHello(m, w) == m.type = "hello" /\ m.from = w

\* A hello of v in a line, to one of some addressees.
HelloIn(line, v, to) == \E m \in ToSet(line) : IsHello(m, v) /\ m.to \in to

\* The master and the worker know each other, or will.
MasterKnown ==
  \A w \in Workers : state[w] = "up" =>
    /\ Master \in ToSet(peers[w])
    /\ HelloIn(up[w], w, {All}) \/ w \in ToSet(peers[Master])

\* Of two workers each knows the other, or will: by a hello on its way, an answer on
\* its way, or a hello that is still to be answered.
WorkersKnown ==
  \A v, w \in Workers : v # w /\ state[v] = "up" /\ state[w] = "up" =>
    \/ v \in ToSet(peers[w])
    \/ HelloIn(down[w], v, Peers \cup {All})
    \/ HelloIn(up[v], v, {All, w})
    \/ HelloIn(down[v], w, {All})
    \/ HelloIn(up[w], w, {All})

\* After the last hello of w there is a goodbye.
Dismissed(line, w) ==
  \E i \in DOMAIN line :
    /\ line[i].type = "bye" /\ line[i].from = w
    /\ \A j \in DOMAIN line : IsHello(line[j], w) => j < i

\* The master forgets the dead, unless their exit came too early ...
ForgottenByMaster ==
  \A w \in Workers : state[w] = "dead" /\ w \notin late =>
    w \in exits \/ (up[w] = <<>> /\ w \notin ToSet(peers[Master]))

\* ... and while it knows one, or a goodbye is on its way, so may the others.
Forgotten ==
  \A p, w \in Workers : state[p] = "up" /\ w \notin late =>
    \/ w \notin ToSet(peers[p]) /\ ~HelloIn(down[p], w, Peers \cup {All})
    \/ w \in ToSet(peers[Master])
    \/ Dismissed(down[p], w)

Inv ==
  TypeOK /\ Origins /\ InOrder /\ Lives /\ Goodbyes /\ Enlisted /\ OnItsWay
  /\ MasterKnown /\ WorkersKnown /\ ForgottenByMaster /\ Forgotten

----------------------------------------------------------------------------
(* Lines and lists. *)

\* What a line is with one message more.
LEMMA LineAppend ==
  ASSUME NEW S, NEW s \in Seq(S), NEW m \in S
  PROVE  /\ Append(s, m) \in Seq(S)
         /\ ToSet(Append(s, m)) = ToSet(s) \cup {m}
         /\ Len(Append(s, m)) = Len(s) + 1
         /\ Append(s, m)[Len(s) + 1] = m
         /\ \A i \in DOMAIN s : Append(s, m)[i] = s[i]
         /\ DOMAIN s = 1..Len(s) /\ Len(s) \in Nat
         /\ DOMAIN Append(s, m) = 1..(Len(s) + 1)
BY AppendProperties, LenProperties DEF ToSet

\* What a line is without its first message.
LEMMA LineTail ==
  ASSUME NEW S, NEW s \in Seq(S), s # <<>>
  PROVE  /\ Head(s) \in S /\ Tail(s) \in Seq(S)
         /\ Len(s) \in Nat \ {0} /\ DOMAIN s = 1..Len(s) /\ Head(s) = s[1]
         /\ DOMAIN Tail(s) = 1..(Len(s) - 1)
         /\ \A i \in DOMAIN Tail(s) : Tail(s)[i] = s[i + 1]
         /\ ToSet(s) = {Head(s)} \cup ToSet(Tail(s))
<1>1. /\ Head(s) \in S /\ Tail(s) \in Seq(S) /\ Len(Tail(s)) = Len(s) - 1
      /\ Len(s) \in Nat \ {0} /\ DOMAIN s = 1..Len(s) /\ Head(s) = s[1]
      /\ DOMAIN Tail(s) = 1..(Len(s) - 1)
      /\ \A i \in 1..(Len(s) - 1) : Tail(s)[i] = s[i + 1]
  BY HeadTailProperties, LenProperties, EmptySeq
<1>2. ASSUME NEW x \in ToSet(s)
      PROVE  x \in {Head(s)} \cup ToSet(Tail(s))
  <2>1. PICK i \in 1..Len(s) : x = s[i]
    BY <1>1, <1>2 DEF ToSet
  <2>2. CASE i = 1
    BY <1>1, <2>1, <2>2
  <2>3. CASE i # 1
    <3>1. i - 1 \in 1..(Len(s) - 1) /\ Tail(s)[i - 1] = s[i]
      BY <1>1, <2>3
    <3> QED BY <1>1, <2>1, <3>1 DEF ToSet
  <2> QED BY <2>2, <2>3
<1>3. ASSUME NEW x \in {Head(s)} \cup ToSet(Tail(s))
      PROVE  x \in ToSet(s)
  BY <1>1, <1>3 DEF ToSet
<1>4. ToSet(s) = {Head(s)} \cup ToSet(Tail(s))
  BY <1>2, <1>3
<1> QED BY <1>1, <1>4

\* What is left of a line when only its beginning gets out.
LEMMA LineCut ==
  ASSUME NEW S, NEW s \in Seq(S), NEW n \in 0..Len(s)
  PROVE  /\ SubSeq(s, 1, n) \in Seq(S)
         /\ Len(s) \in Nat /\ DOMAIN s = 1..Len(s)
         /\ DOMAIN SubSeq(s, 1, n) = 1..n
         /\ \A i \in 1..n : SubSeq(s, 1, n)[i] = s[i]
         /\ ToSet(SubSeq(s, 1, n)) \subseteq ToSet(s)
         /\ ToSet(s) \subseteq ToSet(SubSeq(s, 1, n)) \cup ToSet(SubSeq(s, n + 1, Len(s)))
<1>1. Len(s) \in Nat /\ DOMAIN s = 1..Len(s) /\ \A i \in 1..Len(s) : s[i] \in S
  BY LenProperties, ElementOfSeq
<1>2. /\ SubSeq(s, 1, n) \in Seq(S) /\ Len(SubSeq(s, 1, n)) = n
      /\ \A i \in 1..n : SubSeq(s, 1, n)[i] = s[i]
  <2>1. /\ SubSeq(s, 1, n) \in Seq(S)
        /\ Len(SubSeq(s, 1, n)) = IF 1 <= n THEN n - 1 + 1 ELSE 0
        /\ \A i \in 1..(n - 1 + 1) : SubSeq(s, 1, n)[i] = s[1 + i - 1]
    BY <1>1, SubSeqProperties, 1 \in Int, n \in Int
  <2> QED BY <1>1, <2>1
<1>3. /\ SubSeq(s, n + 1, Len(s)) \in Seq(S) /\ Len(SubSeq(s, n + 1, Len(s))) = Len(s) - n
      /\ \A i \in 1..(Len(s) - n) : SubSeq(s, n + 1, Len(s))[i] = s[n + i]
  <2>0. n + 1 \in Int /\ Len(s) \in Int /\ \A i \in (n + 1)..Len(s) : s[i] \in S
    BY <1>1
  <2>1. /\ SubSeq(s, n + 1, Len(s)) \in Seq(S)
        /\ Len(SubSeq(s, n + 1, Len(s))) = IF n + 1 <= Len(s) THEN Len(s) - (n + 1) + 1 ELSE 0
        /\ \A i \in 1..(Len(s) - (n + 1) + 1) : SubSeq(s, n + 1, Len(s))[i] = s[(n + 1) + i - 1]
    BY <2>0, SubSeqProperties
  <2>2. n \in Nat /\ n <= Len(s) /\ Len(s) - (n + 1) + 1 = Len(s) - n
    BY <1>1
  <2>3. Len(SubSeq(s, n + 1, Len(s))) = Len(s) - n
    <3>1. CASE n + 1 <= Len(s)
      BY <2>1, <2>2, <3>1
    <3>2. CASE ~(n + 1 <= Len(s))
      <4>1. Len(s) - n = 0
        <5>1. n \in Nat /\ Len(s) \in Nat /\ n <= Len(s) /\ ~(n + 1 <= Len(s))
          BY <1>1, <2>2, <3>2
        <5>2. n = Len(s)
          BY <5>1
        <5> QED BY <5>1, <5>2
      <4> QED BY <2>1, <3>2, <4>1
    <3> QED BY <3>1, <3>2
  <2>4. ASSUME NEW i \in 1..(Len(s) - n)
        PROVE  SubSeq(s, n + 1, Len(s))[i] = s[n + i]
    <3>1. (n + 1) + i - 1 = n + i
      BY <1>1, <2>2
    <3> QED BY <2>1, <2>2, <3>1
  <2> QED BY <2>1, <2>3, <2>4
<1>4. DOMAIN SubSeq(s, 1, n) = 1..n /\ DOMAIN SubSeq(s, n + 1, Len(s)) = 1..(Len(s) - n)
  BY <1>2, <1>3, LenProperties
<1>5. ToSet(SubSeq(s, 1, n)) \subseteq ToSet(s)
  BY <1>1, <1>2, <1>4 DEF ToSet
<1>6. ASSUME NEW i \in 1..Len(s)
      PROVE  s[i] \in ToSet(SubSeq(s, 1, n)) \cup ToSet(SubSeq(s, n + 1, Len(s)))
  <2>1. CASE i <= n
    BY <1>2, <1>4, <2>1 DEF ToSet
  <2>2. CASE i > n
    <3>0. i - n \in 1..(Len(s) - n) /\ n + (i - n) = i
      BY <1>1, <2>2
    <3>1. i - n \in 1..(Len(s) - n) /\ SubSeq(s, n + 1, Len(s))[i - n] = s[i]
      BY <1>3, <3>0
    <3> QED BY <1>4, <3>1 DEF ToSet
  <2> QED BY <1>1, <2>1, <2>2
<1>7. ToSet(s) \subseteq ToSet(SubSeq(s, 1, n)) \cup ToSet(SubSeq(s, n + 1, Len(s)))
  BY <1>1, <1>6 DEF ToSet
<1> QED BY <1>1, <1>2, <1>4, <1>5, <1>7

\* A line stays in order when what comes last is newer than all in it.
LEMMA OrderedAppend ==
  ASSUME NEW S, NEW s \in Seq(S), NEW m \in S, Ordered(s), Before(ToSet(s), {m})
  PROVE  Ordered(Append(s, m))
BY LineAppend DEF Ordered, Before, ToSet

\* Taking the first message leaves a line in order, and that message is the oldest.
LEMMA OrderedTail ==
  ASSUME NEW S, NEW s \in Seq(S), s # <<>>, Ordered(s)
  PROVE  Ordered(Tail(s)) /\ Before({Head(s)}, ToSet(Tail(s)))
<1>1. ASSUME NEW i \in DOMAIN Tail(s) PROVE i + 1 \in DOMAIN s /\ 1 < i + 1 /\ Tail(s)[i] = s[i + 1]
  BY LineTail
<1>2. Ordered(Tail(s))
  <2> SUFFICES ASSUME NEW i \in DOMAIN Tail(s), NEW j \in DOMAIN Tail(s), i < j
               PROVE  Before({Tail(s)[i]}, {Tail(s)[j]})
    BY DEF Ordered
  <2>1. i + 1 < j + 1
    BY LineTail
  <2> QED BY <1>1, <2>1 DEF Ordered
<1>3. \A j \in DOMAIN Tail(s) : Before({Head(s)}, {Tail(s)[j]})
  BY <1>1, LineTail DEF Ordered
<1>4. Before({Head(s)}, ToSet(Tail(s)))
  BY <1>3 DEF Before, ToSet
<1> QED BY <1>2, <1>4

\* The beginning of a line in order is in order.
LEMMA OrderedCut ==
  ASSUME NEW S, NEW s \in Seq(S), NEW n \in 0..Len(s), Ordered(s)
  PROVE  Ordered(SubSeq(s, 1, n))
<1>1. DOMAIN SubSeq(s, 1, n) = 1..n /\ DOMAIN s = 1..Len(s) /\ Len(s) \in Nat
      /\ \A i \in 1..n : SubSeq(s, 1, n)[i] = s[i]
  BY LineCut
<1>2. 1..n \subseteq 1..Len(s)
  BY <1>1
<1> QED BY <1>1, <1>2 DEF Ordered

\* A goodbye at the end dismisses; what is no hello leaves a dismissal valid.
LEMMA DismissedAppend ==
  ASSUME NEW S, NEW s \in Seq(S), NEW m \in S, NEW w
  PROVE  /\ Dismissed(s, w) /\ ~IsHello(m, w) => Dismissed(Append(s, m), w)
         /\ m.type = "bye" /\ m.from = w => Dismissed(Append(s, m), w)
<1>1. /\ Len(s) \in Nat /\ DOMAIN s = 1..Len(s) /\ DOMAIN Append(s, m) = 1..(Len(s) + 1)
      /\ Append(s, m)[Len(s) + 1] = m
      /\ \A i \in 1..Len(s) : Append(s, m)[i] = s[i]
  BY LineAppend
<1>2. ASSUME Dismissed(s, w), ~IsHello(m, w)
      PROVE  Dismissed(Append(s, m), w)
  <2>1. PICK i \in 1..Len(s) : /\ s[i].type = "bye" /\ s[i].from = w
                              /\ \A j \in 1..Len(s) : IsHello(s[j], w) => j < i
    BY <1>1, <1>2 DEF Dismissed
  <2>2. \A j \in 1..(Len(s) + 1) : IsHello(Append(s, m)[j], w) => j < i
    BY <1>1, <1>2, <2>1
  <2> QED BY <1>1, <2>1, <2>2 DEF Dismissed
<1>3. ASSUME m.type = "bye", m.from = w
      PROVE  Dismissed(Append(s, m), w)
  <2>1. ~IsHello(m, w)
    BY <1>3 DEF IsHello
  <2>2. \A j \in 1..(Len(s) + 1) : IsHello(Append(s, m)[j], w) => j < Len(s) + 1
    BY <1>1, <2>1
  <2> QED BY <1>1, <1>3, <2>2 DEF Dismissed
<1> QED BY <1>2, <1>3

\* The first message taken from a line is no last goodbye, or it was the one.
LEMMA DismissedTail ==
  ASSUME NEW S, NEW s \in Seq(S), s # <<>>, NEW w, Dismissed(s, w)
  PROVE  \/ Dismissed(Tail(s), w)
         \/ Head(s).type = "bye" /\ Head(s).from = w
            /\ \A m \in ToSet(Tail(s)) : ~IsHello(m, w)
<1>1. /\ Len(s) \in Nat \ {0} /\ DOMAIN s = 1..Len(s) /\ Head(s) = s[1]
      /\ DOMAIN Tail(s) = 1..(Len(s) - 1)
      /\ \A i \in 1..(Len(s) - 1) : Tail(s)[i] = s[i + 1]
  BY LineTail
<1>2. PICK i \in 1..Len(s) : /\ s[i].type = "bye" /\ s[i].from = w
                            /\ \A j \in 1..Len(s) : IsHello(s[j], w) => j < i
  BY <1>1 DEF Dismissed
<1>3. \A j \in 1..(Len(s) - 1) : IsHello(Tail(s)[j], w) => j + 1 < i
  BY <1>1, <1>2
<1>4. CASE i = 1
  <2>1. \A j \in 1..(Len(s) - 1) : ~IsHello(Tail(s)[j], w)
    BY <1>1, <1>3, <1>4
  <2> QED BY <1>1, <1>2, <1>4, <2>1 DEF ToSet
<1>5. CASE i # 1
  <2>1. i - 1 \in 1..(Len(s) - 1) /\ Tail(s)[i - 1] = s[i]
    BY <1>1, <1>5
  <2>2. \A j \in 1..(Len(s) - 1) : IsHello(Tail(s)[j], w) => j < i - 1
    BY <1>1, <1>3
  <2> QED BY <1>1, <1>2, <2>1, <2>2 DEF Dismissed
<1> QED BY <1>4, <1>5

\* addPeer keeps a list free of repetitions.
LEMMA AddPeerMeaning ==
  ASSUME NEW list \in Seq(Peers), IsInjective(list), NEW p \in Peers
  PROVE  /\ AddPeer(list, p) \in Seq(Peers)
         /\ IsInjective(AddPeer(list, p))
         /\ ToSet(AddPeer(list, p)) = ToSet(list) \cup {p}
<1>1. CASE p \in ToSet(list)
  BY <1>1 DEF AddPeer
<1>2. CASE p \notin ToSet(list)
  <2>1. AddPeer(list, p) = Append(list, p)
    BY <1>2 DEF AddPeer
  <2>2. /\ DOMAIN list = 1..Len(list) /\ DOMAIN Append(list, p) = 1..(Len(list) + 1)
        /\ Len(list) \in Nat
        /\ \A i \in 1..Len(list) : Append(list, p)[i] = list[i] /\ list[i] # p
        /\ Append(list, p)[Len(list) + 1] = p
    BY <1>2, LineAppend DEF ToSet
  <2>3. IsInjective(Append(list, p))
    BY <2>2 DEF IsInjective
  <2> QED BY <2>1, <2>3, LineAppend
<1> QED BY <1>1, <1>2

\* A line without its k-th entry.
LEMMA RemoveAtMeaning ==
  ASSUME NEW S, NEW s \in Seq(S), NEW k \in 1..Len(s)
  PROVE  /\ Len(s) \in Nat \ {0}
         /\ RemoveAt(s, k) \in Seq(S)
         /\ DOMAIN RemoveAt(s, k) = 1..(Len(s) - 1)
         /\ \A i \in 1..(Len(s) - 1) :
              RemoveAt(s, k)[i] = IF i < k THEN s[i] ELSE s[i + 1]
<1> DEFINE a == SubSeq(s, 1, k - 1)
           b == SubSeq(s, k + 1, Len(s))
<1>0. Len(s) \in Nat /\ k \in Nat /\ 1 <= k /\ k <= Len(s) /\ Len(s) # 0
  BY LenProperties
<1>1. \A i \in 1..Len(s) : s[i] \in S
  BY LenProperties, ElementOfSeq
<1>2. a \in Seq(S) /\ Len(a) = k - 1 /\ \A i \in 1..(k - 1) : a[i] = s[i]
  <2>1. 1 \in Int /\ k - 1 \in Int /\ \A i \in 1..(k - 1) : s[i] \in S
    BY <1>0, <1>1
  <2>2. /\ a \in Seq(S)
        /\ Len(a) = IF 1 <= k - 1 THEN (k - 1) - 1 + 1 ELSE 0
        /\ \A i \in 1..((k - 1) - 1 + 1) : a[i] = s[1 + i - 1]
    BY <2>1, SubSeqProperties
  <2>3. (k - 1) - 1 + 1 = k - 1 /\ \A i \in 1..(k - 1) : 1 + i - 1 = i
    BY <1>0
  <2>4. CASE 1 <= k - 1
    BY <2>2, <2>3, <2>4
  <2>5. CASE ~(1 <= k - 1)
    <3>1. k - 1 = 0
      BY <1>0, <2>5
    <3> QED BY <2>2, <2>3, <2>5, <3>1
  <2> QED BY <2>4, <2>5
<1>3. b \in Seq(S) /\ Len(b) = Len(s) - k /\ \A i \in 1..(Len(s) - k) : b[i] = s[k + i]
  <2>1. k + 1 \in Int /\ Len(s) \in Int /\ \A i \in (k + 1)..Len(s) : s[i] \in S
    BY <1>0, <1>1
  <2>2. /\ b \in Seq(S)
        /\ Len(b) = IF k + 1 <= Len(s) THEN Len(s) - (k + 1) + 1 ELSE 0
        /\ \A i \in 1..(Len(s) - (k + 1) + 1) : b[i] = s[(k + 1) + i - 1]
    BY <2>1, SubSeqProperties
  <2>3. Len(s) - (k + 1) + 1 = Len(s) - k /\ \A i \in 1..(Len(s) - k) : (k + 1) + i - 1 = k + i
    BY <1>0
  <2>4. CASE k + 1 <= Len(s)
    BY <2>2, <2>3, <2>4
  <2>5. CASE ~(k + 1 <= Len(s))
    <3>1. Len(s) - k = 0
      <4>1. k = Len(s)
        BY <1>0, <2>5
      <4> QED BY <1>0, <4>1
    <3> QED BY <2>2, <2>3, <2>5, <3>1
  <2> QED BY <2>4, <2>5
<1>4. RemoveAt(s, k) = a \o b
  BY DEF RemoveAt
<1> HIDE DEF a, b
<1>5. /\ a \o b \in Seq(S) /\ Len(a \o b) = Len(a) + Len(b)
      /\ \A i \in 1..(Len(a) + Len(b)) :
           (a \o b)[i] = IF i <= Len(a) THEN a[i] ELSE b[i - Len(a)]
  BY <1>2, <1>3, ConcatProperties
<1>6. Len(a) + Len(b) = Len(s) - 1
  BY <1>0, <1>2, <1>3
<1>7. DOMAIN (a \o b) = 1..(Len(s) - 1)
  BY <1>5, <1>6, LenProperties
<1>8. ASSUME NEW i \in 1..(Len(s) - 1)
      PROVE  (a \o b)[i] = IF i < k THEN s[i] ELSE s[i + 1]
  <2>1. CASE i < k
    <3>1. i <= Len(a) /\ i \in 1..(k - 1)
      BY <1>0, <1>2, <2>1
    <3> QED BY <1>2, <1>5, <1>6, <2>1, <3>1
  <2>2. CASE ~(i < k)
    <3>1. ~(i <= Len(a)) /\ i - Len(a) \in 1..(Len(s) - k) /\ k + (i - Len(a)) = i + 1
      BY <1>0, <1>2, <2>2
    <3> QED BY <1>3, <1>5, <1>6, <2>2, <3>1
  <2> QED BY <2>1, <2>2
<1> QED BY <1>0, <1>4, <1>5, <1>7, <1>8

\* removePeer takes the peer off the list, and no other.
LEMMA RemovePeerMeaning ==
  ASSUME NEW list \in Seq(Peers), IsInjective(list), NEW p
  PROVE  /\ RemovePeer(list, p) \in Seq(Peers)
         /\ IsInjective(RemovePeer(list, p))
         /\ ToSet(RemovePeer(list, p)) = ToSet(list) \ {p}
<1>1. CASE p \notin ToSet(list)
  BY <1>1 DEF RemovePeer
<1>2. CASE p \in ToSet(list)
  <2>1. DOMAIN list = 1..Len(list)
    BY LenProperties
  <2>2. PICK k \in 1..Len(list) : list[k] = p
    BY <1>2, <2>1 DEF ToSet
  <2>3. {i \in DOMAIN list : list[i] = p} = {k}
    BY <2>1, <2>2 DEF IsInjective
  <2>4. Min({k}) = k
    <3>1. k \in Int
      OBVIOUS
    <3> QED BY <3>1 DEF Min
  <2>5. RemovePeer(list, p) = RemoveAt(list, k)
    BY <1>2, <2>3, <2>4 DEF RemovePeer
  <2> DEFINE r == RemoveAt(list, k)
  <2>6. /\ Len(list) \in Nat \ {0} /\ r \in Seq(Peers)
        /\ DOMAIN r = 1..(Len(list) - 1)
        /\ \A i \in 1..(Len(list) - 1) : r[i] = IF i < k THEN list[i] ELSE list[i + 1]
    BY RemoveAtMeaning
  <2> HIDE DEF r
  <2>7. ASSUME NEW i \in 1..(Len(list) - 1), NEW j \in 1..(Len(list) - 1), r[i] = r[j]
        PROVE  i = j
    <3> DEFINE at(x) == IF x < k THEN x ELSE x + 1
    <3>1. \A x \in 1..(Len(list) - 1) : at(x) \in 1..Len(list) /\ r[x] = list[at(x)]
      BY <2>6
    <3>2. list[at(i)] = list[at(j)]
      BY <2>7, <3>1
    <3>3. at(i) = at(j)
      <4> HIDE DEF at
      <4> QED BY <2>1, <3>1, <3>2 DEF IsInjective
    <3> QED BY <2>6, <3>3
  <2>8. ASSUME NEW x \in ToSet(r)
        PROVE  x \in ToSet(list) \ {p}
    <3>1. PICK i \in 1..(Len(list) - 1) : x = r[i]
      BY <2>6, <2>8 DEF ToSet
    <3>2. CASE i < k
      <4>1. i \in 1..Len(list) /\ x = list[i] /\ i # k
        BY <2>6, <3>1, <3>2
      <4> QED BY <2>1, <2>2, <4>1 DEF ToSet, IsInjective
    <3>3. CASE ~(i < k)
      <4>1. i + 1 \in 1..Len(list) /\ x = list[i + 1] /\ i + 1 # k
        BY <2>6, <3>1, <3>3
      <4> QED BY <2>1, <2>2, <4>1 DEF ToSet, IsInjective
    <3> QED BY <3>2, <3>3
  <2>9. ASSUME NEW x \in ToSet(list) \ {p}
        PROVE  x \in ToSet(r)
    <3>1. PICK i \in 1..Len(list) : x = list[i]
      BY <2>1, <2>9 DEF ToSet
    <3>2. i # k
      BY <2>2, <2>9, <3>1
    <3>3. CASE i < k
      <4>1. i \in 1..(Len(list) - 1) /\ r[i] = x
        BY <2>6, <3>1, <3>3
      <4> QED BY <2>6, <4>1 DEF ToSet
    <3>4. CASE ~(i < k)
      <4>1. i - 1 \in 1..(Len(list) - 1) /\ ~(i - 1 < k) /\ (i - 1) + 1 = i
        BY <2>6, <3>2, <3>4
      <4>2. r[i - 1] = x
        BY <2>6, <3>1, <4>1
      <4> QED BY <2>6, <4>1, <4>2 DEF ToSet
    <3> QED BY <3>3, <3>4
  <2> QED BY <2>5, <2>6, <2>7, <2>8, <2>9 DEF r, IsInjective
<1> QED BY <1>1, <1>2

\* Whom the master reaches with a message, by a list.
Reached(list, w, m) ==
  state[w] = "up" /\ w \in ToSet(list) /\ w # m.from /\ m.to \in {All, w}

\* From a list without repetitions everyone it names gets one copy, at the end of the line.
LEMMA SentMeaning ==
  ASSUME NEW lines \in [Workers -> Seq(Message)], NEW list \in Seq(Peers), IsInjective(list),
         NEW m \in Message
  PROVE  /\ Sent(lines, list, m) \in [Workers -> Seq(Message)]
         /\ \A w \in Workers :
              Sent(lines, list, m)[w] = IF Reached(list, w, m) THEN Append(lines[w], m)
                                                               ELSE lines[w]
<1> DEFINE many(w) == Cardinality(Picked(list, w, m))
           line(w) == IF state[w] = "up" THEN lines[w] \o [i \in 1..many(w) |-> m] ELSE lines[w]
<1>1. ASSUME NEW w \in Workers
      PROVE  line(w) = IF Reached(list, w, m) THEN Append(lines[w], m) ELSE lines[w]
  <2>1. CASE state[w] # "up"
    BY <2>1 DEF Reached
  <2>2. CASE state[w] = "up" /\ Reached(list, w, m)
    <3>1. PICK k \in DOMAIN list : list[k] = w
      BY <2>2 DEF Reached, ToSet
    <3>2. Picked(list, w, m) = {k}
      BY <2>2, <3>1 DEF Picked, Reached, IsInjective
    <3>3. many(w) = 1
      BY <3>2, FS_Singleton
    <3>4. line(w) = lines[w] \o [i \in 1..1 |-> m]
      BY <2>2, <3>3
    <3>5. [i \in 1..1 |-> m] = <<m>>
      OBVIOUS
    <3>6. Append(lines[w], m) = lines[w] \o <<m>>
      BY AppendIsConcat
    <3> HIDE DEF line
    <3> QED BY <2>2, <3>4, <3>5, <3>6
  <2>3. CASE state[w] = "up" /\ ~Reached(list, w, m)
    <3>1. Picked(list, w, m) = {}
      BY <2>3 DEF Picked, Reached, ToSet
    <3>2. many(w) = 0
      BY <3>1, FS_EmptySet
    <3>3. line(w) = lines[w] \o [i \in 1..0 |-> m]
      BY <2>3, <3>2
    <3>4. [i \in 1..0 |-> m] = <<>>
      OBVIOUS
    <3> QED BY <2>3, <3>3, <3>4, ConcatEmptySeq
  <2> QED BY <2>1, <2>2, <2>3
<1>2. Sent(lines, list, m) = [w \in Workers |-> line(w)]
  BY DEF Sent
<1> HIDE DEF line
<1>3. \A w \in Workers : line(w) \in Seq(Message)
  BY <1>1, AppendProperties
<1> QED BY <1>1, <1>2, <1>3

\* Lines hold messages, lists hold peers.
LEMMA Members ==
  ASSUME TypeOK
  PROVE  /\ \A v \in Workers : \A x \in ToSet(up[v]) : x \in Message /\ x.from \in Peers
         /\ \A v \in Workers : \A x \in ToSet(down[v]) : x \in Message /\ x.from \in Peers
         /\ \A p \in Peers : \A q \in ToSet(peers[p]) : q \in Peers
<1>1. ASSUME NEW S, NEW s \in Seq(S), NEW x \in ToSet(s)
      PROVE  x \in S
  BY ElementOfSeq, LenProperties DEF ToSet
<1>2. \A x \in Message : x.from \in Peers
  BY DEF Message
<1>3. \A v \in Workers : up[v] \in Seq(Message) /\ down[v] \in Seq(Message)
  BY DEF TypeOK
<1>4. \A p \in Peers : peers[p] \in Seq(Peers)
  BY DEF TypeOK
<1> QED BY <1>1, <1>2, <1>3, <1>4

----------------------------------------------------------------------------
(* What the actions do to the lines and lists, entry by entry. *)

\* A line gets nothing, or one message more.
Unchanged(old, new) == new = old
Longer(old, new, m) == new = Append(old, m) /\ ToSet(new) = ToSet(old) \cup {m}

\* The messages that are sent.
LEMMA Constructed ==
  ASSUME NEW p \in Peers, NEW q \in Peers \cup {All}
  PROVE  /\ Hello(p, q) \in Message /\ Bye(p) \in Message
         /\ \A n \in 0..MaxEvents : Changed(p, n) \in Message
<1>1. 0 \in 0..MaxEvents
  BY ClusterAssumption
<1>2. Hello(p, q) \in Message
  BY <1>1 DEF Hello, Message
<1>3. Bye(p) \in Message
  BY <1>1 DEF Bye, Message
<1>4. \A n \in 0..MaxEvents : Changed(p, n) \in Message
  BY DEF Changed, Message
<1> QED BY <1>2, <1>3, <1>4

\* What the master sends by its own list, which has no repetitions.
LEMMA MasterSends ==
  ASSUME TypeOK, NEW list \in Seq(Peers), IsInjective(list), NEW m \in Message,
         NEW lines \in [Workers -> Seq(Message)]
  PROVE  /\ Sent(lines, list, m) \in [Workers -> Seq(Message)]
         /\ \A w \in Workers :
              IF Reached(list, w, m) THEN Longer(lines[w], Sent(lines, list, m)[w], m)
                                     ELSE Unchanged(lines[w], Sent(lines, list, m)[w])
<1>1. \A w \in Workers :
        Sent(lines, list, m)[w] = IF Reached(list, w, m) THEN Append(lines[w], m) ELSE lines[w]
  BY SentMeaning
<1>2. \A w \in Workers : ToSet(Append(lines[w], m)) = ToSet(lines[w]) \cup {m}
  BY LineAppend
<1>3. Sent(lines, list, m) \in [Workers -> Seq(Message)]
  BY SentMeaning
<1> QED BY <1>1, <1>2, <1>3 DEF Longer, Unchanged

\* Whom a message from w to the master reaches, and who is greeted by the master for it.
Got(v, w, m) ==
  state[v] = "up" /\ v \in ToSet(peers[Master]) /\ v # w /\ m.to \in {All, v}

Greeted(v, w, m) == state[v] = "up" /\ v = w /\ m.type = "hello" /\ m.to = All

MasterDoes(w, m) ==
  /\ m \in Message /\ m.from = w /\ m.nr <= events /\ m \in ToSet(up[w])
  /\ up[w] \in Seq(Message) /\ up[w] # <<>>
  /\ up' \in [Workers -> Seq(Message)] /\ up'[w] = Tail(up[w])
  /\ ToSet(up[w]) = {m} \cup ToSet(up'[w])
  /\ \A v \in Workers \ {w} : up'[v] = up[v]
  /\ peers' \in [Peers -> Seq(Peers)] /\ IsInjective(peers'[Master])
  /\ ToSet(peers'[Master]) =
       IF m.type = "hello" THEN ToSet(peers[Master]) \cup {w}
       ELSE IF m.type = "bye" /\ m.to \in {All, Master} THEN ToSet(peers[Master]) \ {w}
       ELSE ToSet(peers[Master])
  /\ \A v \in Workers : peers'[v] = peers[v]
  /\ down' \in [Workers -> Seq(Message)]
  /\ Hello(Master, w) \in Message
  /\ \A v \in Workers :
       \/ Got(v, w, m) /\ Longer(down[v], down'[v], m)
       \/ Greeted(v, w, m) /\ Longer(down[v], down'[v], Hello(Master, w))
       \/ ~Got(v, w, m) /\ ~Greeted(v, w, m) /\ Unchanged(down[v], down'[v])
  /\ heard' \in [Peers -> Seq(Message)]
  /\ IF m.type = "event" THEN Longer(heard[Master], heard'[Master], m)
                          ELSE heard'[Master] = heard[Master]
  /\ \A v \in Workers : heard'[v] = heard[v]
  /\ UNCHANGED <<state, exits, events, told, due, late>>

\* handleMessage of the master, entry by entry.
LEMMA MasterEffect ==
  ASSUME TypeOK, Origins, NEW w \in Workers, MasterHandle(w), NEW m, m = Head(up[w])
  PROVE  MasterDoes(w, m)
<1> DEFINE known == IF m.type = "hello" THEN AddPeer(peers[Master], m.from) ELSE peers[Master]
           forwarded == IF m.to # Master THEN Sent(down, known, m) ELSE down
           answered == IF m.type = "hello" /\ m.to = All
                         THEN Sent(forwarded, known, Hello(Master, m.from)) ELSE forwarded
<1>1. /\ up[w] \in Seq(Message) /\ up[w] # <<>>
      /\ peers[Master] \in Seq(Peers) /\ IsInjective(peers[Master])
      /\ down \in [Workers -> Seq(Message)] /\ Master \in Peers /\ w \in Peers /\ w # Master
  BY ClusterAssumption DEF TypeOK, Peers, MasterHandle
<1>2. /\ m \in Message /\ m \in ToSet(up[w]) /\ Tail(up[w]) \in Seq(Message)
      /\ ToSet(up[w]) = {m} \cup ToSet(Tail(up[w]))
  BY <1>1, LineTail
<1>3. m.from = w /\ m.nr <= events
  BY <1>2 DEF Origins
<1>4. /\ up' \in [Workers -> Seq(Message)] /\ up'[w] = Tail(up[w])
      /\ \A v \in Workers \ {w} : up'[v] = up[v]
  BY <1>2 DEF MasterHandle, TypeOK
<1>5. /\ known \in Seq(Peers) /\ IsInjective(known)
      /\ ToSet(known) = IF m.type = "hello" THEN ToSet(peers[Master]) \cup {w} ELSE ToSet(peers[Master])
  BY <1>1, <1>3, AddPeerMeaning
<1>6. /\ peers' = [peers EXCEPT ![Master] = IF m.to \in {All, Master} /\ m.type = "bye"
                                              THEN RemovePeer(known, w) ELSE known]
      /\ down' = answered
      /\ heard' = IF m.type = "event" THEN [heard EXCEPT ![Master] = Append(@, m)] ELSE heard
  BY <1>3, Zenon DEF MasterHandle
<1>7. Hello(Master, w) \in Message
  BY <1>1, Constructed, ClusterAssumption
<1> HIDE DEF known
<1>8. /\ forwarded \in [Workers -> Seq(Message)]
      /\ \A v \in Workers : IF m.to # Master /\ Reached(known, v, m)
                               THEN Longer(down[v], forwarded[v], m)
                               ELSE Unchanged(down[v], forwarded[v])
  <2>1. CASE m.to # Master
    <3>1. forwarded = Sent(down, known, m)
      BY <2>1
    <3> QED BY <1>1, <1>2, <1>5, <2>1, <3>1, MasterSends
  <2>2. CASE m.to = Master
    BY <1>1, <2>2 DEF Unchanged
  <2> QED BY <2>1, <2>2
<1> HIDE DEF forwarded
<1>9. /\ answered \in [Workers -> Seq(Message)]
      /\ \A v \in Workers :
           IF m.type = "hello" /\ m.to = All /\ Reached(known, v, Hello(Master, w))
             THEN Longer(forwarded[v], answered[v], Hello(Master, w))
             ELSE Unchanged(forwarded[v], answered[v])
  <2>1. CASE m.type = "hello" /\ m.to = All
    <3>1. answered = Sent(forwarded, known, Hello(Master, w))
      BY <1>3, <2>1
    <3> QED BY <1>5, <1>7, <1>8, <2>1, <3>1, MasterSends
  <2>2. CASE ~(m.type = "hello" /\ m.to = All)
    BY <1>8, <2>2 DEF Unchanged
  <2> QED BY <2>1, <2>2
<1> HIDE DEF answered
<1>10. ASSUME NEW v \in Workers
       PROVE  /\ Reached(known, v, m) /\ m.to # Master <=> Got(v, w, m)
              /\ m.type = "hello" /\ m.to = All /\ Reached(known, v, Hello(Master, w))
                   <=> Greeted(v, w, m)
  <2>1. v # Master /\ v # All
    BY ClusterAssumption
  <2>2. Hello(Master, w).from = Master /\ Hello(Master, w).to = w /\ w # All
    BY ClusterAssumption DEF Hello
  <2> QED BY <1>3, <1>5, <2>1, <2>2, ClusterAssumption DEF Reached, Got, Greeted
<1>11. ASSUME NEW v \in Workers
       PROVE  \/ Got(v, w, m) /\ Longer(down[v], down'[v], m)
              \/ Greeted(v, w, m) /\ Longer(down[v], down'[v], Hello(Master, w))
              \/ ~Got(v, w, m) /\ ~Greeted(v, w, m) /\ Unchanged(down[v], down'[v])
  <2>1. ~(Got(v, w, m) /\ Greeted(v, w, m))
    BY DEF Got, Greeted
  <2> QED BY <1>6, <1>8, <1>9, <1>10, <2>1 DEF Unchanged
<1>12. /\ peers' \in [Peers -> Seq(Peers)] /\ IsInjective(peers'[Master])
       /\ ToSet(peers'[Master]) =
            IF m.type = "hello" THEN ToSet(peers[Master]) \cup {w}
            ELSE IF m.type = "bye" /\ m.to \in {All, Master} THEN ToSet(peers[Master]) \ {w}
            ELSE ToSet(peers[Master])
       /\ \A v \in Workers : peers'[v] = peers[v]
  <2>1. /\ RemovePeer(known, w) \in Seq(Peers) /\ IsInjective(RemovePeer(known, w))
        /\ ToSet(RemovePeer(known, w)) = ToSet(known) \ {w}
    BY <1>5, RemovePeerMeaning
  <2>2. peers \in [Peers -> Seq(Peers)]
    BY DEF TypeOK
  <2>3. \A v \in Workers : v \in Peers /\ v # Master
    BY ClusterAssumption DEF Peers
  <2>4. peers'[Master] = IF m.to \in {All, Master} /\ m.type = "bye" THEN RemovePeer(known, w) ELSE known
    BY <1>1, <1>6, <2>2
  <2>5. peers' \in [Peers -> Seq(Peers)] /\ \A v \in Workers : peers'[v] = peers[v]
    BY <1>5, <1>6, <2>1, <2>2, <2>3
  <2> QED BY <1>5, <2>1, <2>4, <2>5
<1>13. /\ heard' \in [Peers -> Seq(Message)]
       /\ IF m.type = "event" THEN Longer(heard[Master], heard'[Master], m)
                               ELSE heard'[Master] = heard[Master]
       /\ \A v \in Workers : heard'[v] = heard[v]
  <2>1. heard \in [Peers -> Seq(Message)] /\ heard[Master] \in Seq(Message)
    BY <1>1 DEF TypeOK
  <2>2. \A v \in Workers : v \in Peers /\ v # Master
    BY ClusterAssumption DEF Peers
  <2>3. Append(heard[Master], m) \in Seq(Message)
        /\ ToSet(Append(heard[Master], m)) = ToSet(heard[Master]) \cup {m}
    BY <1>2, <2>1, LineAppend
  <2> QED BY <1>1, <1>6, <2>1, <2>2, <2>3 DEF Longer
<1>14. UNCHANGED <<state, exits, events, told, due, late>>
  BY DEF MasterHandle
<1> QED BY <1>1, <1>2, <1>3, <1>4, <1>6, <1>7, <1>9, <1>11, <1>12, <1>13, <1>14 DEF MasterDoes

WorkerDoes(w, m) ==
  /\ m \in Message /\ m.from # w /\ m.nr <= events /\ m \in ToSet(down[w])
  /\ state[w] = "up" /\ down[w] \in Seq(Message) /\ down[w] # <<>>
  /\ down' \in [Workers -> Seq(Message)] /\ down'[w] = Tail(down[w])
  /\ ToSet(down[w]) = {m} \cup ToSet(down'[w])
  /\ \A v \in Workers \ {w} : down'[v] = down[v]
  /\ peers' \in [Peers -> Seq(Peers)] /\ IsInjective(peers'[w])
  /\ ToSet(peers'[w]) = IF m.type = "hello" THEN ToSet(peers[w]) \cup {m.from}
                        ELSE IF m.type = "bye" THEN ToSet(peers[w]) \ {m.from}
                        ELSE ToSet(peers[w])
  /\ \A p \in Peers \ {w} : peers'[p] = peers[p]
  /\ Hello(w, m.from) \in Message
  /\ up' \in [Workers -> Seq(Message)]
  /\ IF m.type = "hello" /\ m.to = All THEN Longer(up[w], up'[w], Hello(w, m.from))
                                        ELSE Unchanged(up[w], up'[w])
  /\ \A v \in Workers \ {w} : up'[v] = up[v]
  /\ heard' \in [Peers -> Seq(Message)]
  /\ IF m.type = "event" THEN Longer(heard[w], heard'[w], m)
                          ELSE heard'[w] = heard[w]
  /\ \A p \in Peers \ {w} : heard'[p] = heard[p]
  /\ told' = IF m.type = "hello" /\ m.from = Master THEN told \cup {w} ELSE told
  /\ UNCHANGED <<state, exits, events, due, late>>

\* handleMessage of a worker, entry by entry.
LEMMA WorkerEffect ==
  ASSUME TypeOK, Origins, NEW w \in Workers, WorkerHandle(w), NEW m, m = Head(down[w])
  PROVE  WorkerDoes(w, m)
<1>1. /\ down[w] \in Seq(Message) /\ down[w] # <<>> /\ state[w] = "up"
      /\ peers[w] \in Seq(Peers) /\ IsInjective(peers[w]) /\ w \in Peers
      /\ up[w] \in Seq(Message) /\ heard[w] \in Seq(Message)
  BY DEF TypeOK, Peers, WorkerHandle
<1>2. /\ m \in Message /\ m \in ToSet(down[w]) /\ Tail(down[w]) \in Seq(Message)
      /\ ToSet(down[w]) = {m} \cup ToSet(Tail(down[w]))
  BY <1>1, LineTail
<1>3. m.from # w /\ m.nr <= events /\ m.from \in Peers
  BY <1>2 DEF Origins, Message
<1>4. /\ down' \in [Workers -> Seq(Message)] /\ down'[w] = Tail(down[w])
      /\ \A v \in Workers \ {w} : down'[v] = down[v]
  BY <1>2 DEF WorkerHandle, TypeOK
<1>5. Hello(w, m.from) \in Message
  BY <1>1, <1>3, Constructed, ClusterAssumption
<1>6. /\ peers' = [peers EXCEPT ![w] = CASE m.type = "hello" -> AddPeer(peers[w], m.from)
                                         [] m.type = "bye" -> RemovePeer(peers[w], m.from)
                                         [] OTHER -> peers[w]]
      /\ up' = IF m.type = "hello" /\ m.to = All
                 THEN [up EXCEPT ![w] = Append(up[w], Hello(w, m.from))] ELSE up
      /\ heard' = IF m.type = "event" THEN [heard EXCEPT ![w] = Append(heard[w], m)] ELSE heard
      /\ told' = IF m.type = "hello" /\ m.from = Master THEN told \cup {w} ELSE told
  BY DEF WorkerHandle
<1>7. /\ up' \in [Workers -> Seq(Message)]
      /\ IF m.type = "hello" /\ m.to = All THEN Longer(up[w], up'[w], Hello(w, m.from))
                                            ELSE Unchanged(up[w], up'[w])
      /\ \A v \in Workers \ {w} : up'[v] = up[v]
  <2>1. up \in [Workers -> Seq(Message)]
    BY DEF TypeOK
  <2>2. /\ Append(up[w], Hello(w, m.from)) \in Seq(Message)
        /\ ToSet(Append(up[w], Hello(w, m.from))) = ToSet(up[w]) \cup {Hello(w, m.from)}
    BY <1>1, <1>5, LineAppend
  <2> QED BY <1>6, <2>1, <2>2 DEF Longer, Unchanged
<1>8. /\ heard' \in [Peers -> Seq(Message)]
      /\ IF m.type = "event" THEN Longer(heard[w], heard'[w], m)
                              ELSE heard'[w] = heard[w]
      /\ \A p \in Peers \ {w} : heard'[p] = heard[p]
  <2>1. heard \in [Peers -> Seq(Message)]
    BY DEF TypeOK
  <2>2. /\ Append(heard[w], m) \in Seq(Message)
        /\ ToSet(Append(heard[w], m)) = ToSet(heard[w]) \cup {m}
    BY <1>1, <1>2, LineAppend
  <2> QED BY <1>1, <1>6, <2>1, <2>2 DEF Longer
<1>9. /\ peers' \in [Peers -> Seq(Peers)] /\ IsInjective(peers'[w])
      /\ ToSet(peers'[w]) = IF m.type = "hello" THEN ToSet(peers[w]) \cup {m.from}
                            ELSE IF m.type = "bye" THEN ToSet(peers[w]) \ {m.from}
                            ELSE ToSet(peers[w])
      /\ \A p \in Peers \ {w} : peers'[p] = peers[p]
  <2>1. peers \in [Peers -> Seq(Peers)]
    BY DEF TypeOK
  <2>2. /\ AddPeer(peers[w], m.from) \in Seq(Peers) /\ IsInjective(AddPeer(peers[w], m.from))
        /\ ToSet(AddPeer(peers[w], m.from)) = ToSet(peers[w]) \cup {m.from}
    BY <1>1, <1>3, AddPeerMeaning
  <2>3. /\ RemovePeer(peers[w], m.from) \in Seq(Peers) /\ IsInjective(RemovePeer(peers[w], m.from))
        /\ ToSet(RemovePeer(peers[w], m.from)) = ToSet(peers[w]) \ {m.from}
    BY <1>1, RemovePeerMeaning
  <2> QED BY <1>1, <1>6, <2>1, <2>2, <2>3
<1>10. UNCHANGED <<state, exits, events, due, late>>
  BY DEF WorkerHandle
<1> QED BY <1>1, <1>2, <1>3, <1>4, <1>5, <1>6, <1>7, <1>8, <1>9, <1>10 DEF WorkerDoes

\* Whom the goodbye reaches that the master says for w, or a change of its own.
Serves(v, w) == state[v] = "up" /\ v \in ToSet(peers[Master]) /\ v # w

ExitDoes(w) ==
  /\ Bye(w) \in Message
  /\ peers' \in [Peers -> Seq(Peers)] /\ IsInjective(peers'[Master])
  /\ ToSet(peers'[Master]) = ToSet(peers[Master]) \ {w}
  /\ \A v \in Workers : peers'[v] = peers[v]
  /\ down' \in [Workers -> Seq(Message)]
  /\ \A v \in Workers :
       IF w \in ToSet(peers[Master]) /\ Serves(v, w)
         THEN Longer(down[v], down'[v], Bye(w)) ELSE Unchanged(down[v], down'[v])
  /\ exits' = exits \ {w} /\ late' = IF up[w] = <<>> THEN late ELSE late \cup {w}
  /\ w \in exits /\ UNCHANGED <<state, up, events, heard, told, due>>

\* The exit of a worker that the master sees, entry by entry.
LEMMA ExitEffect ==
  ASSUME TypeOK, NEW w \in Workers, SeeExit(w)
  PROVE  ExitDoes(w)
<1>1. /\ peers \in [Peers -> Seq(Peers)] /\ IsInjective(peers[Master])
      /\ down \in [Workers -> Seq(Message)] /\ Master \in Peers /\ w \in Peers /\ w # Master
  BY ClusterAssumption DEF TypeOK, Peers
<1>2. Bye(w) \in Message
  BY <1>1, Constructed, ClusterAssumption
<1>3. /\ RemovePeer(peers[Master], w) \in Seq(Peers) /\ IsInjective(RemovePeer(peers[Master], w))
      /\ ToSet(RemovePeer(peers[Master], w)) = ToSet(peers[Master]) \ {w}
  BY <1>1, RemovePeerMeaning
<1>4. /\ peers' = [peers EXCEPT ![Master] = RemovePeer(peers[Master], w)]
      /\ down' = IF w \in ToSet(peers[Master]) THEN Sent(down, peers'[Master], Bye(w)) ELSE down
  BY DEF SeeExit
<1>5. /\ peers' \in [Peers -> Seq(Peers)] /\ peers'[Master] = RemovePeer(peers[Master], w)
      /\ \A v \in Workers : peers'[v] = peers[v]
  BY <1>1, <1>3, <1>4, ClusterAssumption DEF Peers
<1>6. ASSUME NEW v \in Workers
      PROVE  Reached(peers'[Master], v, Bye(w)) <=> Serves(v, w)
  <2>1. Bye(w).from = w /\ Bye(w).to = All
    BY DEF Bye
  <2> QED BY <1>3, <1>5, <2>1 DEF Reached, Serves
<1>7. /\ down' \in [Workers -> Seq(Message)]
      /\ \A v \in Workers :
           IF w \in ToSet(peers[Master]) /\ Serves(v, w)
             THEN Longer(down[v], down'[v], Bye(w)) ELSE Unchanged(down[v], down'[v])
  <2>1. CASE w \in ToSet(peers[Master])
    <3>1. down' = Sent(down, peers'[Master], Bye(w))
      BY <1>4, <2>1
    <3>2. peers'[Master] \in Seq(Peers) /\ IsInjective(peers'[Master])
      BY <1>3, <1>5
    <3> QED BY <1>1, <1>2, <1>6, <2>1, <3>1, <3>2, MasterSends
  <2>2. CASE w \notin ToSet(peers[Master])
    BY <1>1, <1>4, <2>2 DEF Unchanged
  <2> QED BY <2>1, <2>2
<1>8. /\ exits' = exits \ {w} /\ late' = IF up[w] = <<>> THEN late ELSE late \cup {w}
      /\ w \in exits /\ UNCHANGED <<state, up, events, heard, told, due>>
  BY DEF SeeExit
<1> QED BY <1>2, <1>3, <1>5, <1>7, <1>8 DEF ExitDoes

MasterChanges(m) ==
  /\ m \in Message /\ m.from = Master /\ m.to = All /\ m.nr = events + 1 /\ m.type = "event"
  /\ events' = events + 1 /\ events \in Nat /\ up' = up
  /\ down' \in [Workers -> Seq(Message)]
  /\ \A v \in Workers :
       IF Serves(v, Master)
         THEN Longer(down[v], down'[v], m) ELSE Unchanged(down[v], down'[v])
  /\ UNCHANGED <<state, peers, exits, heard, told, late>>
  /\ due' = [q \in Peers |-> IF q \in Living \ {Master} /\ q \in told \cup {Master}
                                THEN due[q] \cup {m} ELSE due[q]]

\* A change at the master, entry by entry.
LEMMA MasterTriggerEffect ==
  ASSUME TypeOK, Trigger(Master), NEW m, m = Changed(Master, events + 1)
  PROVE  MasterChanges(m)
<1>1. /\ peers[Master] \in Seq(Peers) /\ IsInjective(peers[Master])
      /\ down \in [Workers -> Seq(Message)] /\ Master \in Peers /\ events \in Nat
      /\ events + 1 \in 0..MaxEvents
  BY ClusterAssumption DEF TypeOK, Peers, Trigger
<1>2. /\ m \in Message /\ m.from = Master /\ m.to = All /\ m.nr = events + 1 /\ m.type = "event"
  <2>1. m \in Message
    BY <1>1, Constructed
  <2> QED BY <2>1 DEF Changed
<1>3. /\ events' = events + 1 /\ up' = up
      /\ down' = Sent(down, peers[Master], m)
  BY DEF Trigger
<1>4. ASSUME NEW v \in Workers
      PROVE  Reached(peers[Master], v, m) <=> Serves(v, Master)
  BY <1>2 DEF Reached, Serves
<1>5. /\ down' \in [Workers -> Seq(Message)]
      /\ \A v \in Workers :
           IF Serves(v, Master)
             THEN Longer(down[v], down'[v], m) ELSE Unchanged(down[v], down'[v])
  BY <1>1, <1>2, <1>3, <1>4, MasterSends
<1>6. /\ UNCHANGED <<state, peers, exits, heard, told, late>>
      /\ due' = [q \in Peers |-> IF q \in Living \ {Master} /\ q \in told \cup {Master}
                                    THEN due[q] \cup {m} ELSE due[q]]
  BY DEF Trigger
<1> QED BY <1>1, <1>2, <1>3, <1>5, <1>6 DEF MasterChanges

WorkerChanges(w, m) ==
  /\ m \in Message /\ m.from = w /\ m.to = All /\ m.nr = events + 1 /\ m.type = "event"
  /\ state[w] = "up" /\ events' = events + 1 /\ events \in Nat /\ down' = down
  /\ up' \in [Workers -> Seq(Message)] /\ Longer(up[w], up'[w], m)
  /\ \A v \in Workers \ {w} : up'[v] = up[v]
  /\ UNCHANGED <<state, peers, exits, heard, told, late>>
  /\ due' = [q \in Peers |-> IF q \in Living \ {w} /\ q \in told \cup {Master}
                                THEN due[q] \cup {m} ELSE due[q]]

\* A change at a worker, entry by entry.
LEMMA WorkerTriggerEffect ==
  ASSUME TypeOK, NEW w \in Workers, Trigger(w), NEW m, m = Changed(w, events + 1)
  PROVE  WorkerChanges(w, m)
<1>1. /\ up \in [Workers -> Seq(Message)] /\ w \in Peers /\ w # Master /\ events \in Nat
      /\ events + 1 \in 0..MaxEvents /\ state[w] = "up"
  BY ClusterAssumption DEF TypeOK, Peers, Trigger, Living
<1>2. /\ m \in Message /\ m.from = w /\ m.to = All /\ m.nr = events + 1 /\ m.type = "event"
  <2>1. m \in Message
    BY <1>1, Constructed
  <2> QED BY <2>1 DEF Changed
<1>3. /\ events' = events + 1 /\ down' = down
      /\ up' = [up EXCEPT ![w] = Append(@, m)]
  BY <1>1 DEF Trigger
<1>4. Append(up[w], m) \in Seq(Message) /\ ToSet(Append(up[w], m)) = ToSet(up[w]) \cup {m}
  BY <1>1, <1>2, LineAppend
<1>5. /\ UNCHANGED <<state, peers, exits, heard, told, late>>
      /\ due' = [q \in Peers |-> IF q \in Living \ {w} /\ q \in told \cup {Master}
                                    THEN due[q] \cup {m} ELSE due[q]]
  BY DEF Trigger
<1>6. /\ up' \in [Workers -> Seq(Message)] /\ Longer(up[w], up'[w], m)
      /\ \A v \in Workers \ {w} : up'[v] = up[v]
  BY <1>1, <1>3, <1>4 DEF Longer
<1> QED BY <1>1, <1>2, <1>3, <1>5, <1>6 DEF WorkerChanges

\* A process that ends leaves the beginning of what it had to say.
Ends(w) ==
  /\ state[w] = "up" /\ state' = [state EXCEPT ![w] = "dead"]
  /\ up' \in [Workers -> Seq(Message)]
  /\ \A v \in Workers \ {w} : up'[v] = up[v]
  /\ ToSet(up'[w]) \subseteq ToSet(up[w]) \cup {Bye(w)}
  /\ Ordered(up[w]) => Ordered(up'[w])
  /\ \A p \in Peers : due'[p] \subseteq due[p]
  /\ due' \in [Peers -> SUBSET Message]
  /\ \A p \in Peers : \A m \in due'[p] : m \in ToSet(up[w]) => m \in ToSet(up'[w])
  /\ down' = [down EXCEPT ![w] = <<>>] /\ exits' = exits \cup {w}
  /\ UNCHANGED <<peers, events, heard, told, late>>

\* The end of a worker, entry by entry.
LEMMA EndEffect ==
  ASSUME TypeOK, NEW w \in Workers, Die(w) \/ Leave(w)
  PROVE  Ends(w)
<1>1. /\ up \in [Workers -> Seq(Message)] /\ w \in Peers /\ due \in [Peers -> SUBSET Message]
  BY DEF TypeOK, Peers
<1>2. Bye(w) \in Message /\ Bye(w).type = "bye"
  BY <1>1, Constructed, ClusterAssumption DEF Bye
<1>3. PICK sent : /\ sent \in {up[w], Append(up[w], Bye(w))}
                  /\ End(w, sent)
  BY DEF Die, Leave
<1>4. /\ sent \in Seq(Message) /\ ToSet(up[w]) \subseteq ToSet(sent)
      /\ ToSet(sent) \subseteq ToSet(up[w]) \cup {Bye(w)}
      /\ Ordered(up[w]) => Ordered(sent)
  <2>1. CASE sent = up[w]
    BY <1>1, <2>1
  <2>2. CASE sent = Append(up[w], Bye(w))
    <3>1. Before(ToSet(up[w]), {Bye(w)})
      BY <1>2 DEF Before
    <3> QED BY <1>1, <1>2, <2>2, <3>1, LineAppend, OrderedAppend
  <2> QED BY <1>3, <2>1, <2>2
<1>5. PICK n \in 0..Len(sent) :
        /\ up' = [up EXCEPT ![w] = SubSeq(sent, 1, n)]
        /\ due' = [p \in Peers |-> due[p] \ ToSet(SubSeq(sent, n + 1, Len(sent)))]
  BY <1>3 DEF End
<1>6. /\ SubSeq(sent, 1, n) \in Seq(Message)
      /\ ToSet(SubSeq(sent, 1, n)) \subseteq ToSet(sent)
      /\ ToSet(sent) \subseteq ToSet(SubSeq(sent, 1, n)) \cup ToSet(SubSeq(sent, n + 1, Len(sent)))
      /\ Ordered(sent) => Ordered(SubSeq(sent, 1, n))
  BY <1>4, LineCut, OrderedCut
<1>7. /\ up' \in [Workers -> Seq(Message)] /\ up'[w] = SubSeq(sent, 1, n)
      /\ \A v \in Workers \ {w} : up'[v] = up[v]
  BY <1>1, <1>5, <1>6
<1>8. /\ due' \in [Peers -> SUBSET Message]
      /\ \A p \in Peers : due'[p] = due[p] \ ToSet(SubSeq(sent, n + 1, Len(sent)))
  BY <1>1, <1>5
<1>9. /\ state[w] = "up" /\ state' = [state EXCEPT ![w] = "dead"]
      /\ down' = [down EXCEPT ![w] = <<>>] /\ exits' = exits \cup {w}
      /\ UNCHANGED <<peers, events, heard, told, late>>
  BY <1>3 DEF End
<1> QED BY <1>4, <1>6, <1>7, <1>8, <1>9 DEF Ends

----------------------------------------------------------------------------
(* The steps. *)

\* The master handles a message.
LEMMA MasterStep ==
  ASSUME Inv, NEW w \in Workers, MasterHandle(w)
  PROVE  Inv'
<1> DEFINE m == Head(up[w])
<1> USE DEF Inv
<1>1. MasterDoes(w, m)
  BY MasterEffect
<1> HIDE DEF m
<1> USE <1>1
<1>2. /\ \A v \in Workers : v \in Peers /\ v # Master /\ v # All
      /\ Peers = Workers \cup {Master} /\ Master # All
  BY ClusterAssumption DEF Peers
<1>3. \A v \in Workers : ToSet(up'[v]) \subseteq ToSet(up[v])
  BY DEF MasterDoes
<1>4. \A v \in Workers :
        /\ ToSet(down[v]) \subseteq ToSet(down'[v])
        /\ ToSet(down'[v]) \subseteq ToSet(down[v]) \cup {m, Hello(Master, w)}
        /\ m \in ToSet(down'[v]) => m \in ToSet(down[v]) \/ Got(v, w, m) \/ m = Hello(Master, w)
        /\ Got(v, w, m) => m \in ToSet(down'[v])
        /\ down'[v] # down[v] => Got(v, w, m) \/ v = w
  BY DEF MasterDoes, Longer, Unchanged, Greeted, Got
<1>5. /\ Hello(Master, w).from = Master /\ Hello(Master, w).to = w
      /\ Hello(Master, w).type = "hello" /\ Hello(Master, w).nr = 0
  BY DEF Hello
<1>6. TypeOK'
  <2>1. ASSUME NEW p \in Peers
        PROVE  IsInjective(peers'[p]) /\ p \notin ToSet(peers'[p])
    <3>1. CASE p = Master
      <4>1. Master \notin ToSet(peers[Master])
        BY <1>2 DEF TypeOK
      <4> QED BY <1>2, <3>1, <4>1 DEF MasterDoes
    <3>2. CASE p # Master
      BY <1>2, <3>2 DEF TypeOK, MasterDoes
    <3> QED BY <3>1, <3>2
  <2> QED BY <2>1 DEF TypeOK, MasterDoes
<1>7. Origins'
  <2>1. ASSUME NEW v \in Workers, NEW x \in ToSet(up'[v])
        PROVE  x.from = v /\ x.nr <= events'
    BY <1>3, <2>1 DEF Origins, MasterDoes
  <2>2. ASSUME NEW v \in Workers, NEW x \in ToSet(down'[v])
        PROVE  x.from # v /\ x.nr <= events'
    <3>1. events' = events /\ events \in Nat
      BY ClusterAssumption DEF MasterDoes, TypeOK
    <3>2. CASE x \in ToSet(down[v])
      BY <3>1, <3>2 DEF Origins
    <3>3. CASE x = m /\ Got(v, w, m)
      BY <3>1, <3>3 DEF MasterDoes, Got
    <3>4. CASE x = Hello(Master, w)
      BY <1>2, <1>5, <3>1, <3>4
    <3>5. \/ x \in ToSet(down[v])
          \/ x = m /\ Got(v, w, m)
          \/ x = Hello(Master, w)
      <4>1. \/ Got(v, w, m) /\ ToSet(down'[v]) = ToSet(down[v]) \cup {m}
            \/ ToSet(down'[v]) = ToSet(down[v]) \cup {Hello(Master, w)}
            \/ down'[v] = down[v]
        BY DEF MasterDoes, Longer, Unchanged
      <4> QED BY <2>2, <4>1
    <3> QED BY <3>2, <3>3, <3>4, <3>5
  <2>3. ASSUME NEW p \in Peers, NEW x \in ToSet(heard'[p])
        PROVE  x.from # p /\ x.nr <= events' /\ x.type = "event"
    <3>1. x \in ToSet(heard[p]) \/ (p = Master /\ x = m /\ m.type = "event")
      BY <1>2, <2>3 DEF MasterDoes, Longer
    <3> QED BY <1>2, <3>1 DEF Origins, MasterDoes
  <2> QED BY <2>1, <2>2, <2>3 DEF Origins
<1>8. InOrder'
  <2>1. ASSUME NEW v \in Workers
        PROVE  Ordered(up'[v])
    <3>1. CASE v = w
      <4>1. up'[w] = Tail(up[w]) /\ up[w] \in Seq(Message) /\ up[w] # <<>> /\ Ordered(up[w])
        BY DEF MasterDoes, InOrder
      <4> QED BY <3>1, <4>1, OrderedTail
    <3>2. CASE v # w
      BY <3>2 DEF InOrder, MasterDoes
    <3> QED BY <3>1, <3>2
  <2>2. \A v \in Workers : Before(ToSet(down[v]), {m})
    BY DEF InOrder, MasterDoes, Before
  <2>3. \A p \in Peers : Before(ToSet(heard[p]), {m})
    BY DEF InOrder, MasterDoes, Before
  <2>4. \A S : Before(S, {Hello(Master, w)}) /\ Before({Hello(Master, w)}, S)
    BY <1>5 DEF Before
  <2>5. ASSUME NEW v \in Workers
        PROVE  Before({m}, ToSet(up'[v]))
    <3>1. CASE v = w
      <4>1. up'[w] = Tail(up[w]) /\ up[w] \in Seq(Message) /\ up[w] # <<>> /\ Ordered(up[w])
        BY DEF MasterDoes, InOrder
      <4> QED BY <3>1, <4>1, OrderedTail DEF m
    <3>2. CASE v # w
      BY <1>7, <3>2 DEF MasterDoes, Before, Origins
    <3> QED BY <3>1, <3>2
  <2>6. ASSUME NEW v \in Workers
        PROVE  Ordered(down'[v])
    <3>1. Ordered(down[v]) /\ down[v] \in Seq(Message) /\ m \in Message /\ Hello(Master, w) \in Message
      BY DEF InOrder, TypeOK, MasterDoes
    <3>2. down'[v] \in {down[v], Append(down[v], m), Append(down[v], Hello(Master, w))}
      BY DEF MasterDoes, Longer, Unchanged
    <3> QED BY <2>2, <2>4, <3>1, <3>2, OrderedAppend
  <2>7. ASSUME NEW p \in Peers
        PROVE  Ordered(heard'[p])
    <3>1. Ordered(heard[p]) /\ heard[p] \in Seq(Message) /\ m \in Message
      BY DEF InOrder, TypeOK, MasterDoes
    <3>2. heard'[p] \in {heard[p], Append(heard[p], m)}
      BY <1>2 DEF MasterDoes, Longer
    <3> QED BY <2>3, <3>1, <3>2, OrderedAppend
  <2>8. ASSUME NEW v \in Workers
        PROVE  Before(ToSet(heard'[v]), ToSet(down'[v]))
    <3>1. heard'[v] = heard[v] /\ Before(ToSet(heard[v]), ToSet(down[v])) /\ v \in Peers
      BY <1>2 DEF MasterDoes, InOrder
    <3> QED BY <1>4, <2>3, <2>4, <3>1 DEF Before
  <2>9. ASSUME NEW v \in Workers, NEW u \in Workers
        PROVE  Before(ToSet(down'[v]), ToSet(up'[u]))
    <3>1. Before(ToSet(down[v]), ToSet(up[u]))
      BY DEF InOrder
    <3> QED BY <1>3, <1>4, <2>4, <2>5, <3>1 DEF Before
  <2>10. ASSUME NEW p \in Peers, NEW u \in Workers
         PROVE  Before(ToSet(heard'[p]), ToSet(up'[u]))
    <3>1. Before(ToSet(heard[p]), ToSet(up[u]))
      BY DEF InOrder
    <3>2. ToSet(heard'[p]) \subseteq ToSet(heard[p]) \cup {m}
      BY <1>2 DEF MasterDoes, Longer
    <3> QED BY <1>3, <2>5, <3>1, <3>2 DEF Before
  <2> QED BY <2>1, <2>6, <2>7, <2>8, <2>9, <2>10 DEF InOrder
<1>9. state' = state /\ exits' = exits /\ told' = told /\ due' = due /\ late' = late /\ events' = events
  BY DEF MasterDoes
<1>10. state[w] # "off"
  BY DEF MasterDoes, Lives
<1>11. Lives'
  <2>1. ASSUME NEW v \in Workers, state'[v] = "off"
        PROVE  up'[v] = <<>> /\ peers'[v] = <<>> /\ v \notin told'
    BY <1>9, <1>10, <2>1 DEF MasterDoes, Lives
  <2>2. ASSUME NEW v \in Workers, state'[v] # "up"
        PROVE  down'[v] = <<>>
    BY <1>9, <2>2 DEF MasterDoes, Lives, Got, Greeted, Unchanged
  <2>3. ASSUME NEW v \in Workers, NEW x \in ToSet(down'[v])
        PROVE  x.from = Master \/ state'[x.from] # "off"
    <3>1. x \in ToSet(down[v]) \/ x.from = w \/ x.from = Master
      BY <1>4, <1>5, <2>3 DEF MasterDoes
    <3> QED BY <1>9, <1>10, <3>1 DEF Lives
  <2>4. ASSUME NEW p \in Peers, NEW q \in ToSet(peers'[p])
        PROVE  q = Master \/ state'[q] # "off"
    <3>1. q \in ToSet(peers[p]) \/ q = w
      BY <1>2, <2>4 DEF MasterDoes
    <3> QED BY <1>9, <1>10, <3>1 DEF Lives
  <2>5. \A v \in (exits \cup late)' : state'[v] = "dead"
    BY <1>9 DEF Lives
  <2> QED BY <2>1, <2>2, <2>3, <2>4, <2>5 DEF Lives
<1>12. Goodbyes'
  <2>1. ASSUME NEW v \in Workers, NEW x \in ToSet(down'[v]), x.type = "bye"
        PROVE  x.from \in Workers /\ state'[x.from] = "dead"
    <3>1. x \in ToSet(down[v]) \/ x = m
      BY <1>4, <1>5, <2>1
    <3> QED BY <1>9, <2>1, <3>1 DEF Goodbyes, MasterDoes
  <2> QED BY <1>3, <1>9, <2>1 DEF Goodbyes
<1>13. \A v \in Workers : state[v] = "up" /\ v \in ToSet(peers[Master]) => v \in ToSet(peers'[Master])
  <2>1. m.type = "bye" => state[w] = "dead"
    BY DEF Goodbyes, MasterDoes
  <2> QED BY <2>1 DEF MasterDoes
<1>14. Enlisted'
  <2>1. ASSUME NEW v \in Workers, state'[v] = "up",
               v \in told' \/ (\E x \in ToSet(down'[v]) : TRUE) \/ ToSet(peers'[v]) \ {Master} # {}
        PROVE  v \in ToSet(peers'[Master])
    <3>1. CASE v \in told \/ (\E x \in ToSet(down[v]) : TRUE) \/ ToSet(peers[v]) \ {Master} # {}
      BY <1>9, <1>13, <2>1, <3>1 DEF Enlisted
    <3>2. CASE Got(v, w, m)
      BY <1>13, <3>2 DEF Got
    <3>3. CASE Greeted(v, w, m)
      BY <3>3 DEF Greeted, MasterDoes
    <3> QED BY <1>9, <2>1, <3>1, <3>2, <3>3 DEF MasterDoes, Unchanged
  <2> QED BY <2>1 DEF Enlisted
<1>15. OnItsWay'
  <2>1. ASSUME NEW p \in Living, NEW x \in due[p]
        PROVE  \/ x \in ToSet(heard'[p])
               \/ p \in Workers /\ x \in ToSet(down'[p])
               \/ x.from \in Workers \ {p} /\ x \in ToSet(up'[x.from])
    <3>1. x.to = All /\ x.type = "event" /\ p \in Peers
      BY <1>2 DEF OnItsWay, Living
    <3>2. CASE x \in ToSet(heard[p])
      BY <1>2, <3>1, <3>2 DEF MasterDoes, Longer
    <3>3. CASE p \in Workers /\ x \in ToSet(down[p])
      BY <1>4, <3>3
    <3>4. CASE x.from \in Workers \ {p} /\ x \in ToSet(up[x.from]) /\ x.from # w
      BY <3>4 DEF MasterDoes
    <3>5. CASE x.from = w /\ w # p /\ x \in ToSet(up[w])
      <4>1. CASE x # m
        BY <3>5, <4>1 DEF MasterDoes
      <4>2. CASE x = m /\ p = Master
        BY <3>1, <4>2 DEF MasterDoes, Longer
      <4>3. CASE x = m /\ p \in Workers
        <5>1. state[p] = "up" /\ p \in told
          BY <1>2, <4>3 DEF Living, OnItsWay
        <5>2. p \in ToSet(peers[Master])
          BY <4>3, <5>1 DEF Enlisted
        <5>3. Got(p, w, m)
          BY <3>1, <3>5, <4>3, <5>1, <5>2 DEF Got
        <5> QED BY <1>4, <4>3, <5>3
      <4> QED BY <1>2, <3>1, <4>1, <4>2, <4>3
    <3> QED BY <3>2, <3>3, <3>4, <3>5 DEF OnItsWay
  <2>2. Living' = Living
    BY <1>9 DEF Living
  <2> QED BY <1>9, <2>1, <2>2 DEF OnItsWay
<1>16. MasterKnown'
  <2>1. ASSUME NEW v \in Workers, state[v] = "up"
        PROVE  Master \in ToSet(peers'[v])
    BY <2>1 DEF MasterKnown, MasterDoes
  <2>2. ASSUME NEW v \in Workers, state[v] = "up"
        PROVE  HelloIn(up[v], v, {All})' \/ v \in ToSet(peers'[Master])
    <3>1. CASE v \in ToSet(peers[Master])
      BY <1>13, <2>2, <3>1
    <3>2. CASE HelloIn(up[v], v, {All}) /\ v # w
      BY <3>2 DEF HelloIn, MasterDoes
    <3>3. CASE HelloIn(up[v], v, {All}) /\ v = w
      <4>1. PICK x \in ToSet(up[w]) : IsHello(x, w) /\ x.to = All
        BY <3>3 DEF HelloIn
      <4>2. CASE x = m
        BY <3>3, <4>1, <4>2 DEF MasterDoes, IsHello
      <4>3. CASE x # m
        <5>1. x \in ToSet(up'[w])
          BY <4>1, <4>3 DEF MasterDoes
        <5> QED BY <3>3, <4>1, <5>1 DEF HelloIn
      <4> QED BY <4>2, <4>3
    <3> QED BY <2>2, <3>1, <3>2, <3>3 DEF MasterKnown
  <2> QED BY <1>9, <2>1, <2>2 DEF MasterKnown
<1>17. WorkersKnown'
  <2> SUFFICES ASSUME NEW v \in Workers, NEW u \in Workers, v # u, state[v] = "up", state[u] = "up"
               PROVE  \/ v \in ToSet(peers'[u])
                      \/ HelloIn(down'[u], v, Peers \cup {All})
                      \/ HelloIn(up'[v], v, {All, u})
                      \/ HelloIn(down'[v], u, {All})
                      \/ HelloIn(up'[u], u, {All})
    BY <1>9 DEF WorkersKnown, HelloIn
  <2>1. CASE v \in ToSet(peers[u])
    BY <2>1 DEF MasterDoes
  <2>2. CASE HelloIn(down[u], v, Peers \cup {All})
    BY <1>4, <2>2 DEF HelloIn
  <2>3. CASE HelloIn(down[v], u, {All})
    BY <1>4, <2>3 DEF HelloIn
  <2>4. CASE HelloIn(up[v], v, {All, u})
    <3>1. PICK x \in ToSet(up[v]) : IsHello(x, v) /\ x.to \in {All, u}
      BY <2>4 DEF HelloIn
    <3>2. CASE x \in ToSet(up'[v])
      BY <3>1, <3>2 DEF HelloIn
    <3>3. CASE x \notin ToSet(up'[v])
      <4>1. v = w /\ x = m
        BY <3>1, <3>3 DEF MasterDoes
      <4>2. CASE u \in ToSet(peers[Master])
        <5>1. Got(u, w, m)
          BY <3>1, <4>1, <4>2 DEF Got
        <5> QED BY <1>2, <1>4, <3>1, <4>1, <5>1 DEF HelloIn
      <4>3. CASE u \notin ToSet(peers[Master])
        <5>1. HelloIn(up[u], u, {All})
          BY <4>3 DEF MasterKnown
        <5> QED BY <4>1, <5>1 DEF HelloIn, MasterDoes
      <4> QED BY <4>2, <4>3
    <3> QED BY <3>2, <3>3
  <2>5. CASE HelloIn(up[u], u, {All})
    <3>1. PICK x \in ToSet(up[u]) : IsHello(x, u) /\ x.to = All
      BY <2>5 DEF HelloIn
    <3>2. CASE x \in ToSet(up'[u])
      BY <3>1, <3>2 DEF HelloIn
    <3>3. CASE x \notin ToSet(up'[u])
      <4>1. u = w /\ x = m
        BY <3>1, <3>3 DEF MasterDoes
      <4>2. CASE v \in ToSet(peers[Master])
        <5>1. Got(v, w, m)
          BY <3>1, <4>1, <4>2 DEF Got
        <5> QED BY <1>4, <3>1, <4>1, <5>1 DEF HelloIn
      <4>3. CASE v \notin ToSet(peers[Master])
        <5>1. HelloIn(up[v], v, {All})
          BY <4>3 DEF MasterKnown
        <5> QED BY <4>1, <5>1 DEF HelloIn, MasterDoes
      <4> QED BY <4>2, <4>3
    <3> QED BY <3>2, <3>3
  <2> QED BY <2>1, <2>2, <2>3, <2>4, <2>5 DEF WorkersKnown
<1>18. ForgottenByMaster'
  <2> SUFFICES ASSUME NEW v \in Workers, state[v] = "dead", v \notin late, v \notin exits
               PROVE  up'[v] = <<>> /\ v \notin ToSet(peers'[Master])
    BY <1>9 DEF ForgottenByMaster
  <2>1. up[v] = <<>> /\ v \notin ToSet(peers[Master])
    BY DEF ForgottenByMaster
  <2>2. v # w
    BY <2>1 DEF MasterDoes
  <2> QED BY <2>1, <2>2 DEF MasterDoes
<1>19. Forgotten'
  <2> SUFFICES ASSUME NEW p \in Workers, NEW v \in Workers, state[p] = "up", v \notin late
               PROVE  \/ v \notin ToSet(peers'[p]) /\ ~HelloIn(down'[p], v, Peers \cup {All})
                      \/ v \in ToSet(peers'[Master])
                      \/ Dismissed(down'[p], v)
    BY <1>9 DEF Forgotten, HelloIn, Dismissed
  <2>1. CASE Dismissed(down[p], v)
    <3>1. CASE IsHello(m, v)
      BY <3>1 DEF IsHello, MasterDoes
    <3>2. CASE ~IsHello(m, v)
      <4>1. ~IsHello(Hello(Master, w), v)
        BY <1>2, <1>5 DEF IsHello
      <4>2. down[p] \in Seq(Message) /\ m \in Message /\ Hello(Master, w) \in Message
        BY DEF TypeOK, MasterDoes
      <4>3. down'[p] \in {down[p], Append(down[p], m), Append(down[p], Hello(Master, w))}
        BY DEF MasterDoes, Longer, Unchanged
      <4> QED BY <2>1, <3>2, <4>1, <4>2, <4>3, DismissedAppend
    <3> QED BY <3>1, <3>2
  <2>2. CASE v \in ToSet(peers[Master]) /\ v \in ToSet(peers'[Master])
    BY <2>2
  <2>3. CASE v \in ToSet(peers[Master]) /\ v \notin ToSet(peers'[Master])
    <3>1. v = w /\ m.type = "bye"
      BY <2>3 DEF MasterDoes
    <3>2. m.to = All /\ state[w] = "dead"
      BY <3>1 DEF Goodbyes, MasterDoes
    <3>3. CASE p \in ToSet(peers[Master])
      <4>1. Got(p, w, m)
        BY <3>2, <3>3 DEF Got
      <4>2. down'[p] = Append(down[p], m)
        BY <4>1 DEF MasterDoes, Longer, Got, Greeted
      <4> QED BY <3>1, <4>2, DismissedAppend DEF MasterDoes, TypeOK
    <3>4. CASE p \notin ToSet(peers[Master])
      <4>1. ToSet(down[p]) = {} /\ ToSet(peers[p]) \subseteq {Master}
        BY <3>4 DEF Enlisted
      <4>2. down'[p] = down[p]
        BY <3>1, <3>2, <3>4 DEF MasterDoes, Got, Greeted, Unchanged
      <4> QED BY <1>2, <4>1, <4>2 DEF MasterDoes, HelloIn
    <3> QED BY <3>3, <3>4
  <2>4. CASE v \notin ToSet(peers[p]) /\ ~HelloIn(down[p], v, Peers \cup {All})
    <3>1. CASE IsHello(m, v)
      BY <3>1 DEF IsHello, MasterDoes
    <3>2. CASE ~IsHello(m, v)
      <4>1. ~IsHello(Hello(Master, w), v)
        BY <1>2, <1>5 DEF IsHello
      <4>2. ~HelloIn(down'[p], v, Peers \cup {All})
        BY <1>4, <2>4, <3>2, <4>1 DEF HelloIn
      <4> QED BY <2>4, <4>2 DEF MasterDoes
    <3> QED BY <3>1, <3>2
  <2> QED BY <2>1, <2>2, <2>3, <2>4 DEF Forgotten
<1> QED BY <1>6, <1>7, <1>8, <1>11, <1>12, <1>14, <1>15, <1>16, <1>17, <1>18, <1>19


\* A worker handles a message.
LEMMA WorkerStep ==
  ASSUME Inv, NEW w \in Workers, WorkerHandle(w)
  PROVE  Inv'
<1> DEFINE m == Head(down[w])
<1> USE DEF Inv
<1>1. WorkerDoes(w, m)
  BY WorkerEffect
<1>2. Ordered(down[w]) /\ down[w] # <<>> => Ordered(Tail(down[w])) /\ Before({m}, ToSet(Tail(down[w])))
  BY OrderedTail DEF TypeOK
<1>3. ASSUME NEW v, Dismissed(down[w], v)
      PROVE  \/ Dismissed(Tail(down[w]), v)
             \/ m.type = "bye" /\ m.from = v /\ \A x \in ToSet(Tail(down[w])) : ~IsHello(x, v)
  BY <1>1, <1>3, DismissedTail DEF WorkerDoes
<1> HIDE DEF m
<1> USE <1>1
<1>4. /\ \A v \in Workers : v \in Peers /\ v # Master /\ v # All
      /\ Peers = Workers \cup {Master} /\ Master # All /\ w \in Peers
  BY ClusterAssumption DEF Peers
<1>5. \A v \in Workers : ToSet(down'[v]) \subseteq ToSet(down[v])
  BY DEF WorkerDoes
<1>6. \A v \in Workers :
        /\ ToSet(up[v]) \subseteq ToSet(up'[v])
        /\ ToSet(up'[v]) \subseteq ToSet(up[v]) \cup {Hello(w, m.from)}
        /\ v # w => up'[v] = up[v]
  BY DEF WorkerDoes, Longer, Unchanged
<1>7. /\ Hello(w, m.from).from = w /\ Hello(w, m.from).to = m.from
      /\ Hello(w, m.from).type = "hello" /\ Hello(w, m.from).nr = 0
  BY DEF Hello
<1>8. state' = state /\ exits' = exits /\ due' = due /\ late' = late /\ events' = events
  BY DEF WorkerDoes
<1>9. state[w] = "up" /\ m \in Message /\ m \in ToSet(down[w]) /\ m.from \in Peers
  BY DEF WorkerDoes, Message
<1>10. TypeOK'
  <2>1. ASSUME NEW p \in Peers
        PROVE  IsInjective(peers'[p]) /\ p \notin ToSet(peers'[p])
    <3>1. CASE p = w
      BY <1>4, <3>1 DEF WorkerDoes, TypeOK
    <3>2. CASE p # w
      BY <3>2 DEF TypeOK, WorkerDoes
    <3> QED BY <3>1, <3>2
  <2>2. told' \subseteq Workers
    BY DEF TypeOK, WorkerDoes
  <2> QED BY <2>1, <2>2 DEF TypeOK, WorkerDoes
<1>11. Origins'
  <2>1. ASSUME NEW v \in Workers, NEW x \in ToSet(up'[v])
        PROVE  x.from = v /\ x.nr <= events'
    <3>1. events' = events /\ events \in Nat
      BY ClusterAssumption DEF WorkerDoes, TypeOK
    <3>2. CASE x \in ToSet(up[v])
      BY <3>1, <3>2 DEF Origins
    <3>3. CASE x \notin ToSet(up[v])
      BY <1>6, <1>7, <2>1, <3>1, <3>3
    <3> QED BY <3>2, <3>3
  <2>2. ASSUME NEW v \in Workers, NEW x \in ToSet(down'[v])
        PROVE  x.from # v /\ x.nr <= events'
    BY <1>5, <1>8, <2>2 DEF Origins
  <2>3. ASSUME NEW p \in Peers, NEW x \in ToSet(heard'[p])
        PROVE  x.from # p /\ x.nr <= events' /\ x.type = "event"
    <3>1. x \in ToSet(heard[p]) \/ (p = w /\ x = m /\ m.type = "event")
      BY <2>3 DEF WorkerDoes, Longer
    <3> QED BY <1>8, <3>1 DEF Origins, WorkerDoes
  <2> QED BY <2>1, <2>2, <2>3 DEF Origins
<1>12. InOrder'
  <2>1. \A S : Before(S, {Hello(w, m.from)}) /\ Before({Hello(w, m.from)}, S)
    BY <1>7 DEF Before
  <2>2. ASSUME NEW v \in Workers
        PROVE  Ordered(up'[v])
    <3>1. Ordered(up[v]) /\ up[v] \in Seq(Message) /\ Hello(w, m.from) \in Message
      BY DEF InOrder, TypeOK, WorkerDoes
    <3>2. up'[v] \in {up[v], Append(up[v], Hello(w, m.from))}
      BY DEF WorkerDoes, Longer, Unchanged
    <3> QED BY <2>1, <3>1, <3>2, OrderedAppend
  <2>3. Ordered(down[w]) /\ down[w] # <<>> /\ down'[w] = Tail(down[w])
    BY DEF InOrder, WorkerDoes
  <2>4. ASSUME NEW v \in Workers
        PROVE  Ordered(down'[v])
    <3>1. CASE v = w
      BY <1>2, <2>3, <3>1
    <3>2. CASE v # w
      BY <3>2 DEF WorkerDoes, InOrder
    <3> QED BY <3>1, <3>2
  <2>5. \A p \in Peers \ {w} : heard'[p] = heard[p]
    BY DEF WorkerDoes
  <2>6. heard'[w] \in {heard[w], Append(heard[w], m)} /\ ToSet(heard'[w]) \subseteq ToSet(heard[w]) \cup {m}
    BY DEF WorkerDoes, Longer
  <2>7. Before(ToSet(heard[w]), {m})
    BY <1>9 DEF InOrder, Before
  <2>8. ASSUME NEW p \in Peers
        PROVE  Ordered(heard'[p])
    <3>1. CASE p = w
      <4>1. Ordered(heard[w]) /\ heard[w] \in Seq(Message) /\ m \in Message
        BY <1>4, <1>9 DEF InOrder, TypeOK
      <4> QED BY <2>6, <2>7, <3>1, <4>1, OrderedAppend
    <3>2. CASE p # w
      BY <2>5, <3>2 DEF InOrder
    <3> QED BY <3>1, <3>2
  <2>9. Before({m}, ToSet(down'[w]))
    BY <1>2, <2>3
  <2>10. ASSUME NEW v \in Workers
         PROVE  Before(ToSet(heard'[v]), ToSet(down'[v]))
    <3>1. Before(ToSet(heard[v]), ToSet(down[v]))
      BY DEF InOrder
    <3>2. CASE v = w
      BY <1>5, <2>6, <2>9, <3>1, <3>2 DEF Before
    <3>3. CASE v # w
      BY <1>4, <1>5, <2>5, <3>1, <3>3 DEF Before
    <3> QED BY <3>2, <3>3
  <2>11. ASSUME NEW v \in Workers, NEW u \in Workers
         PROVE  Before(ToSet(down'[v]), ToSet(up'[u]))
    <3>1. Before(ToSet(down[v]), ToSet(up[u]))
      BY DEF InOrder
    <3> QED BY <1>5, <1>6, <2>1, <3>1 DEF Before
  <2>12. ASSUME NEW p \in Peers, NEW u \in Workers
         PROVE  Before(ToSet(heard'[p]), ToSet(up'[u]))
    <3>1. Before(ToSet(heard[p]), ToSet(up[u])) /\ Before(ToSet(down[w]), ToSet(up[u]))
      BY DEF InOrder
    <3>2. ToSet(heard'[p]) \subseteq ToSet(heard[p]) \cup {m}
      BY <2>5, <2>6
    <3>3. Before({m}, ToSet(up[u]))
      BY <1>9, <3>1 DEF Before
    <3> QED BY <1>6, <2>1, <3>1, <3>2, <3>3 DEF Before
  <2> QED BY <2>2, <2>4, <2>8, <2>10, <2>11, <2>12 DEF InOrder
<1>13. Lives'
  <2>1. ASSUME NEW v \in Workers, state'[v] = "off"
        PROVE  up'[v] = <<>> /\ peers'[v] = <<>> /\ v \notin told'
    BY <1>4, <1>8, <1>9, <2>1 DEF WorkerDoes, Lives
  <2>2. ASSUME NEW v \in Workers, state'[v] # "up"
        PROVE  down'[v] = <<>>
    BY <1>8, <1>9, <2>2 DEF WorkerDoes, Lives
  <2>3. ASSUME NEW v \in Workers, NEW x \in ToSet(down'[v])
        PROVE  x.from = Master \/ state'[x.from] # "off"
    BY <1>5, <1>8, <2>3 DEF Lives
  <2>4. ASSUME NEW p \in Peers, NEW q \in ToSet(peers'[p])
        PROVE  q = Master \/ state'[q] # "off"
    <3>1. q \in ToSet(peers[p]) \/ q = m.from
      BY <2>4 DEF WorkerDoes
    <3> QED BY <1>8, <1>9, <3>1 DEF Lives
  <2>5. \A v \in (exits \cup late)' : state'[v] = "dead"
    BY <1>8 DEF Lives
  <2> QED BY <2>1, <2>2, <2>3, <2>4, <2>5 DEF Lives
<1>14. Goodbyes'
  <2>1. ASSUME NEW v \in Workers, NEW x \in ToSet(up'[v]), x.type = "bye"
        PROVE  state'[v] = "dead" /\ x.to = All
    BY <1>6, <1>7, <1>8, <2>1 DEF Goodbyes
  <2> QED BY <1>5, <1>8, <2>1 DEF Goodbyes
<1>15. peers'[Master] = peers[Master]
  BY <1>4 DEF WorkerDoes
<1>16. w \in ToSet(peers[Master])
  BY <1>9 DEF Enlisted
<1>17. Enlisted'
  <2>1. ASSUME NEW v \in Workers, state'[v] = "up",
               v \in told' \/ (\E x \in ToSet(down'[v]) : TRUE) \/ ToSet(peers'[v]) \ {Master} # {}
        PROVE  v \in ToSet(peers'[Master])
    <3>1. CASE v = w
      BY <1>15, <1>16, <3>1
    <3>2. CASE v # w
      <4>1. v \in told \/ (\E x \in ToSet(down[v]) : TRUE) \/ ToSet(peers[v]) \ {Master} # {}
        BY <1>4, <2>1, <3>2 DEF WorkerDoes
      <4> QED BY <1>8, <1>15, <2>1, <4>1 DEF Enlisted
    <3> QED BY <3>1, <3>2
  <2> QED BY <2>1 DEF Enlisted
<1>18. OnItsWay'
  <2>1. ASSUME NEW p \in Living, NEW x \in due[p]
        PROVE  /\ x.to = All /\ x.type = "event"
               /\ \/ x \in ToSet(heard'[p])
                  \/ p \in Workers /\ x \in ToSet(down'[p])
                  \/ x.from \in Workers \ {p} /\ x \in ToSet(up'[x.from])
    <3>1. x.to = All /\ x.type = "event" /\ p \in Peers
      BY <1>4 DEF OnItsWay, Living
    <3>2. CASE x \in ToSet(heard[p])
      BY <3>1, <3>2 DEF WorkerDoes, Longer
    <3>3. CASE p \in Workers /\ x \in ToSet(down[p])
      BY <3>1, <3>3 DEF WorkerDoes, Longer
    <3>4. CASE x.from \in Workers \ {p} /\ x \in ToSet(up[x.from])
      BY <1>6, <3>1, <3>4
    <3> QED BY <3>1, <3>2, <3>3, <3>4 DEF OnItsWay
  <2>2. Living' = Living
    BY <1>8 DEF Living
  <2>3. told \subseteq told'
    BY DEF WorkerDoes
  <2> QED BY <1>8, <2>1, <2>2, <2>3 DEF OnItsWay
<1>19. MasterKnown'
  <2>1. ASSUME NEW v \in Workers, state[v] = "up"
        PROVE  Master \in ToSet(peers'[v])
    <3>1. Master \in ToSet(peers[v])
      BY <2>1 DEF MasterKnown
    <3>2. m.type = "bye" => m.from # Master
      BY <1>4, <1>9 DEF Goodbyes
    <3> QED BY <1>4, <3>1, <3>2 DEF WorkerDoes
  <2>2. ASSUME NEW v \in Workers, state[v] = "up"
        PROVE  HelloIn(up[v], v, {All})' \/ v \in ToSet(peers'[Master])
    BY <1>6, <1>15, <2>2 DEF MasterKnown, HelloIn
  <2> QED BY <1>8, <2>1, <2>2 DEF MasterKnown
<1>20. WorkersKnown'
  <2> SUFFICES ASSUME NEW v \in Workers, NEW u \in Workers, v # u, state[v] = "up", state[u] = "up"
               PROVE  \/ v \in ToSet(peers'[u])
                      \/ HelloIn(down'[u], v, Peers \cup {All})
                      \/ HelloIn(up'[v], v, {All, u})
                      \/ HelloIn(down'[v], u, {All})
                      \/ HelloIn(up'[u], u, {All})
    BY <1>8 DEF WorkersKnown, HelloIn
  <2>1. CASE v \in ToSet(peers[u])
    <3>1. m.type = "bye" => m.from # v
      BY <1>9 DEF Goodbyes
    <3> QED BY <1>4, <2>1, <3>1 DEF WorkerDoes
  <2>2. CASE HelloIn(down[u], v, Peers \cup {All})
    <3>1. PICK x \in ToSet(down[u]) : IsHello(x, v) /\ x.to \in Peers \cup {All}
      BY <2>2 DEF HelloIn
    <3>2. CASE x \in ToSet(down'[u])
      BY <3>1, <3>2 DEF HelloIn
    <3>3. CASE x \notin ToSet(down'[u])
      <4>1. u = w /\ x = m
        BY <3>1, <3>3 DEF WorkerDoes
      <4> QED BY <3>1, <4>1 DEF WorkerDoes, IsHello
    <3> QED BY <3>2, <3>3
  <2>3. CASE HelloIn(down[v], u, {All})
    <3>1. PICK x \in ToSet(down[v]) : IsHello(x, u) /\ x.to = All
      BY <2>3 DEF HelloIn
    <3>2. CASE x \in ToSet(down'[v])
      BY <3>1, <3>2 DEF HelloIn
    <3>3. CASE x \notin ToSet(down'[v])
      <4>1. v = w /\ x = m
        BY <3>1, <3>3 DEF WorkerDoes
      <4>2. Hello(w, m.from) \in ToSet(up'[w]) /\ m.from = u
        BY <3>1, <4>1 DEF WorkerDoes, IsHello, Longer
      <4> QED BY <1>7, <4>1, <4>2 DEF HelloIn, IsHello
    <3> QED BY <3>2, <3>3
  <2>4. CASE HelloIn(up[v], v, {All, u}) \/ HelloIn(up[u], u, {All})
    BY <1>6, <2>4 DEF HelloIn
  <2> QED BY <2>1, <2>2, <2>3, <2>4 DEF WorkersKnown
<1>21. ForgottenByMaster'
  BY <1>8, <1>9, <1>15 DEF ForgottenByMaster, WorkerDoes
<1>22. Forgotten'
  <2> SUFFICES ASSUME NEW p \in Workers, NEW v \in Workers, state[p] = "up", v \notin late
               PROVE  \/ v \notin ToSet(peers'[p]) /\ ~HelloIn(down'[p], v, Peers \cup {All})
                      \/ v \in ToSet(peers'[Master])
                      \/ Dismissed(down'[p], v)
    BY <1>8 DEF Forgotten, HelloIn, Dismissed
  <2>1. CASE p # w
    <3>1. down'[p] = down[p] /\ peers'[p] = peers[p]
      BY <1>4, <2>1 DEF WorkerDoes
    <3> QED BY <1>15, <3>1 DEF Forgotten
  <2>2. CASE p = w
    <3>1. CASE v \in ToSet(peers[Master])
      BY <1>15, <3>1
    <3>2. CASE v \notin ToSet(peers[w]) /\ ~HelloIn(down[w], v, Peers \cup {All})
      <4>1. m.to \in Peers \cup {All}
        BY <1>9 DEF Message
      <4>2. ~IsHello(m, v)
        BY <1>9, <3>2, <4>1 DEF HelloIn
      <4>3. ~HelloIn(down'[w], v, Peers \cup {All})
        BY <1>5, <3>2 DEF HelloIn
      <4> QED BY <2>2, <3>2, <4>2, <4>3 DEF WorkerDoes, IsHello
    <3>3. CASE Dismissed(down[w], v)
      <4>1. CASE Dismissed(Tail(down[w]), v)
        BY <2>2, <4>1 DEF WorkerDoes
      <4>2. CASE m.type = "bye" /\ m.from = v /\ \A x \in ToSet(Tail(down[w])) : ~IsHello(x, v)
        BY <2>2, <4>2 DEF WorkerDoes, HelloIn
      <4> QED BY <1>3, <3>3, <4>1, <4>2
    <3> QED BY <2>2, <3>1, <3>2, <3>3 DEF Forgotten
  <2> QED BY <2>1, <2>2
<1> QED BY <1>10, <1>11, <1>12, <1>13, <1>14, <1>17, <1>18, <1>19, <1>20, <1>21, <1>22


\* The master sees the exit of a worker.
LEMMA ExitStep ==
  ASSUME Inv, NEW w \in Workers, SeeExit(w)
  PROVE  Inv'
<1> USE DEF Inv
<1>1. ExitDoes(w)
  BY ExitEffect
<1>2. /\ \A v \in Workers : v \in Peers /\ v # Master
      /\ Peers = Workers \cup {Master}
  BY ClusterAssumption DEF Peers
<1>3. /\ state' = state /\ told' = told /\ due' = due /\ events' = events
      /\ up' = up /\ heard' = heard
  BY <1>1 DEF ExitDoes
<1>4. Bye(w).type = "bye" /\ Bye(w).from = w /\ Bye(w).nr = 0 /\ Bye(w) \in Message
  BY <1>1 DEF Bye, ExitDoes
<1>5. \A v \in Workers : /\ ToSet(down[v]) \subseteq ToSet(down'[v])
                         /\ ToSet(down'[v]) \subseteq ToSet(down[v]) \cup {Bye(w)}
                         /\ down'[v] \in {down[v], Append(down[v], Bye(w))}
                         /\ down'[v] # down[v] => Serves(v, w)
                         /\ Serves(v, w) /\ w \in ToSet(peers[Master]) =>
                              down'[v] = Append(down[v], Bye(w))
  BY <1>1 DEF ExitDoes, Longer, Unchanged
<1>6. \A p \in Peers : ToSet(peers'[p]) \subseteq ToSet(peers[p])
  BY <1>1, <1>2 DEF ExitDoes
<1>7. state[w] = "dead"
  BY <1>1 DEF ExitDoes, Lives
<1>8. TypeOK'
  <2>1. ASSUME NEW p \in Peers
        PROVE  IsInjective(peers'[p]) /\ p \notin ToSet(peers'[p])
    BY <1>1, <1>2, <1>6 DEF TypeOK, ExitDoes
  <2>2. exits' \subseteq Workers /\ late' \subseteq Workers
    BY <1>1 DEF TypeOK, ExitDoes
  <2> QED BY <1>1, <2>1, <2>2 DEF TypeOK, ExitDoes
<1>9. Origins'
  <2>1. ASSUME NEW v \in Workers, NEW x \in ToSet(down'[v])
        PROVE  x.from # v /\ x.nr <= events'
    <3>1. events \in Nat
      BY ClusterAssumption DEF TypeOK
    <3>2. CASE x \in ToSet(down[v])
      BY <1>3, <3>2 DEF Origins
    <3>3. CASE x \notin ToSet(down[v])
      <4>1. x = Bye(w) /\ v # w
        BY <1>5, <2>1, <3>3 DEF Serves
      <4> QED BY <1>3, <1>4, <3>1, <4>1
    <3> QED BY <3>2, <3>3
  <2> QED BY <1>3, <2>1 DEF Origins
<1>10. InOrder'
  <2>1. \A S : Before(S, {Bye(w)}) /\ Before({Bye(w)}, S)
    BY <1>4 DEF Before
  <2>2. ASSUME NEW v \in Workers
        PROVE  Ordered(down'[v])
    <3>1. down'[v] \in {down[v], Append(down[v], Bye(w))} /\ Bye(w) \in Message
      BY <1>4, <1>5
    <3>2. Ordered(down[v]) /\ down[v] \in Seq(Message) /\ Before(ToSet(down[v]), {Bye(w)})
      BY <2>1 DEF InOrder, TypeOK
    <3> QED BY <3>1, <3>2, OrderedAppend
  <2>3. ASSUME NEW v \in Workers
        PROVE  Before(ToSet(heard[v]), ToSet(down'[v]))
    <3>1. Before(ToSet(heard[v]), ToSet(down[v]))
      BY DEF InOrder
    <3> QED BY <1>5, <2>1, <3>1 DEF Before
  <2>4. ASSUME NEW v \in Workers, NEW u \in Workers
        PROVE  Before(ToSet(down'[v]), ToSet(up[u]))
    <3>1. Before(ToSet(down[v]), ToSet(up[u]))
      BY DEF InOrder
    <3> QED BY <1>5, <2>1, <3>1 DEF Before
  <2> QED BY <1>3, <2>2, <2>3, <2>4 DEF InOrder
<1>11. Lives'
  <2>1. ASSUME NEW v \in Workers, state'[v] = "off"
        PROVE  up'[v] = <<>> /\ peers'[v] = <<>> /\ v \notin told'
    BY <1>1, <1>3, <2>1 DEF ExitDoes, Lives
  <2>2. ASSUME NEW v \in Workers, state'[v] # "up"
        PROVE  down'[v] = <<>>
    BY <1>3, <1>5, <2>2 DEF Lives, Serves
  <2>3. ASSUME NEW v \in Workers, NEW x \in ToSet(down'[v])
        PROVE  x.from = Master \/ state'[x.from] # "off"
    <3>1. x \in ToSet(down[v]) \/ x.from = w
      BY <1>4, <1>5, <2>3
    <3> QED BY <1>3, <1>7, <3>1 DEF Lives
  <2>4. ASSUME NEW p \in Peers, NEW q \in ToSet(peers'[p])
        PROVE  q = Master \/ state'[q] # "off"
    BY <1>3, <1>6, <2>4 DEF Lives
  <2>5. \A v \in (exits \cup late)' : state'[v] = "dead"
    <3>1. (exits \cup late)' \subseteq exits \cup late \cup {w}
      BY <1>1 DEF ExitDoes
    <3> QED BY <1>3, <1>7, <3>1 DEF Lives
  <2> QED BY <2>1, <2>2, <2>3, <2>4, <2>5 DEF Lives
<1>12. Goodbyes'
  <2>1. ASSUME NEW v \in Workers, NEW x \in ToSet(down'[v]), x.type = "bye"
        PROVE  x.from \in Workers /\ state'[x.from] = "dead"
    <3>1. x \in ToSet(down[v]) \/ x.from = w
      BY <1>4, <1>5, <2>1
    <3> QED BY <1>3, <1>7, <2>1, <3>1 DEF Goodbyes
  <2> QED BY <1>3, <2>1 DEF Goodbyes
<1>13. \A v \in Workers : state[v] = "up" /\ v \in ToSet(peers[Master]) => v \in ToSet(peers'[Master])
  BY <1>1, <1>7 DEF ExitDoes
<1>14. Enlisted'
  <2>1. ASSUME NEW v \in Workers, state'[v] = "up",
               v \in told' \/ (\E x \in ToSet(down'[v]) : TRUE) \/ ToSet(peers'[v]) \ {Master} # {}
        PROVE  v \in ToSet(peers'[Master])
    <3>1. CASE Serves(v, w)
      BY <1>13, <3>1 DEF Serves
    <3>2. CASE ~Serves(v, w)
      <4>1. v \in told \/ (\E x \in ToSet(down[v]) : TRUE) \/ ToSet(peers[v]) \ {Master} # {}
        BY <1>2, <1>3, <1>5, <1>6, <2>1, <3>2
      <4> QED BY <1>3, <1>13, <2>1, <4>1 DEF Enlisted
    <3> QED BY <3>1, <3>2
  <2> QED BY <2>1 DEF Enlisted
<1>15. Living' = Living
  BY <1>3 DEF Living
<1>16. OnItsWay'
  BY <1>3, <1>5, <1>15 DEF OnItsWay
<1>17. MasterKnown'
  BY <1>1, <1>3, <1>13 DEF MasterKnown, ExitDoes, HelloIn
<1>18. WorkersKnown'
  <2> SUFFICES ASSUME NEW v \in Workers, NEW u \in Workers, v # u, state[v] = "up", state[u] = "up"
               PROVE  \/ v \in ToSet(peers'[u])
                      \/ HelloIn(down'[u], v, Peers \cup {All})
                      \/ HelloIn(up[v], v, {All, u})
                      \/ HelloIn(down'[v], u, {All})
                      \/ HelloIn(up[u], u, {All})
    BY <1>3 DEF WorkersKnown, HelloIn
  <2>1. peers'[u] = peers[u]
    BY <1>1 DEF ExitDoes
  <2>2. HelloIn(down[u], v, Peers \cup {All}) => HelloIn(down'[u], v, Peers \cup {All})
    BY <1>5 DEF HelloIn
  <2>3. HelloIn(down[v], u, {All}) => HelloIn(down'[v], u, {All})
    BY <1>5 DEF HelloIn
  <2> QED BY <2>1, <2>2, <2>3 DEF WorkersKnown
<1>19. ForgottenByMaster'
  <2> SUFFICES ASSUME NEW v \in Workers, state[v] = "dead", v \notin late', v \notin exits'
               PROVE  up[v] = <<>> /\ v \notin ToSet(peers'[Master])
    BY <1>3 DEF ForgottenByMaster
  <2>1. CASE v = w
    BY <1>1, <2>1 DEF ExitDoes
  <2>2. CASE v # w
    BY <1>1, <2>2 DEF ExitDoes, ForgottenByMaster
  <2> QED BY <2>1, <2>2
<1>20. Forgotten'
  <2> SUFFICES ASSUME NEW p \in Workers, NEW v \in Workers, state[p] = "up", v \notin late'
               PROVE  \/ v \notin ToSet(peers'[p]) /\ ~HelloIn(down'[p], v, Peers \cup {All})
                      \/ v \in ToSet(peers'[Master])
                      \/ Dismissed(down'[p], v)
    BY <1>3 DEF Forgotten, HelloIn, Dismissed
  <2>1. v \notin late
    BY <1>1 DEF ExitDoes
  <2>2. ~IsHello(Bye(w), v)
    BY <1>4 DEF IsHello
  <2>3. peers'[p] = peers[p] /\ down[p] \in Seq(Message)
    BY <1>1 DEF ExitDoes, TypeOK
  <2>4. CASE Dismissed(down[p], v)
    <3>1. down'[p] \in {down[p], Append(down[p], Bye(w))} /\ Bye(w) \in Message
      BY <1>4, <1>5
    <3> QED BY <2>2, <2>3, <2>4, <3>1, DismissedAppend
  <2>5. CASE v \notin ToSet(peers[p]) /\ ~HelloIn(down[p], v, Peers \cup {All})
    BY <1>5, <2>2, <2>3, <2>5 DEF HelloIn
  <2>6. CASE v \in ToSet(peers[Master]) /\ v # w
    BY <1>1, <2>6 DEF ExitDoes
  <2>7. CASE v \in ToSet(peers[Master]) /\ v = w
    <3>1. CASE p \in ToSet(peers[Master])
      <4>1. Serves(p, w)
        BY <1>7, <3>1 DEF Serves
      <4>2. down'[p] = Append(down[p], Bye(w))
        BY <1>5, <2>7, <4>1
      <4> QED BY <1>4, <2>3, <2>7, <4>2, DismissedAppend
    <3>2. CASE p \notin ToSet(peers[Master])
      <4>1. ToSet(down[p]) = {} /\ ToSet(peers[p]) \subseteq {Master}
        BY <3>2 DEF Enlisted
      <4>2. down'[p] = down[p]
        BY <1>5, <3>2 DEF Serves
      <4> QED BY <1>2, <2>3, <4>1, <4>2 DEF HelloIn
    <3> QED BY <3>1, <3>2
  <2> QED BY <2>1, <2>4, <2>5, <2>6, <2>7 DEF Forgotten
<1> QED BY <1>8, <1>9, <1>10, <1>11, <1>12, <1>14, <1>16, <1>17, <1>18, <1>19, <1>20

\* A change at the master.
LEMMA MasterTriggerStep ==
  ASSUME Inv, Trigger(Master)
  PROVE  Inv'
<1> DEFINE m == Changed(Master, events + 1)
<1> USE DEF Inv
<1>1. MasterChanges(m)
  BY MasterTriggerEffect
<1> HIDE DEF m
<1>2. /\ \A v \in Workers : v \in Peers /\ v # Master
      /\ Peers = Workers \cup {Master}
  BY ClusterAssumption DEF Peers
<1>3. /\ state' = state /\ told' = told /\ exits' = exits /\ late' = late
      /\ up' = up /\ heard' = heard /\ peers' = peers /\ events' = events + 1 /\ events \in Nat
      /\ m \in Message /\ m.from = Master /\ m.to = All /\ m.nr = events + 1 /\ m.type = "event"
  BY <1>1 DEF MasterChanges
<1>4. \A v \in Workers : /\ ToSet(down[v]) \subseteq ToSet(down'[v])
                         /\ ToSet(down'[v]) \subseteq ToSet(down[v]) \cup {m}
                         /\ down'[v] \in {down[v], Append(down[v], m)}
                         /\ down'[v] # down[v] => Serves(v, Master)
                         /\ Serves(v, Master) => m \in ToSet(down'[v])
  BY <1>1 DEF MasterChanges, Longer, Unchanged
<1>5. \A x \in Message : x.nr \in Nat
  BY DEF Message
<1>6. /\ \A v \in Workers : \A x \in ToSet(up[v]) : x \in Message
      /\ \A v \in Workers : \A x \in ToSet(down[v]) : x \in Message
      /\ \A p \in Peers : \A x \in ToSet(heard[p]) : x \in Message
  BY ElementOfSeq, LenProperties DEF TypeOK, ToSet
<1>7. TypeOK'
  <2>1. due' \in [Peers -> SUBSET Message]
    BY <1>1, <1>3 DEF MasterChanges, TypeOK
  <2>2. events' \in 0..MaxEvents
    BY <1>3, ClusterAssumption DEF Trigger, TypeOK
  <2> QED BY <1>1, <1>3, <2>1, <2>2 DEF TypeOK, MasterChanges
<1>8. Origins'
  <2>1. \A x \in Message : x.nr <= events => x.nr <= events'
    BY <1>3, <1>5
  <2>2. ASSUME NEW v \in Workers, NEW x \in ToSet(down'[v])
        PROVE  x.from # v /\ x.nr <= events'
    <3>1. CASE x \in ToSet(down[v])
      BY <1>6, <2>1, <3>1 DEF Origins
    <3>2. CASE x \notin ToSet(down[v])
      <4>1. x = m
        BY <1>4, <2>2, <3>2
      <4> QED BY <1>2, <1>3, <4>1
    <3> QED BY <3>1, <3>2
  <2> QED BY <1>3, <1>6, <2>1, <2>2 DEF Origins
<1>9. InOrder'
  <2>1. \A v \in Workers : Before(ToSet(down[v]), {m})
    BY <1>3, <1>5, <1>6 DEF Before, Origins
  <2>2. ASSUME NEW v \in Workers
        PROVE  Ordered(down'[v])
    <3>1. down'[v] \in {down[v], Append(down[v], m)} /\ m \in Message
      BY <1>3, <1>4
    <3>2. Ordered(down[v]) /\ down[v] \in Seq(Message) /\ Before(ToSet(down[v]), {m})
      BY <2>1 DEF InOrder, TypeOK
    <3> QED BY <3>1, <3>2, OrderedAppend
  <2>3. ASSUME NEW v \in Workers
        PROVE  Before(ToSet(heard[v]), ToSet(down'[v]))
    <3>1. Before(ToSet(heard[v]), ToSet(down[v]))
      BY DEF InOrder
    <3>2. Before(ToSet(heard[v]), {m})
      BY <1>2, <1>3, <1>5, <1>6 DEF Before, Origins
    <3> QED BY <1>4, <3>1, <3>2 DEF Before
  <2>4. ASSUME NEW v \in Workers, NEW u \in Workers
        PROVE  Before(ToSet(down'[v]), ToSet(up[u]))
    <3>1. Before(ToSet(down[v]), ToSet(up[u]))
      BY DEF InOrder
    <3>2. Before({m}, ToSet(up[u]))
      BY <1>2, <1>3 DEF Before, Origins
    <3> QED BY <1>4, <3>1, <3>2 DEF Before
  <2> QED BY <1>3, <2>2, <2>3, <2>4 DEF InOrder
<1>10. Lives'
  <2>1. ASSUME NEW v \in Workers, state'[v] # "up"
        PROVE  down'[v] = <<>>
    BY <1>3, <1>4, <2>1 DEF Lives, Serves
  <2>2. ASSUME NEW v \in Workers, NEW x \in ToSet(down'[v])
        PROVE  x.from = Master \/ state'[x.from] # "off"
    BY <1>3, <1>4, <2>2 DEF Lives
  <2> QED BY <1>3, <2>1, <2>2 DEF Lives
<1>11. Goodbyes'
  BY <1>3, <1>4 DEF Goodbyes
<1>12. Enlisted'
  <2>1. ASSUME NEW v \in Workers, state[v] = "up", ~Serves(v, Master)
        PROVE  down'[v] = down[v]
    BY <1>4, <2>1
  <2> QED BY <1>2, <1>3, <2>1 DEF Enlisted, Serves
<1>13. Living' = Living
  BY <1>3 DEF Living
<1>14. OnItsWay'
  <2>1. ASSUME NEW v \in Workers, due'[v] # {}
        PROVE  v \in told'
    BY <1>1, <1>2, <1>3, <2>1 DEF OnItsWay, MasterChanges
  <2>2. ASSUME NEW p \in Living, NEW x \in due'[p]
        PROVE  /\ x.to = All /\ x.type = "event"
               /\ \/ x \in ToSet(heard[p])
                  \/ p \in Workers /\ x \in ToSet(down'[p])
                  \/ x.from \in Workers \ {p} /\ x \in ToSet(up[x.from])
    <3>1. p \in Peers
      BY <1>2 DEF Living
    <3>2. CASE x \in due[p]
      BY <1>4, <3>2 DEF OnItsWay
    <3>3. CASE x \notin due[p]
      <4>1. x = m /\ p \in Living \ {Master} /\ p \in told
        BY <1>1, <1>2, <2>2, <3>1, <3>3 DEF MasterChanges
      <4>2. p \in Workers /\ state[p] = "up"
        BY <4>1 DEF Living
      <4>3. Serves(p, Master)
        BY <1>2, <4>1, <4>2 DEF Enlisted, Serves
      <4> QED BY <1>3, <1>4, <4>1, <4>2, <4>3
    <3> QED BY <3>2, <3>3
  <2> QED BY <1>3, <1>13, <2>1, <2>2 DEF OnItsWay
<1>15. MasterKnown'
  BY <1>3 DEF MasterKnown, HelloIn
<1>16. WorkersKnown'
  <2> SUFFICES ASSUME NEW v \in Workers, NEW u \in Workers, v # u, state[v] = "up", state[u] = "up"
               PROVE  \/ v \in ToSet(peers[u])
                      \/ HelloIn(down'[u], v, Peers \cup {All})
                      \/ HelloIn(up[v], v, {All, u})
                      \/ HelloIn(down'[v], u, {All})
                      \/ HelloIn(up[u], u, {All})
    BY <1>3 DEF WorkersKnown, HelloIn
  <2>1. HelloIn(down[u], v, Peers \cup {All}) => HelloIn(down'[u], v, Peers \cup {All})
    BY <1>4 DEF HelloIn
  <2>2. HelloIn(down[v], u, {All}) => HelloIn(down'[v], u, {All})
    BY <1>4 DEF HelloIn
  <2> QED BY <2>1, <2>2 DEF WorkersKnown
<1>17. ForgottenByMaster'
  BY <1>3 DEF ForgottenByMaster
<1>18. Forgotten'
  <2> SUFFICES ASSUME NEW p \in Workers, NEW v \in Workers, state[p] = "up", v \notin late
               PROVE  \/ v \notin ToSet(peers[p]) /\ ~HelloIn(down'[p], v, Peers \cup {All})
                      \/ v \in ToSet(peers[Master])
                      \/ Dismissed(down'[p], v)
    BY <1>3 DEF Forgotten, HelloIn, Dismissed
  <2>1. ~IsHello(m, v) /\ down[p] \in Seq(Message)
    BY <1>3 DEF IsHello, TypeOK
  <2>2. Dismissed(down[p], v) => Dismissed(down'[p], v)
    <3>1. down'[p] \in {down[p], Append(down[p], m)} /\ m \in Message
      BY <1>3, <1>4
    <3> QED BY <2>1, <3>1, DismissedAppend
  <2>3. HelloIn(down'[p], v, Peers \cup {All}) => HelloIn(down[p], v, Peers \cup {All})
    BY <1>4, <2>1 DEF HelloIn
  <2> QED BY <2>2, <2>3 DEF Forgotten
<1> QED BY <1>7, <1>8, <1>9, <1>10, <1>11, <1>12, <1>14, <1>15, <1>16, <1>17, <1>18


\* A change at a worker.
LEMMA WorkerTriggerStep ==
  ASSUME Inv, NEW w \in Workers, Trigger(w)
  PROVE  Inv'
<1> DEFINE m == Changed(w, events + 1)
<1> USE DEF Inv
<1>1. WorkerChanges(w, m)
  BY WorkerTriggerEffect
<1> HIDE DEF m
<1>2. /\ \A v \in Workers : v \in Peers /\ v # Master
      /\ Peers = Workers \cup {Master}
  BY ClusterAssumption DEF Peers
<1>3. /\ state' = state /\ told' = told /\ exits' = exits /\ late' = late
      /\ down' = down /\ heard' = heard /\ peers' = peers /\ events' = events + 1 /\ events \in Nat
      /\ m \in Message /\ m.from = w /\ m.to = All /\ m.nr = events + 1 /\ m.type = "event"
      /\ state[w] = "up" /\ up' \in [Workers -> Seq(Message)]
  BY <1>1 DEF WorkerChanges
<1>4. /\ up'[w] = Append(up[w], m) /\ ToSet(up'[w]) = ToSet(up[w]) \cup {m}
      /\ \A v \in Workers \ {w} : up'[v] = up[v]
      /\ \A v \in Workers : ToSet(up[v]) \subseteq ToSet(up'[v])
      /\ \A v \in Workers : ToSet(up'[v]) \subseteq ToSet(up[v]) \cup {m}
  BY <1>1 DEF WorkerChanges, Longer
<1>5. \A x \in Message : x.nr \in Nat
  BY DEF Message
<1>6. /\ \A v \in Workers : \A x \in ToSet(up[v]) : x \in Message
      /\ \A v \in Workers : \A x \in ToSet(down[v]) : x \in Message
      /\ \A p \in Peers : \A x \in ToSet(heard[p]) : x \in Message
  BY ElementOfSeq, LenProperties DEF TypeOK, ToSet
<1>7. TypeOK'
  <2>1. due' \in [Peers -> SUBSET Message]
    BY <1>1, <1>3 DEF WorkerChanges, TypeOK
  <2>2. events' \in 0..MaxEvents
    BY <1>3, ClusterAssumption DEF Trigger, TypeOK
  <2> QED BY <1>3, <2>1, <2>2 DEF TypeOK
<1>8. Origins'
  <2>1. \A x \in Message : x.nr <= events => x.nr <= events'
    BY <1>3, <1>5
  <2>2. ASSUME NEW v \in Workers, NEW x \in ToSet(up'[v])
        PROVE  x.from = v /\ x.nr <= events'
    <3>1. CASE x \in ToSet(up[v])
      BY <1>6, <2>1, <3>1 DEF Origins
    <3>2. CASE x \notin ToSet(up[v])
      <4>1. x = m /\ v = w
        BY <1>4, <2>2, <3>2
      <4> QED BY <1>3, <4>1
    <3> QED BY <3>1, <3>2
  <2> QED BY <1>3, <1>6, <2>1, <2>2 DEF Origins
<1>9. InOrder'
  <2>1. \A v \in Workers : Before(ToSet(up[v]), {m}) /\ Before(ToSet(down[v]), {m})
    BY <1>3, <1>5, <1>6 DEF Before, Origins
  <2>2. \A p \in Peers : Before(ToSet(heard[p]), {m})
    BY <1>3, <1>5, <1>6 DEF Before, Origins
  <2>3. ASSUME NEW v \in Workers
        PROVE  Ordered(up'[v])
    <3>1. Ordered(up[v]) /\ up[v] \in Seq(Message)
      BY DEF InOrder, TypeOK
    <3>2. CASE v = w
      <4>1. up'[v] = Append(up[v], m)
        BY <1>4, <3>2
      <4> QED BY <1>3, <2>1, <3>1, <4>1, OrderedAppend
    <3>3. CASE v # w
      BY <1>4, <3>1, <3>3
    <3> QED BY <3>2, <3>3
  <2>4. ASSUME NEW v \in Workers, NEW u \in Workers
        PROVE  Before(ToSet(down[v]), ToSet(up'[u]))
    <3>1. Before(ToSet(down[v]), ToSet(up[u]))
      BY DEF InOrder
    <3> QED BY <1>4, <2>1, <3>1 DEF Before
  <2>5. ASSUME NEW p \in Peers, NEW u \in Workers
        PROVE  Before(ToSet(heard[p]), ToSet(up'[u]))
    <3>1. Before(ToSet(heard[p]), ToSet(up[u]))
      BY DEF InOrder
    <3> QED BY <1>4, <2>2, <3>1 DEF Before
  <2> QED BY <1>3, <2>3, <2>4, <2>5 DEF InOrder
<1>10. Lives'
  BY <1>3, <1>4 DEF Lives
<1>11. Goodbyes'
  BY <1>3, <1>4 DEF Goodbyes
<1>12. Enlisted'
  BY <1>3 DEF Enlisted
<1>13. Living' = Living
  BY <1>3 DEF Living
<1>14. OnItsWay'
  <2>1. ASSUME NEW v \in Workers, due'[v] # {}
        PROVE  v \in told'
    BY <1>1, <1>2, <1>3, <2>1 DEF OnItsWay, WorkerChanges
  <2>2. ASSUME NEW p \in Living, NEW x \in due'[p]
        PROVE  /\ x.to = All /\ x.type = "event"
               /\ \/ x \in ToSet(heard[p])
                  \/ p \in Workers /\ x \in ToSet(down[p])
                  \/ x.from \in Workers \ {p} /\ x \in ToSet(up'[x.from])
    <3>1. p \in Peers
      BY <1>2 DEF Living
    <3>2. CASE x \in due[p]
      BY <1>4, <3>2 DEF OnItsWay
    <3>3. CASE x \notin due[p]
      <4>1. x = m /\ p \in Living \ {w}
        BY <1>1, <1>2, <2>2, <3>1, <3>3 DEF WorkerChanges
      <4> QED BY <1>3, <1>4, <4>1
    <3> QED BY <3>2, <3>3
  <2> QED BY <1>3, <1>13, <2>1, <2>2 DEF OnItsWay
<1>15. MasterKnown'
  BY <1>3, <1>4 DEF MasterKnown, HelloIn
<1>16. WorkersKnown'
  <2> SUFFICES ASSUME NEW v \in Workers, NEW u \in Workers, v # u, state[v] = "up", state[u] = "up"
               PROVE  \/ v \in ToSet(peers[u])
                      \/ HelloIn(down[u], v, Peers \cup {All})
                      \/ HelloIn(up'[v], v, {All, u})
                      \/ HelloIn(down[v], u, {All})
                      \/ HelloIn(up'[u], u, {All})
    BY <1>3 DEF WorkersKnown, HelloIn
  <2>1. HelloIn(up[v], v, {All, u}) => HelloIn(up'[v], v, {All, u})
    BY <1>4 DEF HelloIn
  <2>2. HelloIn(up[u], u, {All}) => HelloIn(up'[u], u, {All})
    BY <1>4 DEF HelloIn
  <2> QED BY <2>1, <2>2 DEF WorkersKnown
<1>17. ForgottenByMaster'
  BY <1>3, <1>4 DEF ForgottenByMaster
<1>18. Forgotten'
  BY <1>3 DEF Forgotten, HelloIn, Dismissed
<1> QED BY <1>7, <1>8, <1>9, <1>10, <1>11, <1>12, <1>14, <1>15, <1>16, <1>17, <1>18

\* A worker ends, with a goodbye or without.
LEMMA EndStep ==
  ASSUME Inv, NEW w \in Workers, Die(w) \/ Leave(w)
  PROVE  Inv'
<1> USE DEF Inv
<1>1. Ends(w)
  BY EndEffect
<1>2. /\ \A v \in Workers : v \in Peers /\ v # Master
      /\ Peers = Workers \cup {Master}
  BY ClusterAssumption DEF Peers
<1>3. /\ state[w] = "up" /\ state' = [state EXCEPT ![w] = "dead"]
      /\ down' = [down EXCEPT ![w] = <<>>] /\ exits' = exits \cup {w}
      /\ peers' = peers /\ events' = events /\ heard' = heard /\ told' = told /\ late' = late
      /\ up' \in [Workers -> Seq(Message)] /\ due' \in [Peers -> SUBSET Message]
      /\ \A v \in Workers \ {w} : up'[v] = up[v]
      /\ ToSet(up'[w]) \subseteq ToSet(up[w]) \cup {Bye(w)}
      /\ Ordered(up[w]) => Ordered(up'[w])
      /\ \A p \in Peers : due'[p] \subseteq due[p]
      /\ \A p \in Peers : \A m \in due'[p] : m \in ToSet(up[w]) => m \in ToSet(up'[w])
  BY <1>1 DEF Ends
<1> HIDE <1>1
<1>4. /\ state'[w] = "dead" /\ \A v \in Workers \ {w} : state'[v] = state[v]
      /\ down'[w] = <<>> /\ \A v \in Workers \ {w} : down'[v] = down[v]
      /\ ToSet(down'[w]) = {}
      /\ \A v \in Workers : ToSet(down'[v]) \subseteq ToSet(down[v])
  <2>1. state'[w] = "dead" /\ \A v \in Workers \ {w} : state'[v] = state[v]
    BY <1>3 DEF TypeOK
  <2>2. down'[w] = <<>> /\ \A v \in Workers \ {w} : down'[v] = down[v]
    BY <1>3 DEF TypeOK
  <2>3. ToSet(<<>>) = {}
    BY DEF ToSet
  <2> QED BY <2>1, <2>2, <2>3
<1>5. Bye(w).type = "bye" /\ Bye(w).from = w /\ Bye(w).nr = 0 /\ Bye(w).to = All
  BY DEF Bye
<1>6. \A v \in Workers : \A x \in ToSet(up'[v]) : x \in ToSet(up[v]) \/ (v = w /\ x = Bye(w))
  BY <1>3
<1>7. \A v \in Workers : state'[v] = "up" => v # w /\ state[v] = "up" /\ down'[v] = down[v] /\ up'[v] = up[v]
  BY <1>3, <1>4
<1>8. TypeOK'
  <2>1. state' \in [Workers -> {"off", "up", "dead"}]
    BY <1>3 DEF TypeOK
  <2>2. down' \in [Workers -> Seq(Message)]
    <3>1. <<>> \in Seq(Message)
      BY EmptySeq
    <3> QED BY <1>3, <3>1 DEF TypeOK
  <2>3. exits' \subseteq Workers
    BY <1>3 DEF TypeOK
  <2> QED BY <1>3, <2>1, <2>2, <2>3 DEF TypeOK
<1>9. Origins'
  <2>1. ASSUME NEW v \in Workers, NEW x \in ToSet(up'[v])
        PROVE  x.from = v /\ x.nr <= events'
    <3>1. events \in Nat
      BY ClusterAssumption DEF TypeOK
    <3>2. CASE x \in ToSet(up[v])
      BY <1>3, <3>2 DEF Origins
    <3>3. CASE v = w /\ x = Bye(w)
      BY <1>3, <1>5, <3>1, <3>3
    <3> QED BY <1>6, <3>2, <3>3
  <2>2. ASSUME NEW v \in Workers, NEW x \in ToSet(down'[v])
        PROVE  x.from # v /\ x.nr <= events'
    <3>1. x \in ToSet(down[v]) /\ events' = events
      BY <1>3, <1>4, <2>2
    <3> QED BY <3>1 DEF Origins
  <2> QED BY <1>3, <2>1, <2>2 DEF Origins
<1>10. InOrder'
  <2>1. \A S : Before(S, {Bye(w)}) /\ Before({Bye(w)}, S)
    BY <1>5 DEF Before
  <2>2. Ordered(<<>>)
    BY DEF Ordered
  <2>3. ASSUME NEW v \in Workers
        PROVE  Ordered(up'[v]) /\ Ordered(down'[v])
    <3>1. CASE v = w
      BY <1>3, <1>4, <2>2, <3>1 DEF InOrder
    <3>2. CASE v # w
      BY <1>3, <1>4, <3>2 DEF InOrder
    <3> QED BY <3>1, <3>2
  <2>4. ASSUME NEW v \in Workers
        PROVE  Before(ToSet(heard[v]), ToSet(down'[v]))
    <3>1. Before(ToSet(heard[v]), ToSet(down[v]))
      BY DEF InOrder
    <3> QED BY <1>4, <3>1 DEF Before
  <2>5. ASSUME NEW v \in Workers, NEW u \in Workers
        PROVE  Before(ToSet(down'[v]), ToSet(up'[u]))
    <3>1. Before(ToSet(down[v]), ToSet(up[u]))
      BY DEF InOrder
    <3> QED BY <1>4, <1>6, <2>1, <3>1 DEF Before
  <2>6. ASSUME NEW p \in Peers, NEW u \in Workers
        PROVE  Before(ToSet(heard[p]), ToSet(up'[u]))
    <3>1. Before(ToSet(heard[p]), ToSet(up[u]))
      BY DEF InOrder
    <3> QED BY <1>6, <2>1, <3>1 DEF Before
  <2> QED BY <1>3, <2>3, <2>4, <2>5, <2>6 DEF InOrder
<1>11. \A p : p \in {Master} \cup Workers => (state'[p] = "off" => state[p] = "off") \/ p = Master
  BY <1>3, <1>4
<1>12. Lives'
  <2>1. ASSUME NEW v \in Workers, state'[v] = "off"
        PROVE  up'[v] = <<>> /\ peers'[v] = <<>> /\ v \notin told'
    BY <1>3, <1>4, <2>1 DEF Lives
  <2>2. ASSUME NEW v \in Workers, state'[v] # "up"
        PROVE  down'[v] = <<>>
    BY <1>4, <2>2 DEF Lives
  <2>3. ASSUME NEW v \in Workers, NEW x \in ToSet(down'[v])
        PROVE  x.from = Master \/ state'[x.from] # "off"
    <3>1. x \in ToSet(down[v])
      BY <1>4, <2>3
    <3>2. x.from \in Peers
      BY <3>1, Members
    <3> QED BY <1>2, <1>11, <3>1, <3>2 DEF Lives
  <2>4. ASSUME NEW p \in Peers, NEW q \in ToSet(peers'[p])
        PROVE  q = Master \/ state'[q] # "off"
    <3>1. q \in ToSet(peers[p])
      BY <1>3, <2>4
    <3>2. q \in Peers
      BY <3>1, Members
    <3> QED BY <1>2, <1>11, <3>1, <3>2 DEF Lives
  <2>5. \A v \in (exits \cup late)' : state'[v] = "dead"
    <3>1. exits \cup late \subseteq Workers
      BY DEF TypeOK
    <3> QED BY <1>3, <1>4, <3>1 DEF Lives
  <2> QED BY <2>1, <2>2, <2>3, <2>4, <2>5 DEF Lives
<1>13. Goodbyes'
  <2>1. ASSUME NEW v \in Workers, NEW x \in ToSet(up'[v]), x.type = "bye"
        PROVE  state'[v] = "dead" /\ x.to = All
    <3>1. CASE x \in ToSet(up[v])
      BY <1>3, <1>4, <2>1, <3>1 DEF Goodbyes
    <3>2. CASE v = w /\ x = Bye(w)
      BY <1>4, <1>5, <3>2
    <3> QED BY <1>6, <2>1, <3>1, <3>2
  <2>2. ASSUME NEW v \in Workers, NEW x \in ToSet(down'[v]), x.type = "bye"
        PROVE  x.from \in Workers /\ state'[x.from] = "dead"
    <3>1. x.from \in Workers /\ state[x.from] = "dead"
      BY <1>4, <2>2 DEF Goodbyes
    <3>2. x.from = w \/ x.from \in Workers \ {w}
      BY <3>1
    <3> QED BY <1>4, <3>1, <3>2
  <2> QED BY <2>1, <2>2 DEF Goodbyes
<1>14. Enlisted'
  BY <1>3, <1>7 DEF Enlisted
<1>15. Living' = Living \ {w}
  BY <1>2, <1>3, <1>4 DEF Living
<1>16. OnItsWay'
  <2>1. ASSUME NEW v \in Workers, due'[v] # {}
        PROVE  v \in told'
    BY <1>2, <1>3, <2>1 DEF OnItsWay
  <2>2. ASSUME NEW p \in Living \ {w}, NEW x \in due'[p]
        PROVE  /\ x.to = All /\ x.type = "event"
               /\ \/ x \in ToSet(heard[p])
                  \/ p \in Workers /\ x \in ToSet(down'[p])
                  \/ x.from \in Workers \ {p} /\ x \in ToSet(up'[x.from])
    <3>1. p \in Peers
      BY <1>2 DEF Living
    <3>2. /\ x.to = All /\ x.type = "event"
          /\ \/ x \in ToSet(heard[p])
             \/ p \in Workers /\ x \in ToSet(down[p])
             \/ x.from \in Workers \ {p} /\ x \in ToSet(up[x.from])
      BY <1>3, <2>2, <3>1 DEF OnItsWay
    <3>3. CASE p \in Workers /\ x \in ToSet(down[p])
      BY <1>4, <2>2, <3>2, <3>3
    <3>4. CASE x.from \in Workers \ {p} /\ x \in ToSet(up[x.from])
      <4>1. x \in ToSet(up'[x.from])
        BY <1>3, <2>2, <3>1, <3>4
      <4> QED BY <3>2, <3>4, <4>1
    <3> QED BY <3>2, <3>3, <3>4
  <2> QED BY <1>3, <1>15, <2>1, <2>2 DEF OnItsWay
<1>17. MasterKnown'
  BY <1>3, <1>7 DEF MasterKnown, HelloIn
<1>18. WorkersKnown'
  BY <1>3, <1>7 DEF WorkersKnown, HelloIn
<1>19. ForgottenByMaster'
  <2>1. ASSUME NEW v \in Workers, state'[v] = "dead", v \notin late, v \notin exits'
        PROVE  up'[v] = <<>> /\ v \notin ToSet(peers[Master])
    BY <1>3, <1>4, <2>1 DEF ForgottenByMaster
  <2> QED BY <1>3, <2>1 DEF ForgottenByMaster
<1>20. Forgotten'
  BY <1>3, <1>7 DEF Forgotten, HelloIn, Dismissed
<1> QED BY <1>8, <1>9, <1>10, <1>12, <1>13, <1>14, <1>16, <1>17, <1>18, <1>19, <1>20

\* A worker starts.
LEMMA StartStep ==
  ASSUME Inv, NEW w \in Workers, Start(w)
  PROVE  Inv'
<1> USE DEF Inv
<1>1. /\ \A v \in Workers : v \in Peers /\ v # Master
      /\ Peers = Workers \cup {Master} /\ Master \in Peers
  BY ClusterAssumption DEF Peers
<1>2. /\ state[w] = "off" /\ state' = [state EXCEPT ![w] = "up"]
      /\ peers' = [peers EXCEPT ![w] = <<Master>>]
      /\ up' = [up EXCEPT ![w] = <<Hello(w, All)>>]
      /\ down' = down /\ exits' = exits /\ events' = events /\ heard' = heard
      /\ told' = told /\ due' = due /\ late' = late
  BY DEF Start
<1>3. /\ Hello(w, All) \in Message /\ Hello(w, All).type = "hello"
      /\ Hello(w, All).from = w /\ Hello(w, All).to = All /\ Hello(w, All).nr = 0
  BY <1>1, Constructed DEF Hello
<1>4. \A x : ToSet(<<x>>) = {x} /\ IsInjective(<<x>>) /\ Ordered(<<x>>)
  BY DEF ToSet, IsInjective, Ordered
<1>5. /\ state'[w] = "up" /\ \A v \in Workers \ {w} : state'[v] = state[v]
      /\ peers'[w] = <<Master>> /\ \A p \in Peers \ {w} : peers'[p] = peers[p]
      /\ up'[w] = <<Hello(w, All)>> /\ \A v \in Workers \ {w} : up'[v] = up[v]
      /\ ToSet(up'[w]) = {Hello(w, All)} /\ ToSet(peers'[w]) = {Master}
  BY <1>1, <1>2, <1>4 DEF TypeOK
<1>6. up[w] = <<>> /\ down[w] = <<>> /\ w \notin told /\ w \notin exits \cup late /\ ToSet(<<>>) = {}
  BY <1>2 DEF Lives, ToSet
<1>7. \A v \in Workers : \A x \in ToSet(up'[v]) : x \in ToSet(up[v]) \/ (v = w /\ x = Hello(w, All))
  BY <1>5
<1>8. TypeOK'
  <2>1. state' \in [Workers -> {"off", "up", "dead"}]
    BY <1>2 DEF TypeOK
  <2>2. <<Master>> \in Seq(Peers) /\ <<Hello(w, All)>> \in Seq(Message)
    BY <1>1, <1>3
  <2>3. up' \in [Workers -> Seq(Message)]
    BY <1>2, <2>2 DEF TypeOK
  <2>4. peers' \in [Peers -> Seq(Peers)]
    BY <1>2, <2>2 DEF TypeOK
  <2>5. ASSUME NEW p \in Peers
        PROVE  IsInjective(peers'[p]) /\ p \notin ToSet(peers'[p])
    <3>1. CASE p = w
      <4>1. peers'[p] = <<Master>> /\ w # Master
        BY <1>1, <1>5, <3>1
      <4>2. IsInjective(<<Master>>) /\ ToSet(<<Master>>) = {Master}
        BY <1>4
      <4> QED BY <3>1, <4>1, <4>2
    <3>2. CASE p # w
      <4>1. peers'[p] = peers[p]
        BY <1>5, <3>2
      <4> QED BY <4>1 DEF TypeOK
    <3> QED BY <3>1, <3>2
  <2> QED BY <1>2, <2>1, <2>3, <2>4, <2>5 DEF TypeOK
<1>9. Origins'
  <2>1. ASSUME NEW v \in Workers, NEW x \in ToSet(up'[v])
        PROVE  x.from = v /\ x.nr <= events'
    <3>1. events \in Nat
      BY ClusterAssumption DEF TypeOK
    <3>2. CASE x \in ToSet(up[v])
      BY <1>2, <3>2 DEF Origins
    <3>3. CASE v = w /\ x = Hello(w, All)
      BY <1>2, <1>3, <3>1, <3>3
    <3> QED BY <1>7, <2>1, <3>2, <3>3
  <2> QED BY <1>2, <2>1 DEF Origins
<1>10. InOrder'
  <2>1. \A S : Before(S, {Hello(w, All)})
    BY <1>3 DEF Before
  <2>2. ASSUME NEW v \in Workers
        PROVE  Ordered(up'[v])
    BY <1>4, <1>5 DEF InOrder
  <2>3. ASSUME NEW v \in Workers, NEW u \in Workers
        PROVE  Before(ToSet(down[v]), ToSet(up'[u]))
    <3>1. Before(ToSet(down[v]), ToSet(up[u]))
      BY DEF InOrder
    <3> QED BY <1>7, <2>1, <3>1 DEF Before
  <2>4. ASSUME NEW p \in Peers, NEW u \in Workers
        PROVE  Before(ToSet(heard[p]), ToSet(up'[u]))
    <3>1. Before(ToSet(heard[p]), ToSet(up[u]))
      BY DEF InOrder
    <3> QED BY <1>7, <2>1, <3>1 DEF Before
  <2> QED BY <1>2, <2>2, <2>3, <2>4 DEF InOrder
<1>11. Lives'
  <2>1. \A v \in Workers : state'[v] = "off" => v # w /\ state[v] = "off"
    BY <1>5
  <2>2. ASSUME NEW v \in Workers, NEW x \in ToSet(down[v])
        PROVE  x.from = Master \/ state'[x.from] # "off"
    <3>1. x.from \in Peers
      BY <2>2, Members
    <3> QED BY <1>1, <2>1, <2>2, <3>1 DEF Lives
  <2>3. ASSUME NEW p \in Peers, NEW q \in ToSet(peers'[p])
        PROVE  q = Master \/ state'[q] # "off"
    <3>1. CASE p = w
      BY <1>5, <2>3, <3>1
    <3>2. CASE p # w
      <4>1. q \in ToSet(peers[p])
        BY <1>5, <2>3, <3>2
      <4>2. q \in Peers
        BY <4>1, Members
      <4> QED BY <1>1, <2>1, <4>1, <4>2 DEF Lives
    <3> QED BY <3>1, <3>2
  <2>4. \A v \in exits \cup late : state'[v] = "dead"
    <3>1. exits \cup late \subseteq Workers
      BY DEF TypeOK
    <3> QED BY <1>5, <1>6, <3>1 DEF Lives
  <2>5. ASSUME NEW v \in Workers, state'[v] = "off"
        PROVE  up'[v] = <<>> /\ peers'[v] = <<>> /\ v \notin told
    BY <1>1, <1>5, <2>1, <2>5 DEF Lives
  <2>6. ASSUME NEW v \in Workers, state'[v] # "up"
        PROVE  down[v] = <<>>
    BY <1>5, <1>6, <2>6 DEF Lives
  <2> QED BY <1>2, <2>2, <2>3, <2>4, <2>5, <2>6 DEF Lives
<1>12. Goodbyes'
  <2>1. ASSUME NEW v \in Workers, NEW x \in ToSet(up'[v]), x.type = "bye"
        PROVE  state'[v] = "dead" /\ x.to = All
    <3>1. x \in ToSet(up[v])
      BY <1>3, <1>7, <2>1
    <3>2. v # w
      BY <1>6, <3>1
    <3> QED BY <1>5, <2>1, <3>1, <3>2 DEF Goodbyes
  <2>2. ASSUME NEW v \in Workers, NEW x \in ToSet(down[v]), x.type = "bye"
        PROVE  x.from \in Workers /\ state'[x.from] = "dead"
    <3>1. x.from \in Workers /\ state[x.from] = "dead"
      BY <2>2 DEF Goodbyes
    <3>2. x.from # w
      BY <1>2, <3>1
    <3> QED BY <1>5, <3>1, <3>2
  <2> QED BY <1>2, <2>1, <2>2 DEF Goodbyes
<1>13. Enlisted'
  <2>1. ASSUME NEW v \in Workers, state'[v] = "up",
               v \in told \/ (\E x \in ToSet(down[v]) : TRUE) \/ ToSet(peers'[v]) \ {Master} # {}
        PROVE  v \in ToSet(peers'[Master])
    <3>1. v # w
      BY <1>5, <1>6, <2>1
    <3> QED BY <1>1, <1>5, <2>1, <3>1 DEF Enlisted
  <2> QED BY <1>2, <2>1 DEF Enlisted
<1>14. Living' = Living \cup {w}
  BY <1>1, <1>2, <1>5 DEF Living
<1>15. OnItsWay'
  <2>1. due[w] = {}
    BY <1>6 DEF OnItsWay
  <2>2. ASSUME NEW p \in Living, NEW x \in due[p]
        PROVE  /\ x.to = All /\ x.type = "event"
               /\ \/ x \in ToSet(heard[p])
                  \/ p \in Workers /\ x \in ToSet(down[p])
                  \/ x.from \in Workers \ {p} /\ x \in ToSet(up'[x.from])
    <3>1. CASE x.from \in Workers \ {p} /\ x \in ToSet(up[x.from])
      <4>1. x.from # w
        BY <1>6, <3>1
      <4> QED BY <1>5, <2>2, <3>1, <4>1 DEF OnItsWay
    <3> QED BY <2>2, <3>1 DEF OnItsWay
  <2> QED BY <1>2, <1>14, <2>1, <2>2 DEF OnItsWay
<1>16. HelloIn(up'[w], w, {All})
  BY <1>3, <1>5 DEF HelloIn, IsHello
<1>17. MasterKnown'
  <2>1. ASSUME NEW v \in Workers, state'[v] = "up"
        PROVE  Master \in ToSet(peers'[v]) /\ (HelloIn(up'[v], v, {All}) \/ v \in ToSet(peers'[Master]))
    BY <1>1, <1>5, <1>16, <2>1 DEF MasterKnown
  <2> QED BY <2>1 DEF MasterKnown, HelloIn
<1>18. WorkersKnown'
  <2> SUFFICES ASSUME NEW v \in Workers, NEW u \in Workers, v # u, state'[v] = "up", state'[u] = "up"
               PROVE  \/ v \in ToSet(peers'[u])
                      \/ HelloIn(down[u], v, Peers \cup {All})
                      \/ HelloIn(up'[v], v, {All, u})
                      \/ HelloIn(down[v], u, {All})
                      \/ HelloIn(up'[u], u, {All})
    BY <1>2 DEF WorkersKnown, HelloIn
  <2>1. CASE u = w
    BY <1>16, <2>1
  <2>2. CASE v = w
    BY <1>16, <2>2 DEF HelloIn
  <2>3. CASE u # w /\ v # w
    BY <1>1, <1>5, <2>3 DEF WorkersKnown
  <2> QED BY <2>1, <2>2, <2>3
<1>19. ForgottenByMaster'
  <2>1. ASSUME NEW v \in Workers, state'[v] = "dead", v \notin late, v \notin exits
        PROVE  up'[v] = <<>> /\ v \notin ToSet(peers'[Master])
    BY <1>1, <1>5, <2>1 DEF ForgottenByMaster
  <2> QED BY <1>2, <2>1 DEF ForgottenByMaster
<1>20. Forgotten'
  <2> SUFFICES ASSUME NEW p \in Workers, NEW v \in Workers, state'[p] = "up", v \notin late
               PROVE  \/ v \notin ToSet(peers'[p]) /\ ~HelloIn(down[p], v, Peers \cup {All})
                      \/ v \in ToSet(peers'[Master])
                      \/ Dismissed(down[p], v)
    BY <1>2 DEF Forgotten, HelloIn, Dismissed
  <2>1. CASE p = w
    BY <1>1, <1>5, <1>6, <2>1 DEF HelloIn
  <2>2. CASE p # w
    BY <1>1, <1>5, <2>2 DEF Forgotten
  <2> QED BY <2>1, <2>2
<1> QED BY <1>8, <1>9, <1>10, <1>11, <1>12, <1>13, <1>15, <1>17, <1>18, <1>19, <1>20

\* The invariant holds at first ...
LEMMA InvInit == Init => Inv
<1> SUFFICES ASSUME Init PROVE Inv
  OBVIOUS
<1>1. /\ <<>> \in Seq(Message) /\ <<>> \in Seq(Peers)
      /\ ToSet(<<>>) = {} /\ IsInjective(<<>>) /\ Ordered(<<>>)
  BY EmptySeq DEF ToSet, IsInjective, Ordered
<1>2. \A v \in Workers : v \in Peers /\ v # Master
  BY ClusterAssumption DEF Peers
<1>3. TypeOK
  BY <1>1, ClusterAssumption DEF Init, TypeOK
<1>4. Origins /\ InOrder /\ Lives /\ Goodbyes /\ Enlisted
  BY <1>1, <1>2 DEF Init, Origins, InOrder, Before, Lives, Goodbyes, Enlisted
<1>5. Living = {Master}
  BY DEF Init, Living
<1>6. OnItsWay
  BY <1>2, <1>5 DEF Init, OnItsWay, Peers
<1>7. MasterKnown /\ WorkersKnown /\ ForgottenByMaster /\ Forgotten
  BY DEF Init, MasterKnown, WorkersKnown, ForgottenByMaster, Forgotten
<1> QED BY <1>3, <1>4, <1>6, <1>7 DEF Inv

\* ... is kept by every step ...
LEMMA InvNext == Inv /\ [Next]_vars => Inv'
<1> SUFFICES ASSUME Inv, [Next]_vars PROVE Inv'
  OBVIOUS
<1>1. ASSUME NEW w \in Workers, Start(w) PROVE Inv'
  BY <1>1, StartStep
<1>2. ASSUME NEW w \in Workers, Die(w) \/ Leave(w) PROVE Inv'
  BY <1>2, EndStep
<1>3. ASSUME NEW w \in Workers, MasterHandle(w) PROVE Inv'
  BY <1>3, MasterStep
<1>4. ASSUME NEW w \in Workers, WorkerHandle(w) PROVE Inv'
  BY <1>4, WorkerStep
<1>5. ASSUME NEW w \in Workers, SeeExit(w) PROVE Inv'
  BY <1>5, ExitStep
<1>6. ASSUME NEW p \in Peers, Trigger(p) PROVE Inv'
  BY <1>6, MasterTriggerStep, WorkerTriggerStep DEF Peers
<1>7. CASE UNCHANGED vars
  <2>1. TypeOK'
    BY <1>7 DEF vars, Inv, TypeOK
  <2>2. Origins' /\ InOrder'
    BY <1>7 DEF vars, Inv, Origins, InOrder
  <2>3. Lives' /\ Goodbyes' /\ Enlisted'
    BY <1>7 DEF vars, Inv, Lives, Goodbyes, Enlisted
  <2>4. OnItsWay'
    <3>1. Living' = Living
      BY <1>7 DEF vars, Living
    <3> QED BY <1>7, <3>1 DEF vars, Inv, OnItsWay
  <2>5. MasterKnown' /\ WorkersKnown'
    BY <1>7 DEF vars, Inv, MasterKnown, WorkersKnown, HelloIn
  <2>6. ForgottenByMaster' /\ Forgotten'
    BY <1>7 DEF vars, Inv, ForgottenByMaster, Forgotten, HelloIn, Dismissed
  <2> QED BY <2>1, <2>2, <2>3, <2>4, <2>5, <2>6 DEF Inv
<1> QED BY <1>1, <1>2, <1>3, <1>4, <1>5, <1>6, <1>7 DEF Next

\* ... and so always holds.
LEMMA Invariance == Spec => []Inv
BY InvInit, InvNext, PTL DEF Spec

----------------------------------------------------------------------------
(***************************************************************************)
(* The lists of peers hold every process once and never the process        *)
(* itself, and lines carry well-formed messages, through any joins, deaths *)
(* and goodbyes (addPeer, removePeer, sendMessage).                        *)
(***************************************************************************)
THEOREM TypeCorrect == Spec => []TypeOK
BY Invariance, PTL DEF Inv

(***************************************************************************)
(* No process hears of a change twice, of its own changes, or of those of  *)
(* another in the wrong order, whatever the master forwards.               *)
(***************************************************************************)
THEOREM OnceAndInOrder == Spec => []HeardOnceInOrder
<1>1. ASSUME Inv PROVE HeardOnceInOrder
  <2>1. \A p \in Peers : \A i \in DOMAIN heard[p] : heard[p][i] \in ToSet(heard[p])
    BY DEF ToSet
  <2>2. \A p \in Peers : \A i \in DOMAIN heard[p] : heard[p][i].from # p /\ heard[p][i].type = "event"
    BY <1>1, <2>1 DEF Inv, Origins
  <2>3. \A p \in Peers : \A i, j \in DOMAIN heard[p] :
          i < j => Before({heard[p][i]}, {heard[p][j]})
    BY <1>1 DEF Inv, InOrder, Ordered
  <2> QED BY <2>2, <2>3 DEF HeardOnceInOrder, Before
<1> QED BY <1>1, Invariance, PTL

(***************************************************************************)
(* Once every message is handled, a worker the master has greeted has      *)
(* heard of every later change, and so has the master: only what a dying   *)
(* process had not got out is lost.                                        *)
(***************************************************************************)
THEOREM NothingIsMissed == Spec => []HearsAll
<1>1. ASSUME Inv PROVE HearsAll
  <2> SUFFICES ASSUME AtRest, NEW p \in Living, NEW m \in due[p]
               PROVE  m \in ToSet(heard[p])
    BY DEF HearsAll
  <2>1. \A w \in Workers : ToSet(up[w]) = {} /\ ToSet(down[w]) = {}
    BY DEF AtRest, ToSet
  <2> QED BY <1>1, <2>1 DEF Inv, OnItsWay
<1> QED BY <1>1, Invariance, PTL

(***************************************************************************)
(* Once every message and every exit is handled, the living know each      *)
(* other, and of the dead at most those whose exit overtook their last     *)
(* messages.                                                               *)
(***************************************************************************)
THEOREM PeersSettled == Spec => []PeersKnown
<1>1. ASSUME Inv PROVE PeersKnown
  <2> SUFFICES ASSUME AtRest, NEW p \in Living
               PROVE  /\ Living \ {p} \subseteq ToSet(peers[p])
                      /\ ToSet(peers[p]) \subseteq (Living \ {p}) \cup late
    BY DEF PeersKnown
  <2> USE <1>1 DEF Inv
  <2>1. exits = {} /\ \A w \in Workers : ToSet(up[w]) = {} /\ ToSet(down[w]) = {} /\ down[w] = <<>>
    BY DEF AtRest, ToSet
  <2>2. \A w, v \in Workers : \A S : ~HelloIn(up[w], v, S) /\ ~HelloIn(down[w], v, S)
    BY <2>1 DEF HelloIn
  <2>3. \A w, v \in Workers : ~Dismissed(down[w], v)
    BY <2>1 DEF Dismissed
  <2>4. /\ Living = {Master} \cup {w \in Workers : state[w] = "up"}
        /\ Peers = Workers \cup {Master} /\ p \in Peers /\ \A w \in Workers : w # Master
    BY ClusterAssumption DEF Living, Peers
  <2>5. ASSUME NEW q \in Living \ {p}
        PROVE  q \in ToSet(peers[p])
    <3>1. CASE p = Master
      BY <2>2, <2>4, <2>5, <3>1 DEF MasterKnown
    <3>2. CASE q = Master
      BY <2>4, <2>5, <3>2 DEF MasterKnown
    <3>3. CASE p \in Workers /\ q \in Workers
      <4>1. state[p] = "up" /\ state[q] = "up" /\ q # p
        BY <2>4, <2>5, <3>3
      <4> QED BY <2>2, <3>3, <4>1 DEF WorkersKnown
    <3> QED BY <2>4, <2>5, <3>1, <3>2, <3>3
  <2>6. ASSUME NEW q \in ToSet(peers[p])
        PROVE  q \in (Living \ {p}) \cup late
    <3>1. q # p
      BY <2>4, <2>6 DEF TypeOK
    <3>2. q \in Peers
      <4>1. peers[p] \in Seq(Peers)
        BY <2>4 DEF TypeOK
      <4> QED BY <2>6, <4>1, ElementOfSeq, LenProperties DEF ToSet
    <3>3. q = Master \/ state[q] # "off"
      BY <2>4, <2>6 DEF Lives
    <3>4. CASE q \in Workers /\ state[q] = "dead" /\ q \notin late
      <4>1. q \notin ToSet(peers[Master])
        BY <2>1, <3>4 DEF ForgottenByMaster
      <4>2. CASE p = Master
        BY <2>6, <4>1, <4>2
      <4>3. CASE p \in Workers
        <5>1. state[p] = "up"
          BY <2>4, <4>3
        <5>2. q \notin ToSet(peers[p])
          BY <2>3, <3>4, <4>1, <4>3, <5>1 DEF Forgotten
        <5> QED BY <2>6, <5>2
      <4> QED BY <2>4, <4>2, <4>3
    <3>5. q \in Workers => state[q] \in {"off", "up", "dead"}
      BY DEF TypeOK
    <3> QED BY <2>4, <3>1, <3>2, <3>3, <3>4, <3>5
  <2> QED BY <2>5, <2>6
<1> QED BY <1>1, Invariance, PTL
=============================================================================
