---------------------------- MODULE Subscribing ----------------------------
(***************************************************************************)
(* Subscriptions of a remote client over the socket: websocketRequest and  *)
(* the resubscription of a client, and the handlers of the socket server.  *)
(*                                                                         *)
(* A client sends a request up to MaxTries times, one second apart.  The   *)
(* server looks the client up by the id of its application, which stays    *)
(* the same over reconnections; it awaits the access check between the     *)
(* test whether the client is subscribed and the new entry.                *)
(*                                                                         *)
(* One client, one database and one path: the handlers keep them apart.    *)
(***************************************************************************)
EXTENDS Naturals, Sequences, FiniteSets

CONSTANTS
  Events,
  AnyEvent,        \* an unsubscribe without an event
  MaxSockets,      \* bound: connections, numbered in the order they are made
  MaxTries,        \* 3 in the code
  MaxCallbacks,    \* bound: callbacks a client has for an event
  MaxRequests      \* bound: requests a client makes

ASSUME SubscribingAssumption ==
  /\ AnyEvent \notin Events
  /\ MaxSockets \in Nat
  /\ MaxTries \in Nat \ {0}
  /\ MaxCallbacks \in Nat
  /\ MaxRequests \in Nat

VARIABLES
  wanted,      \* client: the number of callbacks by event
  request,     \* client: its requests, in the order they were made
  conn,        \* client: the connection it is on
  buffer,      \* client: what socket.io keeps for the next connection
  line,        \* connections
  inbox,       \* on the way to the server, by connection
  answers,     \* on the way to the client, by connection
  known,       \* server: the connection of the entry in env.clients
  subs,        \* server: the list of a ConnectedClient, by its connection
  checks,      \* server: subscriptions whose access check is awaited
  database,    \* callbacks subscribed at the database
  clean        \* history: none of the Mishaps below has occurred

client == <<wanted, request, conn, buffer>>
server == <<known, subs, checks, database>>
vars == <<client, line, inbox, answers, server, clean>>

Sockets == 1..MaxSockets
None == 0

Ids == 1..MaxRequests

\* A copy is one of the messages of a request; a callback is named for the
\* copy whose handler made it.
Copies == Ids \X (1..MaxTries)

Request == [kind : {"none", "subscribe", "unsubscribe"}, event : Events \cup {AnyEvent},
            tries : 0..MaxTries, listening : BOOLEAN,
            promise : {"open", "resolved", "rejected"}]

NoRequest == [kind |-> "none", event |-> AnyEvent, tries |-> 0, listening |-> FALSE,
              promise |-> "open"]

Check == [copy : Copies, client : Sockets, socket : Sockets]

TypeOK ==
  /\ wanted \in [Events -> 0..MaxCallbacks]
  /\ request \in [Ids -> Request]
  /\ conn \in Sockets \cup {None}
  /\ buffer \in Seq(Copies)
  /\ line \in [Sockets -> {"unused", "accepted", "open", "lost", "closed"}]
  /\ inbox \in [Sockets -> Seq(Copies)]
  /\ answers \in [Sockets -> Seq(Ids)]
  /\ known \in Sockets \cup {None}
  /\ subs \in [Sockets -> Seq(Copies)]
  /\ checks \subseteq Check
  /\ database \subseteq Copies
  /\ clean \in BOOLEAN

Init ==
  /\ wanted = [e \in Events |-> 0]
  /\ request = [r \in Ids |-> NoRequest]
  /\ conn = None
  /\ buffer = <<>>
  /\ line = [s \in Sockets |-> "unused"]
  /\ inbox = [s \in Sockets |-> <<>>]
  /\ answers = [s \in Sockets |-> <<>>]
  /\ known = None
  /\ subs = [s \in Sockets |-> <<>>]
  /\ checks = {}
  /\ database = {}
  /\ clean = TRUE

Used == {r \in Ids : request[r].kind # "none"}
EventOf(copy) == request[copy[1]].event
Items(seq) == {seq[i] : i \in DOMAIN seq}
EventsAt(s) == {EventOf(c) : c \in Items(subs[s])}
Matches(e, f) == e = AnyEvent \/ f = AnyEvent \/ e = f

----------------------------------------------------------------------------
(***************************************************************************)
(* The client.                                                             *)
(***************************************************************************)

\* socket.emit: without a connection socket.io keeps the message.
Emit(copy) ==
  IF conn = None
    THEN buffer' = Append(buffer, copy) /\ UNCHANGED inbox
    ELSE inbox' = [inbox EXCEPT ![conn] = Append(@, copy)] /\ UNCHANGED buffer

\* Offline the promise is rejected at once, but the request goes on.
New(kind, e, online) ==
  [kind |-> kind, event |-> e, tries |-> 1, listening |-> TRUE,
   promise |-> IF online THEN "open" ELSE "rejected"]

Call(kind, e) ==
  LET r == Cardinality(Used) + 1 IN
  /\ r \in Ids
  /\ request' = [request EXCEPT ![r] = New(kind, e, conn # None)]
  /\ Emit(<<r, 1>>)

Subscribe(e) ==
  /\ wanted[e] < MaxCallbacks
  /\ wanted' = [wanted EXCEPT ![e] = @ + 1]
  /\ Call("subscribe", e)
  /\ UNCHANGED <<conn, line, answers, server, clean>>

\* One callback goes, yet the server is told to drop the event.
Unsubscribe(e) ==
  /\ wanted[e] > 0
  /\ wanted' = [wanted EXCEPT ![e] = @ - 1]
  /\ Call("unsubscribe", e)
  /\ clean' = (clean /\ wanted[e] = 1)
  /\ UNCHANGED <<conn, line, answers, server>>

UnsubscribeAny ==
  /\ \E e \in Events : wanted[e] > 0
  /\ wanted' = [e \in Events |-> 0]
  /\ Call("unsubscribe", AnyEvent)
  /\ UNCHANGED <<conn, line, answers, server, clean>>

\* A newer request that a further copy of r would undo.
Overtaken(r) ==
  \E n \in Used : n > r /\ request[n].kind # request[r].kind
                       /\ Matches(request[n].event, request[r].event)

Retry_Forever(r) ==
  /\ request[r].listening
  /\ request[r].promise = "open"
  /\ request' = [request EXCEPT ![r].tries = IF @ < MaxTries THEN @ + 1 ELSE @]
  /\ Emit(<<r, request'[r].tries>>)
  /\ clean' = (clean /\ ~Overtaken(r))
  /\ UNCHANGED <<wanted, conn, line, answers, server>>

Retry_OneMore(r) ==
  /\ request[r].listening
  /\ request[r].tries <= MaxTries
  /\ request' = [request EXCEPT ![r].tries = @ + 1,
                                ![r].promise = IF conn = None THEN "rejected" ELSE @]
  /\ Emit(<<r, request[r].tries + 1>>)
  /\ clean' = (clean /\ ~Overtaken(r))
  /\ UNCHANGED <<wanted, conn, line, answers, server>>

\* The timer of one second: the request is sent again.
Retry(r) ==
  /\ request[r].listening
  /\ request[r].tries < MaxTries
  /\ request' = [request EXCEPT ![r].tries = @ + 1,
                                ![r].promise = IF conn = None THEN "rejected" ELSE @]
  /\ Emit(<<r, request[r].tries + 1>>)
  /\ clean' = (clean /\ ~Overtaken(r))
  /\ UNCHANGED <<wanted, conn, line, answers, server>>

GiveUp(r) ==
  /\ request[r].listening
  /\ request[r].tries = MaxTries
  /\ request' = [request EXCEPT ![r].listening = FALSE,
                                ![r].promise = IF @ = "open" THEN "rejected" ELSE @]
  /\ UNCHANGED <<wanted, conn, buffer, line, inbox, answers, server, clean>>

\* An answer; one that nobody listens for is ignored.
Receive(s) ==
  /\ line[s] = "open"
  /\ answers[s] # <<>>
  /\ answers' = [answers EXCEPT ![s] = Tail(@)]
  /\ LET r == Head(answers[s]) IN
     request' =
       IF request[r].listening
         THEN [request EXCEPT ![r].listening = FALSE,
                              ![r].promise = IF @ = "open" THEN "resolved" ELSE @]
         ELSE request
  /\ UNCHANGED <<wanted, conn, buffer, line, inbox, server, clean>>

\* One subscription request for every callback the client has.
Again(n) ==
  {f \in [1..n -> Events] : \A e \in Events : Cardinality({i \in 1..n : f[i] = e}) = wanted[e]}

\* "connect" at the client: socket.io sends what it kept, then onConnect
\* subscribes all there is.
Connected(s) ==
  /\ line[s] = "accepted"
  /\ line' = [line EXCEPT ![s] = "open"]
  /\ conn' = s
  /\ buffer' = <<>>
  /\ LET from == Cardinality(Used) IN
     \E n \in 0..(MaxRequests - from) : \E f \in Again(n) :
       /\ request' = [r \in Ids |->
                        IF r \in (from + 1)..(from + n)
                          THEN New("subscribe", f[r - from], TRUE) ELSE request[r]]
       /\ inbox' = [inbox EXCEPT ![s] = buffer \o [i \in 1..n |-> <<from + i, 1>>]]
  /\ UNCHANGED <<wanted, answers, server, clean>>

\* The client loses its connection; the server does not know yet.
Lose(s) ==
  /\ line[s] \in {"accepted", "open"}
  /\ line' = [line EXCEPT ![s] = "lost"]
  /\ conn' = None
  /\ answers' = [answers EXCEPT ![s] = <<>>]
  /\ UNCHANGED <<wanted, request, buffer, inbox, server, clean>>

----------------------------------------------------------------------------
(***************************************************************************)
(* The server.                                                             *)
(***************************************************************************)

\* "connect": a new ConnectedClient takes the place of one with its id.
Accept(s) ==
  /\ conn = None
  /\ \A t \in Sockets : IF t < s THEN line[t] \notin {"unused", "accepted"} ELSE line[t] = "unused"
  /\ line' = [line EXCEPT ![s] = "accepted"]
  /\ known' = s
  /\ UNCHANGED <<client, inbox, answers, subs, checks, database, clean>>

\* acknowledgeRequest, to the socket of the request.
Acknowledge(s, copy) ==
  answers' = IF line[s] = "open" THEN [answers EXCEPT ![s] = Append(@, copy[1])] ELSE answers

\* The next message of s, from a client the server knows.
Message(s, kind) ==
  /\ line[s] \in {"open", "lost"}
  /\ inbox[s] # <<>>
  /\ known # None
  /\ request[Head(inbox[s])[1]].kind = kind
  /\ inbox' = [inbox EXCEPT ![s] = Tail(@)]

BeingChecked(k, e) == \E c \in checks : c.client = k /\ Matches(EventOf(c.copy), e)

\* getClientBySocketId finds nobody: no answer.
HandleUnknown(s) ==
  /\ line[s] \in {"open", "lost"}
  /\ inbox[s] # <<>>
  /\ known = None
  /\ inbox' = [inbox EXCEPT ![s] = Tail(@)]
  /\ UNCHANGED <<client, line, answers, server, clean>>

HandleSubscribe_Unguarded(s) ==
  /\ Message(s, "subscribe")
  /\ LET copy == Head(inbox[s]) IN
     /\ checks' = checks \cup {[copy |-> copy, client |-> known, socket |-> s]}
     /\ UNCHANGED answers
     /\ clean' = (clean /\ s = known /\ ~BeingChecked(known, EventOf(copy)))
  /\ UNCHANGED <<client, line, known, subs, database>>

\* "subscribe" up to the access check.
HandleSubscribe(s) ==
  /\ Message(s, "subscribe")
  /\ LET copy == Head(inbox[s]) IN
     /\ IF EventOf(copy) \in EventsAt(known)
          THEN Acknowledge(s, copy) /\ UNCHANGED checks
          ELSE /\ checks' = checks \cup {[copy |-> copy, client |-> known, socket |-> s]}
               /\ UNCHANGED answers
     /\ clean' = (clean /\ s = known /\ ~BeingChecked(known, EventOf(copy)))
  /\ UNCHANGED <<client, line, known, subs, database>>

\* The rest of it.  isOperationAllowed resolves to an object, so the test
\* on its result always passes.
Checked(c) ==
  /\ checks' = checks \ {c}
  /\ subs' = [subs EXCEPT ![c.client] = Append(@, c.copy)]
  /\ database' = database \cup {c.copy}
  /\ Acknowledge(c.socket, c.copy)
  /\ UNCHANGED <<client, line, inbox, known, clean>>

\* Entries an unsubscribe takes off the list l.  Without an event forEach
\* walks over the list that it shortens, and misses every other one.
Removed_Others(l, e) == {i \in DOMAIN l : ~Matches(EventOf(l[i]), e)}

Removed(l, e) ==
  IF e = AnyEvent THEN {i \in DOMAIN l : i % 2 = 1}
             ELSE {i \in DOMAIN l : EventOf(l[i]) = e}

Without(l, gone) ==
  LET keep == {i \in DOMAIN l : i \notin gone}
      at[j \in 1..Cardinality(keep)] ==
        CHOOSE i \in keep : Cardinality({k \in keep : k <= i}) = j
  IN [j \in 1..Cardinality(keep) |-> l[at[j]]]

HandleUnsubscribe(s) ==
  /\ Message(s, "unsubscribe")
  /\ LET copy == Head(inbox[s])
         e == EventOf(copy)
         gone == Removed(subs[known], e)
     IN /\ subs' = [subs EXCEPT ![known] = Without(@, gone)]
        /\ database' = database \ {subs[known][i] : i \in gone}
        /\ Acknowledge(s, copy)
        /\ clean' = /\ clean
                    /\ s = known
                    /\ ~BeingChecked(known, e)
                    /\ e = AnyEvent => Len(subs[known]) < 2
  /\ UNCHANGED <<client, line, known, checks>>

Disconnect_OwnList(s) ==
  /\ line[s] = "lost"
  /\ line' = [line EXCEPT ![s] = "closed"]
  /\ inbox' = [inbox EXCEPT ![s] = <<>>]
  /\ subs' = [subs EXCEPT ![s] = <<>>]
  /\ known' = None
  /\ clean' = /\ clean
              /\ known = s \/ (known = None /\ subs[s] = <<>>)
              /\ ~BeingChecked(s, AnyEvent)
  /\ UNCHANGED <<client, answers, checks, database>>

\* "disconnect": the client with this id goes, whatever connection it is on
\* by now.
Disconnect(s) ==
  /\ line[s] = "lost"
  /\ line' = [line EXCEPT ![s] = "closed"]
  /\ inbox' = [inbox EXCEPT ![s] = <<>>]
  /\ IF known = None
       THEN UNCHANGED <<subs, database>>
       ELSE /\ subs' = [subs EXCEPT ![known] = <<>>]
            /\ database' = database \ Items(subs[known])
  /\ known' = None
  /\ clean' = /\ clean
              /\ known = s \/ (known = None /\ subs[s] = <<>>)
              /\ ~BeingChecked(s, AnyEvent)
  /\ UNCHANGED <<client, answers, checks>>

----------------------------------------------------------------------------
Timer(r) == Retry(r) \/ GiveUp(r)

Handle(s) == HandleUnknown(s) \/ HandleSubscribe(s) \/ HandleUnsubscribe(s)

Next ==
  \/ \E e \in Events : Subscribe(e) \/ Unsubscribe(e)
  \/ UnsubscribeAny
  \/ \E r \in Ids : Timer(r)
  \/ \E s \in Sockets : \/ Receive(s) \/ Connected(s) \/ Lose(s)
                        \/ Accept(s) \/ Handle(s) \/ Disconnect(s)
  \/ \E c \in checks : Checked(c)

Spec == Init /\ [][Next]_vars

\* The timers of the client fire; nothing is asked of the server.
FairSpec == Spec /\ \A r \in Ids : WF_vars(Timer(r))

----------------------------------------------------------------------------
(***************************************************************************)
(* Every callback at the database is in the list of a client, and every    *)
(* entry of a list is at the database: what is missing there could never   *)
(* be unsubscribed again, and what is missing here would never fire.  It   *)
(* holds through repeated requests, disconnections and skipped entries.    *)
(***************************************************************************)
ListsAgree == database = UNION {Items(subs[s]) : s \in Sockets}

(***************************************************************************)
(* When nothing of its connection is on the way to the server, the client  *)
(* is served what it wants.  No list holds an event twice, and nothing is  *)
(* kept for connections that are gone.  "clean" names all that breaks it:  *)
(* a message or a disconnection during an access check, a message or the   *)
(* end of a connection the client has replaced, a retry that undoes a      *)
(* newer request, an unsubscribe of one callback among several, and one of *)
(* all events with several entries.  A request given up is not among them. *)
(***************************************************************************)
AtRest ==
  /\ conn # None
  /\ inbox[conn] = <<>>
  /\ \A c \in checks : c.client # conn

InSync ==
  clean =>
    /\ AtRest => EventsAt(conn) = {e \in Events : wanted[e] > 0}
    /\ \A s \in Sockets : \A i, j \in DOMAIN subs[s] :
         EventOf(subs[s][i]) = EventOf(subs[s][j]) => i = j
    /\ \A s \in Sockets : line[s] = "closed" => subs[s] = <<>>

(***************************************************************************)
(* Every websocketRequest settles: by an answer, for want of a connection, *)
(* or after MaxTries unanswered copies.                                    *)
(***************************************************************************)
Settles ==
  \A r \in Ids : request[r].kind # "none" ~> request[r].promise # "open"
=============================================================================
