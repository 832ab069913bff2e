---------------------------- MODULE ClientProcess ----------------------------
(***************************************************************************)
(* One client process between __do_request and its exit: the thread that   *)
(* runs initAllServices and starts the other two, the reader thread        *)
(* (__deamon_read with tg_process_reader.c), the response thread           *)
(* (__deamon_response with tg_process_response.c), the client's socket and *)
(* the pipe from the main process.  The event queue between the threads is *)
(* EventFifo, which EventQueue implements.                                 *)
(*                                                                         *)
(* A byte stream is a sequence of units: a whole request, the start of one *)
(* (length and part of the data) and its rest, a message with a length     *)
(* that is not positive, and a runt of less than four bytes.               *)
(***************************************************************************)
EXTENDS Integers, Sequences, FiniteSets

CONSTANTS
    MaxUnits,       \* bound of the model: units a client sends in all
    MaxPosts,       \* bound of the model: messages the main process sends
    QueueBound,     \* bound of the model: events queued at a time
    NULL

ASSUME BoundAssumption == MaxUnits \in Nat /\ MaxPosts \in Nat /\ QueueBound \in Nat \ {0}

\* Requests have the number of the unit that started them; 0 is the number
\* of a request that was put together from the wrong bytes.
Id == 0 .. MaxUnits

EventType == {"INIT", "REQUEST", "LENGTH_ERROR", "QUIT", "SHUT_DOWN", "CLOSED_BY_ADMIN"}

Event == [type : EventType, id : Id]

ASSUME NullAssumption == NULL \notin Event

Ev(type) == [type |-> type, id |-> 0]

Request(id) == [type |-> "REQUEST", id |-> id]

Unit == [kind : {"request", "start", "rest", "length", "runt"}, id : Id]

VARIABLES
    life,       \* "running", "exited" by exit(0) or "killed" by SIGPIPE
    started,    \* __do_request has created the two threads
    rpc,        \* where the reader thread is
    rReady,     \* descriptors of rSet still to be served
    rEvent,     \* msgType and pData it has read
    cpc,        \* where the response thread is
    queue, taken,       \* the event queue: see EventFifo
    inbox,      \* units that arrived and were not read
    sent,       \* units the client has sent
    partial,    \* the request whose rest it has yet to send, or 0
    peer,       \* the client's end of the connection
    full,       \* the client does not read: a write would block
    pipe,       \* messages of the main process not read
    posted,     \* how many it has sent
    inits,      \* calls of initAllServices that returned
    released,   \* releaseAllServices was called
    freed,      \* destroyClient freed the TGClient both threads use
    accepted,   \* ghost: numbers of the requests read, in order
    handled     \* ghost: numbers of the requests handled, in order

netVars    == <<inbox, sent, partial, peer, full, pipe, posted>>
readerVars == <<rpc, rReady, rEvent, accepted>>
queueVars  == <<queue, taken>>
stateVars  == <<inits, released, freed, handled>>
vars       == <<life, started, readerVars, cpc, queueVars, netVars, stateVars>>

Queue == INSTANCE EventFifo WITH Idle <- NULL

Init ==
    /\ life = "running" /\ started = FALSE
    /\ rpc = "hello" /\ rReady = {} /\ rEvent = NULL
    /\ cpc = "idle"
    /\ Queue!Init
    /\ inbox = <<>> /\ sent = 0 /\ partial = 0 /\ peer = "open" /\ full = FALSE
    /\ pipe = <<>> /\ posted = 0
    /\ inits = 0 /\ released = FALSE /\ freed = FALSE
    /\ accepted = <<>> /\ handled = <<>>

-----------------------------------------------------------------------------
(* The client and the main process                                         *)

\* The client sends another unit; after the start of a request, its rest.
ClientSend(kind) ==
    /\ peer = "open" /\ sent < MaxUnits
    /\ (kind = "rest") <=> (partial # 0)
    /\ sent' = sent + 1
    /\ partial' = IF kind = "start" THEN sent' ELSE 0
    /\ inbox' = Append(inbox, [kind |-> kind, id |-> IF kind = "rest" THEN partial ELSE sent'])
    /\ UNCHANGED <<life, started, readerVars, cpc, queueVars, peer, full, pipe, posted, stateVars>>

\* It closes the connection, or resets it, which may discard what was not read.
ClientClose(how) ==
    /\ peer = "open"
    /\ peer' = how
    /\ inbox' \in IF how = "reset" THEN {inbox, <<>>} ELSE {inbox}
    /\ UNCHANGED <<life, started, readerVars, cpc, queueVars, sent, partial, full, pipe, posted, stateVars>>

\* It stops to read what it is sent, or goes on.
ClientFlow ==
    /\ peer = "open"
    /\ full' = ~full
    /\ UNCHANGED <<life, started, readerVars, cpc, queueVars, inbox, sent, partial, peer, pipe, posted,
                   stateVars>>

\* sendSignalToAllClients at a shutdown, or write_data for command 1041.
MainPost(type) ==
    /\ posted < MaxPosts
    /\ pipe' = Append(pipe, type)
    /\ posted' = posted + 1
    /\ UNCHANGED <<life, started, readerVars, cpc, queueVars, inbox, sent, partial, peer, full, stateVars>>

\* The model stops with the process.
Environment ==
  /\ life = "running"
  /\ \/ \E kind \in {"request", "start", "rest", "length", "runt"} : ClientSend(kind)
     \/ \E how \in {"closed", "reset"} : ClientClose(how)
     \/ ClientFlow
     \/ \E type \in {"SHUT_DOWN", "CLOSED_BY_ADMIN"} : MainPost(type)

-----------------------------------------------------------------------------
(* __do_request *)

\* Mutant: the threads are started first.
StartWithoutInit ==
    /\ life = "running" /\ ~started
    /\ started' = TRUE
    /\ UNCHANGED <<life, readerVars, cpc, queueVars, netVars, stateVars>>

DoRequest ==
    /\ life = "running" /\ ~started
    /\ inits' = inits + 1
    /\ started' = TRUE
    /\ UNCHANGED <<life, readerVars, cpc, queueVars, netVars, released, freed, handled>>

-----------------------------------------------------------------------------
(* The reader thread *)

ReaderRuns == life = "running" /\ started

\* Where the reader goes with descriptors ready left to be served.
NextRead(ready) ==
    IF ready # {} THEN "read" ELSE IF freed THEN "spin" ELSE "select"

\* The first event tells the response thread to initialise the services.
Hello ==
    /\ ReaderRuns /\ rpc = "hello"
    /\ rEvent' = Ev("INIT")
    /\ rpc' = "push"
    /\ UNCHANGED <<life, started, rReady, accepted, cpc, queueVars, netVars, stateVars>>

\* __send_thread_signal, then the next descriptor or the next select, which
\* fails again and again once destroyClient has closed the pipe ("spin").
Push ==
    /\ ReaderRuns /\ rpc = "push"
    /\ Len(queue) < QueueBound
    /\ Queue!Put(rEvent)
    /\ rEvent' = NULL
    /\ rpc' = NextRead(rReady)
    /\ UNCHANGED <<life, started, rReady, accepted, cpc, netVars, stateVars>>

\* Mutant: maxfd does not cover the pipe.
SelectSocketOnly ==
    /\ ReaderRuns /\ rpc = "select"
    /\ inbox # <<>> \/ peer # "open" \/ freed
    /\ rReady' = {"sock"}
    /\ rpc' = "read"
    /\ UNCHANGED <<life, started, rEvent, accepted, cpc, queueVars, netVars, stateVars>>

\* select returns the descriptors that can be read: the socket also at its
\* end, to which destroyClient brings it while select waits.
Select ==
    /\ ReaderRuns /\ rpc = "select"
    /\ rReady' = {d \in {"sock", "pipe"} :
                    \/ d = "sock" /\ (inbox # <<>> \/ peer # "open" \/ freed)
                    \/ d = "pipe" /\ pipe # <<>> /\ ~freed}
    /\ rReady' # {}
    /\ rpc' = "read"
    /\ UNCHANGED <<life, started, rEvent, accepted, cpc, queueVars, netVars, stateVars>>

\* Bytes that are not the beginning of a message.
Middle == [kind |-> "rest", id |-> 0]

\* What is left of the stream if a read stopped before unit n + 1 or inside it.
Left(n) ==
    LET rest == SubSeq(inbox, n + 1, Len(inbox))
    IN  {rest} \cup (IF rest = <<>> THEN {} ELSE {<<Middle>> \o Tail(rest)})

\* What is left if it stopped inside the first unit, which is cut only once.
LeftOfFirst == IF inbox[1] = Middle THEN {} ELSE {<<Middle>> \o Tail(inbox)}

\* What a read returned makes event e.
Got(e) ==
    /\ rEvent' = e
    /\ rpc' = "push"
    /\ accepted' = IF e.type = "REQUEST" THEN Append(accepted, e.id) ELSE accepted

\* The data is not complete yet: read_data_from_cli reads on, without select.
ReadOn(id) ==
    /\ rEvent' = Request(id)
    /\ rpc' = "body"
    /\ UNCHANGED accepted

\* read_data_from_cli, first read: it takes n or more of the units that arrived,
\* makes an event of the first message and drops the bytes behind it.  The
\* middle of a message, or a runt and what follows it, can be read as anything.
ReadSocket ==
    /\ ReaderRuns /\ rpc = "read" /\ "sock" \in rReady /\ ~freed
    /\ inbox # <<>>
    /\ rReady' = rReady \ {"sock"}
    /\ \E n \in 1 .. Len(inbox) :
          LET u == inbox[1]
              garbled == u.kind = "rest" \/ (u.kind = "runt" /\ n > 1)
          IN  \/ /\ inbox' \in Left(n)
                 /\ \/ u.kind = "request" /\ Got(Request(u.id))
                    \/ u.kind = "start" /\ n > 1 /\ Got(Request(u.id))
                    \/ u.kind = "length" /\ Got(Ev("LENGTH_ERROR"))
              \/ /\ inbox' = Tail(inbox)
                 /\ \/ u.kind = "start" /\ ReadOn(u.id)
                    \/ u.kind \in {"runt", "rest"} /\ Got(Ev("QUIT"))
              \/ /\ garbled
                 /\ inbox' \in Left(n) \cup LeftOfFirst
                 /\ Got(Ev("LENGTH_ERROR")) \/ Got(Request(0)) \/ ReadOn(0)
    /\ UNCHANGED <<life, started, cpc, queueVars, sent, partial, peer, full, pipe, posted, stateVars>>

\* The inner loop reads the rest of the data, or takes other bytes for it.
ReadBody ==
    /\ ReaderRuns /\ rpc = "body"
    /\ inbox # <<>>
    /\ IF inbox[1].kind = "rest" /\ inbox[1].id = rEvent.id /\ rEvent.id # 0
       THEN Got(rEvent) /\ inbox' = Tail(inbox)
       ELSE \/ Got(Request(0)) /\ inbox' \in Left(1) \cup LeftOfFirst
            \/ ReadOn(0) /\ inbox' = Tail(inbox)
    /\ UNCHANGED <<life, started, rReady, cpc, queueVars, sent, partial, peer, full, pipe, posted, stateVars>>

\* Mutant: at the end of the stream the inner loop tries again.
ReadEndOuterOnly ==
    /\ ReaderRuns
    /\ rpc = "read" /\ "sock" \in rReady /\ ~freed
    /\ inbox = <<>> /\ peer # "open"
    /\ Got(Ev("QUIT"))
    /\ rReady' = rReady \ {"sock"}
    /\ UNCHANGED <<life, started, cpc, queueVars, netVars, stateVars>>

\* L_EXIT: end of the stream, or an error, in the first read or the inner one.
ReadEnd ==
    /\ ReaderRuns
    /\ \/ rpc = "read" /\ "sock" \in rReady /\ ~freed
       \/ rpc = "body"
    /\ inbox = <<>> /\ (peer # "open" \/ freed)
    /\ Got(Ev("QUIT"))
    /\ rReady' = rReady \ {"sock"}
    /\ UNCHANGED <<life, started, cpc, queueVars, netVars, stateVars>>

\* read_data_from_main_process: one read takes all that is in the pipe, and
\* the first message counts.
ReadPipe ==
    /\ ReaderRuns /\ rpc = "read" /\ rReady = {"pipe"} /\ ~freed
    /\ Got(Ev(pipe[1]))
    /\ pipe' = <<>>
    /\ rReady' = {}
    /\ UNCHANGED <<life, started, cpc, queueVars, inbox, sent, partial, peer, full, posted, stateVars>>

\* The TGClient was freed between select and read: the descriptor read is
\* whatever the memory holds, and so is the event made of it, if any is.
ReadStale ==
    /\ ReaderRuns /\ rpc = "read" /\ freed
    /\ \E d \in rReady : rReady' = rReady \ {d}
    /\ \/ \E type \in EventType : Got(Ev(type))
       \/ rpc' = NextRead(rReady') /\ UNCHANGED <<rEvent, accepted>>
    /\ UNCHANGED <<life, started, cpc, queueVars, netVars, stateVars>>

ReaderStep ==
    \/ Hello \/ Push \/ Select \/ ReadSocket \/ ReadBody \/ ReadEnd \/ ReadPipe \/ ReadStale

-----------------------------------------------------------------------------
(* The response thread *)

ResponseRuns == life = "running" /\ started

\* What handle_response does first for each type of event.
FirstStep ==
    [INIT |-> "init", REQUEST |-> "service", LENGTH_ERROR |-> "notice",
     QUIT |-> "release", SHUT_DOWN |-> "farewell", CLOSED_BY_ADMIN |-> "farewell"]

\* Mutant: the queue is served newest first.
TakeNewest ==
    /\ ResponseRuns /\ cpc = "idle"
    /\ taken = NULL /\ queue # <<>>
    /\ taken' = queue[Len(queue)]
    /\ queue' = SubSeq(queue, 1, Len(queue) - 1)
    /\ cpc' = FirstStep[taken'.type]
    /\ UNCHANGED <<life, started, readerVars, netVars, stateVars>>

\* Mutant: the first event is not removed from the queue.
TakeKeeps ==
    /\ ResponseRuns /\ cpc = "idle"
    /\ taken = NULL /\ queue # <<>>
    /\ taken' = Head(queue)
    /\ cpc' = FirstStep[taken'.type]
    /\ UNCHANGED <<life, started, readerVars, queue, netVars, stateVars>>

\* The event at the head of the queue, when the thread holds none.
Take ==
    /\ ResponseRuns /\ cpc = "idle"
    /\ Queue!Take
    /\ cpc' = FirstStep[taken'.type]
    /\ UNCHANGED <<life, started, readerVars, netVars, stateVars>>

\* handle_response_client_init calls initAllServices once more.
HandleInit ==
    /\ ResponseRuns /\ cpc = "init"
    /\ inits' = inits + 1
    /\ cpc' = "done"
    /\ UNCHANGED <<life, started, readerVars, queueVars, netVars, released, freed, handled>>

\* handle_response_client_request, until its first write: the service returned
\* data ("header", then "data"); the request is illegal, the service unknown or
\* its data malformed ("notice"); the service returned NULL ("done").
CallService ==
    /\ ResponseRuns /\ cpc = "service"
    /\ cpc' \in {"header", "notice", "done"}
    /\ UNCHANGED <<life, started, readerVars, queueVars, netVars, stateVars>>

AfterWrite == [header |-> "data", data |-> "done", notice |-> "done", farewell |-> "destroy"]

\* A write to the client.  It blocks while the client does not read.  Written
\* to a client that closed, it may bring a reset; after a reset it fails, and
\* SIGPIPE, which nothing catches, may end the process.
Write ==
    /\ ResponseRuns /\ cpc \in DOMAIN AfterWrite
    /\ ~(peer = "open" /\ full)
    /\ \/ /\ cpc' = AfterWrite[cpc]
          /\ peer' \in IF peer = "closed" THEN {"closed", "reset"} ELSE {peer}
          /\ inbox' \in IF peer' # peer THEN {inbox, <<>>} ELSE {inbox}
          /\ UNCHANGED life
       \/ /\ peer = "reset"
          /\ life' = "killed"
          /\ UNCHANGED <<cpc, peer, inbox>>
    /\ UNCHANGED <<started, readerVars, queueVars, sent, partial, full, pipe, posted, stateVars>>

\* The handler returned: freeTGEvent.
FinishEvent ==
    /\ ResponseRuns /\ cpc = "done"
    /\ Queue!Done
    /\ handled' = IF taken.type = "REQUEST" THEN Append(handled, taken.id) ELSE handled
    /\ cpc' = "idle"
    /\ UNCHANGED <<life, started, readerVars, netVars, inits, released, freed>>

\* handle_response_client_quit starts with releaseAllServices.
ReleaseServices ==
    /\ ResponseRuns /\ cpc = "release"
    /\ released' = TRUE
    /\ cpc' = "destroy"
    /\ UNCHANGED <<life, started, readerVars, queueVars, netVars, inits, freed, handled>>

\* destroyClient (shutdown of the socket, close of the pipes, free), release.
Destroy ==
    /\ ResponseRuns /\ cpc = "destroy"
    /\ freed' = TRUE
    /\ cpc' = "exit"
    /\ UNCHANGED <<life, started, readerVars, queueVars, netVars, inits, released, handled>>

\* sleep(2) if the server ends the connection, and exit(0).
Exit ==
    /\ ResponseRuns /\ cpc = "exit"
    /\ life' = "exited"
    /\ UNCHANGED <<started, readerVars, cpc, queueVars, netVars, stateVars>>

ResponseStep ==
    \/ Take \/ HandleInit \/ CallService \/ Write \/ FinishEvent
    \/ ReleaseServices \/ Destroy \/ Exit

-----------------------------------------------------------------------------
Next == Environment \/ DoRequest \/ ReaderStep \/ ResponseStep

\* The three threads are scheduled and plugin functions return; a blocked write
\* goes on when the client reads again and again.  The client and the main
\* process promise nothing.
Fairness ==
    /\ WF_vars(DoRequest) /\ WF_vars(ReaderStep) /\ WF_vars(ResponseStep)
    /\ SF_vars(Write)

SafetySpec == Init /\ [][Next]_vars

Spec == SafetySpec /\ Fairness

-----------------------------------------------------------------------------
\* Type correctness.
TypeOK ==
    /\ life \in {"running", "exited", "killed"}
    /\ started \in BOOLEAN
    /\ rpc \in {"hello", "push", "select", "read", "body", "spin"}
    /\ rReady \in SUBSET {"sock", "pipe"}
    /\ rEvent \in Event \cup {NULL}
    /\ cpc \in {"idle", "init", "service", "done", "release", "destroy", "exit"}
               \cup DOMAIN AfterWrite
    /\ queue \in Seq(Event) /\ Len(queue) <= QueueBound
    /\ taken \in Event \cup {NULL}
    /\ inbox \in Seq(Unit) /\ sent \in 0 .. MaxUnits /\ partial \in Id
    /\ peer \in {"open", "closed", "reset"} /\ full \in BOOLEAN
    /\ pipe \in Seq({"SHUT_DOWN", "CLOSED_BY_ADMIN"}) /\ posted \in 0 .. MaxPosts
    /\ inits \in 0 .. 2 /\ released \in BOOLEAN /\ freed \in BOOLEAN
    /\ accepted \in Seq(Id) /\ handled \in Seq(Id)

\* What a plugin can rely on (tg_service.h): its init has returned, both times
\* it is called, before it gets a request or its release, and it gets neither
\* after its release; whatever the client and the main process send and
\* however the reader gets ahead of the response thread.
ServiceProtocol ==
    /\ cpc = "service" => inits = 2 /\ ~released
    /\ released => inits = 2

\* The events between the threads, the oldest first: the one in hand, those queued and
\* the one being pushed.
Pending ==
    (IF taken = NULL THEN <<>> ELSE <<taken>>) \o queue
    \o (IF rpc = "push" THEN <<rEvent>> ELSE <<>>)

\* How many of the first n events are requests.
Requests(events, n) == Cardinality({m \in 1 .. n : events[m].type = "REQUEST"})

\* Requests are handled in the order in which they were read, each of them once, and none
\* is lost between the threads: those read are those handled and then, one by one, the
\* pending ones, whatever other events are pending between them.
InOrder(read, done, events) ==
    /\ \A k \in 1 .. Len(done) : read[k] = done[k]
    /\ Len(read) = Len(done) + Requests(events, Len(events))
    /\ \A n \in 1 .. Len(events) :
          events[n].type = "REQUEST" => read[Len(done) + Requests(events, n)] = events[n].id

RequestsInOrder == InOrder(accepted, handled, Pending)

\* When the client is gone, its process ends, however many requests are
\* pending and whatever the reader was in the middle of.
ClientGoneEnds == peer # "open" ~> life # "running"

\* A message of the main process, to shut down or to close this connection,
\* ends the process, provided the client does not leave the reader in the
\* middle of a message for ever nor the response thread in a write.
ClientCooperates == []<>(rpc # "body") /\ []<>(~full)

MessageEnds == ClientCooperates => (pipe # <<>> ~> life # "running")

\* What tg_process_admin.c says of command 1041: "shutdown client accroding to
\* pid".
AdminCloses == pipe # <<>> ~> life # "running"

\* What tg_service.h says of release: "when client connection is destroyed,
\* then this function will be call".
ReleasedAtEnd == life # "running" => released
=============================================================================
