------------------------- MODULE ClientProcessProofs -------------------------
(***************************************************************************)
(* Type correctness of ClientProcess, ServiceProtocol and RequestsInOrder, *)
(* proved for any number of units, messages and queued events.             *)
(*                                                                         *)
(* The services depend on one event: INIT is pushed first, so it is taken  *)
(* first, and until it has been handled no request is.  Only after the     *)
(* TGClient was freed may the reader push another, which comes too late.   *)
(*                                                                         *)
(* For the order of the requests, the three places of an event, in the     *)
(* hand of a thread or in the queue, make one sequence: a read adds to its *)
(* end, a push and a take leave it as it is, and its first event is the    *)
(* next that is handled.                                                   *)
(***************************************************************************)
EXTENDS ClientProcess, SequenceTheorems, FunctionTheorems, FiniteSetTheorems, TLAPS

-----------------------------------------------------------------------------
(* The invariant *)

\* The reader is about to push INIT.
PushesInit == rpc = "push" /\ rEvent.type = "INIT"

NoInit(s) == \A n \in 1 .. Len(s) : s[n].type # "INIT"

\* Neither the reader has another INIT nor the queue.
NoOther == rpc # "hello" /\ ~PushesInit /\ NoInit(queue)

\* INIT is to be made; being pushed; first in the queue; being handled; handled.
Greeting     == /\ rpc = "hello" /\ queue = <<>> /\ cpc = "idle"
                /\ inits = IF started THEN 1 ELSE 0
Pushing      == /\ PushesInit /\ queue = <<>> /\ cpc = "idle"
                /\ started /\ inits = 1
Queued       == /\ rpc # "hello" /\ ~PushesInit
                /\ queue # <<>> /\ queue[1].type = "INIT"
                /\ \A n \in 2 .. Len(queue) : queue[n].type # "INIT"
                /\ cpc = "idle" /\ started /\ inits = 1
Initialising == NoOther /\ cpc = "init" /\ started /\ inits = 1
Initialised  == /\ rpc # "hello" /\ started /\ inits = 2
                /\ cpc # "init"
                /\ cpc = "exit" \/ NoOther

InitFirst == Greeting \/ Pushing \/ Queued \/ Initialising \/ Initialised

\* Where the response thread is after the release and after destroyClient.
EndOK ==
    /\ released => cpc \in {"destroy", "exit"}
    /\ freed => cpc = "exit"

\* What the reader holds.
ReaderOK ==
    /\ rpc \in {"push", "body"} => rEvent \in Event
    /\ rpc = "body" => rEvent.type = "REQUEST"
    /\ ~freed /\ "pipe" \in rReady => pipe # <<>>

IInv == TypeOK /\ ReaderOK /\ EndOK /\ InitFirst

-----------------------------------------------------------------------------
(* Lemmas *)

\* What a read leaves is a sequence of units.
LEMMA LeftTyped ==
    ASSUME inbox \in Seq(Unit), NEW n \in 1 .. Len(inbox)
    PROVE  Left(n) \subseteq Seq(Unit) /\ LeftOfFirst \subseteq Seq(Unit)
<1> DEFINE rest == SubSeq(inbox, n + 1, Len(inbox))
<1>1. Middle \in Unit
  BY BoundAssumption DEF Middle, Unit, Id
<1>2. rest \in Seq(Unit)
  <2>1. \A k \in n + 1 .. Len(inbox) : inbox[k] \in Unit
    OBVIOUS
  <2> QED BY <2>1, SubSeqProperties
<1>3. \A s \in Seq(Unit) : s # <<>> => <<Middle>> \o Tail(s) \in Seq(Unit)
  <2> TAKE s \in Seq(Unit)
  <2> HAVE s # <<>>
  <2>1. Tail(s) \in Seq(Unit)
    OBVIOUS
  <2>2. <<Middle>> \in Seq(Unit)
    BY <1>1
  <2> QED BY <2>1, <2>2, ConcatProperties
<1>4. inbox # <<>>
  OBVIOUS
<1> HIDE DEF rest
<1>5. Left(n) = {rest} \cup (IF rest = <<>> THEN {} ELSE {<<Middle>> \o Tail(rest)})
  BY DEF Left, rest
<1> QED BY <1>2, <1>3, <1>4, <1>5 DEF LeftOfFirst

\* A step of the reader that pushes nothing and makes no INIT, or comes too late.
LEMMA ReaderKeeps ==
    ASSUME InitFirst, EndOK, rpc \notin {"hello", "push"}, rpc' # "hello",
           UNCHANGED <<started, cpc, queue, inits>>,
           ~PushesInit' \/ freed
    PROVE  InitFirst'
  BY DEF InitFirst, Greeting, Pushing, Queued, Initialising, Initialised, NoOther, NoInit,
         EndOK, PushesInit

\* A step that changes none of what InitFirst is about.
LEMMA OthersKeep ==
    ASSUME InitFirst, UNCHANGED <<started, rpc, rEvent, cpc, queue, inits>>
    PROVE  InitFirst'
  BY DEF InitFirst, Greeting, Pushing, Queued, Initialising, Initialised, NoOther, NoInit,
         PushesInit

\* A step of the response thread after the initialisation.
LEMMA ResponseKeeps ==
    ASSUME InitFirst, cpc \notin {"idle", "init"}, cpc' # "init", cpc = "exit" => cpc' = "exit",
           UNCHANGED <<started, rpc, rEvent, queue, inits>>
    PROVE  InitFirst' /\ inits = 2
  BY DEF InitFirst, Greeting, Pushing, Queued, Initialising, Initialised, NoOther, NoInit,
         PushesInit

-----------------------------------------------------------------------------
(* Init, the environment and __do_request *)

LEMMA InitIInv == Init => IInv
<1> SUFFICES ASSUME Init PROVE IInv
    OBVIOUS
<1> USE DEF Init, Queue!Init
<1>1. TypeOK
  <2>1. 0 \in 0 .. MaxUnits /\ 0 \in 0 .. MaxPosts /\ 0 <= QueueBound
    BY BoundAssumption
  <2>2. <<>> \in Seq(Event) /\ <<>> \in Seq(Unit) /\ <<>> \in Seq(Id) /\ Len(<<>>) = 0
        /\ <<>> \in Seq({"SHUT_DOWN", "CLOSED_BY_ADMIN"})
    BY EmptySeq
  <2>3. 0 \in Id /\ queue = <<>> /\ taken = NULL
    BY BoundAssumption DEF Id
  <2>4. /\ queue \in Seq(Event) /\ Len(queue) <= QueueBound
        /\ inbox \in Seq(Unit) /\ pipe \in Seq({"SHUT_DOWN", "CLOSED_BY_ADMIN"})
        /\ accepted \in Seq(Id) /\ handled \in Seq(Id)
    BY <2>1, <2>2, <2>3
  <2>5. rReady \in SUBSET {"sock", "pipe"} /\ inits \in 0 .. 2 /\ taken \in Event \cup {NULL}
        /\ sent \in 0 .. MaxUnits /\ posted \in 0 .. MaxPosts /\ partial \in Id
    BY <2>1, <2>3
  <2> QED BY <2>4, <2>5 DEF TypeOK
<1>2. ReaderOK /\ EndOK /\ InitFirst
  BY DEF ReaderOK, EndOK, InitFirst, Greeting
<1> QED BY <1>1, <1>2 DEF IInv

LEMMA EnvironmentKeeps == IInv /\ Environment => IInv'
<1> SUFFICES ASSUME IInv, Environment PROVE IInv'
    OBVIOUS
<1> USE BoundAssumption DEF IInv, queueVars, readerVars, stateVars, netVars
<1>1. ASSUME NEW kind \in {"request", "start", "rest", "length", "runt"}, ClientSend(kind)
      PROVE  IInv'
  <2>1. [kind |-> kind, id |-> IF kind = "rest" THEN partial ELSE sent'] \in Unit
    BY <1>1 DEF ClientSend, TypeOK, Unit, Id
  <2>2. TypeOK'
    BY <1>1, <2>1 DEF ClientSend, TypeOK, Id
  <2>3. ReaderOK' /\ EndOK'
    BY <1>1 DEF ClientSend, ReaderOK, EndOK
  <2> QED BY <1>1, <2>2, <2>3, OthersKeep DEF ClientSend
<1>2. ASSUME NEW how \in {"closed", "reset"}, ClientClose(how) PROVE IInv'
  <2>1. inbox' \in Seq(Unit) /\ peer' \in {"open", "closed", "reset"}
    BY <1>2, EmptySeq DEF ClientClose, TypeOK
  <2>2. TypeOK'
    BY <1>2, <2>1 DEF ClientClose, TypeOK
  <2>3. ReaderOK' /\ EndOK'
    BY <1>2 DEF ClientClose, ReaderOK, EndOK
  <2> QED BY <1>2, <2>2, <2>3, OthersKeep DEF ClientClose
<1>3. CASE ClientFlow
  <2>1. TypeOK' /\ ReaderOK' /\ EndOK'
    BY <1>3 DEF ClientFlow, TypeOK, ReaderOK, EndOK
  <2> QED BY <1>3, <2>1, OthersKeep DEF ClientFlow
<1>4. ASSUME NEW type \in {"SHUT_DOWN", "CLOSED_BY_ADMIN"}, MainPost(type) PROVE IInv'
  <2>1. TypeOK'
    BY <1>4 DEF MainPost, TypeOK
  <2>2. pipe' # <<>>
    BY <1>4 DEF MainPost, TypeOK
  <2>3. ReaderOK' /\ EndOK'
    BY <1>4, <2>2 DEF MainPost, ReaderOK, EndOK
  <2> QED BY <1>4, <2>1, <2>3, OthersKeep DEF MainPost
<1> QED BY <1>1, <1>2, <1>3, <1>4 DEF Environment

LEMMA DoRequestKeeps == IInv /\ DoRequest => IInv'
<1> SUFFICES ASSUME IInv, DoRequest PROVE IInv'
    OBVIOUS
<1> USE DEF IInv, DoRequest, queueVars, readerVars, netVars
<1>1. InitFirst' /\ inits' = 1
  BY DEF InitFirst, Greeting, Pushing, Queued, Initialising, Initialised
<1>2. TypeOK' /\ ReaderOK' /\ EndOK'
  BY <1>1 DEF TypeOK, ReaderOK, EndOK
<1> QED BY <1>1, <1>2

-----------------------------------------------------------------------------
(* The reader thread *)

\* An event the reader makes from what it read.
LEMMA GotTyped ==
    ASSUME TypeOK, NEW e \in Event, Got(e)
    PROVE  /\ rEvent' = e /\ rpc' = "push" /\ accepted' \in Seq(Id)
  BY DEF Got, TypeOK, Event

LEMMA EventsTyped ==
    /\ \A type \in EventType : Ev(type) \in Event
    /\ \A id \in Id : Request(id) \in Event
  BY BoundAssumption DEF Ev, Request, Event, EventType, Id

LEMMA HelloKeeps == IInv /\ Hello => IInv'
<1> SUFFICES ASSUME IInv, Hello PROVE IInv'
    OBVIOUS
<1> USE DEF IInv, Hello, ReaderRuns, queueVars, netVars, stateVars
<1>1. rEvent' \in Event /\ rEvent'.type = "INIT"
  BY EventsTyped DEF EventType, Ev
<1>2. TypeOK' /\ ReaderOK' /\ EndOK'
  BY <1>1 DEF TypeOK, ReaderOK, EndOK
<1>3. InitFirst'
  BY <1>1 DEF InitFirst, Greeting, Pushing, Queued, Initialising, Initialised, NoOther, PushesInit
<1> QED BY <1>2, <1>3

LEMMA PushKeeps == IInv /\ Push => IInv'
<1> SUFFICES ASSUME IInv, Push PROVE IInv'
    OBVIOUS
<1> USE DEF IInv, Push, ReaderRuns, netVars, stateVars
<1>1. rEvent \in Event /\ queue \in Seq(Event)
  BY DEF ReaderOK, TypeOK
<1>2. queue' = Append(queue, rEvent) /\ taken' = taken
  BY DEF Queue!Put
<1>3. /\ queue' \in Seq(Event) /\ Len(queue') = Len(queue) + 1
      /\ queue'[Len(queue) + 1] = rEvent
      /\ \A n \in 1 .. Len(queue) : queue'[n] = queue[n]
  BY <1>1, <1>2, AppendProperties
<1>4. rpc' \in {"read", "spin", "select"}
  BY DEF NextRead
<1>5. TypeOK'
  BY <1>2, <1>3, <1>4, BoundAssumption DEF TypeOK
<1>6. ReaderOK' /\ EndOK'
  BY <1>4 DEF ReaderOK, EndOK
<1>7. InitFirst'
  <2>1. ~PushesInit' /\ rpc' # "hello" /\ rpc = "push" /\ Len(queue) \in Nat
    BY <1>1, <1>4 DEF PushesInit
  <2>2. CASE Pushing
    BY <2>1, <2>2, <1>3 DEF Pushing, PushesInit, InitFirst, Queued
  <2>3. CASE Queued
    BY <2>1, <2>3, <1>1, <1>3 DEF Queued, PushesInit, InitFirst
  <2>4. ASSUME NoOther PROVE NoOther'
    <3>1. rEvent.type # "INIT"
      BY <2>1, <2>4 DEF NoOther, PushesInit
    <3>2. NoInit(queue)'
      BY <3>1, <2>1, <2>4, <1>3 DEF NoOther, NoInit
    <3> QED BY <2>1, <3>2 DEF NoOther
  <2>5. CASE Initialising
    BY <2>4, <2>5 DEF Initialising, InitFirst
  <2>6. CASE Initialised
    BY <2>1, <2>4, <2>6 DEF Initialised, InitFirst
  <2> QED BY <2>1, <2>2, <2>3, <2>5, <2>6 DEF InitFirst, Greeting
<1> QED BY <1>5, <1>6, <1>7

LEMMA SelectKeeps == IInv /\ Select => IInv'
<1> SUFFICES ASSUME IInv, Select PROVE IInv'
    OBVIOUS
<1> USE DEF IInv, Select, ReaderRuns, queueVars, netVars, stateVars
<1>1. TypeOK' /\ ReaderOK' /\ EndOK'
  BY DEF TypeOK, ReaderOK, EndOK
<1>2. ~PushesInit'
  BY DEF PushesInit
<1> QED BY <1>1, <1>2, ReaderKeeps

\* A read that makes an event other than INIT, or reads on.
LEMMA ReadKeeps ==
    ASSUME IInv, ReaderRuns, rpc \in {"read", "body"},
           \/ \E e \in Event : e.type # "INIT" /\ Got(e)
           \/ \E id \in Id : ReadOn(id),
           inbox' \in Seq(Unit), pipe' \in Seq({"SHUT_DOWN", "CLOSED_BY_ADMIN"}),
           rReady' \subseteq rReady, pipe' = pipe \/ rReady' = {},
           UNCHANGED <<life, started, cpc, queueVars, sent, partial, peer, full, posted, stateVars>>
    PROVE  IInv'
<1> USE DEF IInv, queueVars, stateVars
<1>1. /\ rEvent' \in Event /\ accepted' \in Seq(Id) /\ rEvent'.type # "INIT"
      /\ rpc' \in {"push", "body"}
      /\ rpc' = "body" => rEvent'.type = "REQUEST"
  <2>1. ASSUME NEW e \in Event, e.type # "INIT", Got(e) PROVE <1>1!:
    BY <2>1, GotTyped
  <2>2. ASSUME NEW id \in Id, ReadOn(id) PROVE <1>1!:
    BY <2>2, EventsTyped DEF ReadOn, Request, TypeOK
  <2> QED BY <2>1, <2>2
<1>2. TypeOK'
  BY <1>1 DEF TypeOK
<1>3. ReaderOK' /\ EndOK'
  BY <1>1 DEF ReaderOK, EndOK
<1>4. InitFirst'
  BY <1>1, ReaderKeeps DEF PushesInit
<1> QED BY <1>2, <1>3, <1>4

\* What a read of the socket makes of the bytes is an event other than INIT, or the start
\* of a request.
LEMMA SocketReads ==
    ASSUME IInv, ReadSocket \/ ReadBody
    PROVE  \/ \E e \in Event : e.type # "INIT" /\ Got(e)
           \/ \E id \in Id : ReadOn(id)
<1> USE DEF IInv
<1>1. \A id \in Id : Request(id) \in Event /\ Request(id).type # "INIT"
  BY EventsTyped DEF Request
<1>2. \A type \in {"LENGTH_ERROR", "QUIT"} : Ev(type) \in Event /\ Ev(type).type # "INIT"
  BY EventsTyped DEF Ev, EventType
<1>3. 0 \in Id
  BY BoundAssumption DEF Id
<1>4. CASE ReadSocket
  <2>1. inbox[1] \in Unit
    BY <1>4 DEF ReadSocket, TypeOK
  <2>2. inbox[1].id \in Id
    BY <2>1 DEF Unit
  <2>3. \/ Got(Request(inbox[1].id)) \/ Got(Request(0))
        \/ Got(Ev("LENGTH_ERROR")) \/ Got(Ev("QUIT"))
        \/ ReadOn(inbox[1].id) \/ ReadOn(0)
    BY <1>4 DEF ReadSocket
  <2> QED BY <1>1, <1>2, <1>3, <2>2, <2>3
<1>5. CASE ReadBody
  <2>1. rEvent \in Event /\ rEvent.type = "REQUEST"
    BY <1>5 DEF ReadBody, ReaderOK
  <2>2. Got(rEvent) \/ Got(Request(0)) \/ ReadOn(0)
    BY <1>5 DEF ReadBody
  <2> QED BY <1>1, <1>3, <2>1, <2>2
<1> QED BY <1>4, <1>5

LEMMA ReadSocketKeeps == IInv /\ ReadSocket => IInv'
<1> SUFFICES ASSUME IInv, ReadSocket PROVE IInv'
    OBVIOUS
<1> USE DEF IInv
<1>1. inbox \in Seq(Unit) /\ inbox # <<>>
  BY DEF ReadSocket, TypeOK
<1>2. inbox' \in Seq(Unit)
  <2>1. \E n \in 1 .. Len(inbox) : inbox' \in Left(n) \cup LeftOfFirst \cup {Tail(inbox)}
    BY DEF ReadSocket
  <2>2. Tail(inbox) \in Seq(Unit)
    BY <1>1
  <2> QED BY <1>1, <2>1, <2>2, LeftTyped
<1>3. /\ ReaderRuns /\ rpc = "read" /\ rReady' \subseteq rReady /\ pipe' = pipe
      /\ UNCHANGED <<life, started, cpc, queueVars, sent, partial, peer, full, posted, stateVars>>
  BY DEF ReadSocket
<1> QED BY <1>2, <1>3, SocketReads, ReadKeeps DEF TypeOK

LEMMA ReadBodyKeeps == IInv /\ ReadBody => IInv'
<1> SUFFICES ASSUME IInv, ReadBody PROVE IInv'
    OBVIOUS
<1> USE DEF IInv
<1>1. inbox \in Seq(Unit) /\ inbox # <<>> /\ 1 \in 1 .. Len(inbox)
  BY DEF ReadBody, TypeOK
<1>2. inbox' \in Seq(Unit)
  <2>1. Left(1) \subseteq Seq(Unit) /\ LeftOfFirst \subseteq Seq(Unit)
    BY <1>1, LeftTyped
  <2>2. Tail(inbox) \in Seq(Unit)
    BY <1>1
  <2> QED BY <2>1, <2>2 DEF ReadBody
<1>3. /\ ReaderRuns /\ rpc = "body" /\ rReady' = rReady /\ pipe' = pipe
      /\ UNCHANGED <<life, started, cpc, queueVars, sent, partial, peer, full, posted, stateVars>>
  BY DEF ReadBody
<1> QED BY <1>2, <1>3, SocketReads, ReadKeeps DEF TypeOK

LEMMA ReadEndKeeps == IInv /\ ReadEnd => IInv'
<1> SUFFICES ASSUME IInv, ReadEnd PROVE IInv'
    OBVIOUS
<1>1. Ev("QUIT") \in Event /\ Ev("QUIT").type # "INIT"
  BY EventsTyped DEF Ev, EventType
<1>2. /\ ReaderRuns /\ rpc \in {"read", "body"} /\ Got(Ev("QUIT"))
      /\ rReady' \subseteq rReady /\ pipe' = pipe /\ inbox' = inbox
      /\ UNCHANGED <<life, started, cpc, queueVars, sent, partial, peer, full, posted, stateVars>>
  BY DEF ReadEnd, netVars
<1> QED BY <1>1, <1>2, ReadKeeps DEF IInv, TypeOK

LEMMA ReadPipeKeeps == IInv /\ ReadPipe => IInv'
<1> SUFFICES ASSUME IInv, ReadPipe PROVE IInv'
    OBVIOUS
<1>1. pipe[1] \in {"SHUT_DOWN", "CLOSED_BY_ADMIN"}
  <2>1. pipe # <<>> /\ pipe \in Seq({"SHUT_DOWN", "CLOSED_BY_ADMIN"})
    BY DEF IInv, ReadPipe, ReaderOK, TypeOK
  <2> QED BY <2>1
<1>2. Ev(pipe[1]) \in Event /\ Ev(pipe[1]).type # "INIT"
  BY <1>1, EventsTyped DEF Ev, EventType
<1>3. /\ ReaderRuns /\ rpc = "read" /\ Got(Ev(pipe[1])) /\ pipe' = <<>>
      /\ rReady' = {} /\ inbox' = inbox
      /\ UNCHANGED <<life, started, cpc, queueVars, sent, partial, peer, full, posted, stateVars>>
  BY DEF ReadPipe
<1> QED BY <1>2, <1>3, ReadKeeps DEF IInv, TypeOK

LEMMA ReadStaleKeeps == IInv /\ ReadStale => IInv'
<1> SUFFICES ASSUME IInv, ReadStale PROVE IInv'
    OBVIOUS
<1> USE DEF IInv, ReadStale, ReaderRuns, queueVars, netVars, stateVars
<1>1. \/ rEvent' \in Event /\ rpc' = "push" /\ accepted' \in Seq(Id)
      \/ rpc' \in {"read", "spin", "select"} /\ UNCHANGED <<rEvent, accepted>>
  <2>1. ASSUME NEW type \in EventType, Got(Ev(type))
        PROVE  rEvent' \in Event /\ rpc' = "push" /\ accepted' \in Seq(Id)
    BY <2>1, GotTyped, EventsTyped
  <2> QED BY <2>1 DEF NextRead
<1>2. rReady' \subseteq rReady
  OBVIOUS
<1>3. TypeOK' /\ ReaderOK' /\ EndOK'
  BY <1>1, <1>2 DEF TypeOK, ReaderOK, EndOK
<1> QED BY <1>1, <1>3, ReaderKeeps

-----------------------------------------------------------------------------
(* The response thread *)

LEMMA TakeKeepsInv == IInv /\ Take => IInv'
<1> SUFFICES ASSUME IInv, Take PROVE IInv'
    OBVIOUS
<1> USE DEF IInv, Take, ResponseRuns, netVars, stateVars, readerVars
<1>1. /\ queue \in Seq(Event) /\ queue # <<>>
      /\ taken' = queue[1] /\ queue' = Tail(queue)
  BY DEF Queue!Take, TypeOK
<1>2. /\ queue' \in Seq(Event) /\ Len(queue') = Len(queue) - 1 /\ Len(queue) \in Nat
      /\ \A n \in 1 .. Len(queue') : queue'[n] = queue[n + 1]
  BY <1>1
<1>3. taken' \in Event /\ taken'.type \in EventType
  <2>1. queue[1] \in Event
    BY <1>1
  <2> QED BY <1>1, <2>1 DEF Event
<1>4. /\ cpc' \in {"init", "service", "notice", "release", "farewell"}
      /\ cpc' = "init" <=> taken'.type = "INIT"
  BY <1>3 DEF FirstStep, EventType
<1>5. TypeOK'
  <2>1. Len(queue') <= QueueBound
    BY <1>2, BoundAssumption DEF TypeOK
  <2>2. cpc' \in {"idle", "init", "service", "done", "release", "destroy", "exit"}
                 \cup DOMAIN AfterWrite
    BY <1>4 DEF AfterWrite
  <2> QED BY <1>2, <1>3, <2>1, <2>2 DEF TypeOK
<1>6. ReaderOK' /\ EndOK'
  BY DEF ReaderOK, EndOK
<1>7. InitFirst'
  <2>1. CASE Queued
    <3>1. cpc' = "init"
      BY <2>1, <1>1, <1>4 DEF Queued
    <3>2. NoInit(queue)'
      BY <2>1, <1>2 DEF Queued, NoInit
    <3> QED BY <2>1, <3>1, <3>2 DEF Queued, InitFirst, Initialising, NoOther, PushesInit
  <2>2. CASE Initialised
    <3>1. NoOther
      BY <2>2 DEF Initialised
    <3>2. cpc' # "init"
      BY <3>1, <1>1, <1>4 DEF NoOther, NoInit
    <3>3. NoOther'
      BY <3>1, <1>2 DEF NoOther, NoInit, PushesInit
    <3> QED BY <2>2, <3>2, <3>3 DEF Initialised, InitFirst
  <2> QED BY <1>1, <2>1, <2>2 DEF InitFirst, Greeting, Pushing, Initialising
<1> QED BY <1>5, <1>6, <1>7

LEMMA HandleInitKeeps == IInv /\ HandleInit => IInv'
<1> SUFFICES ASSUME IInv, HandleInit PROVE IInv'
    OBVIOUS
<1> USE DEF IInv, HandleInit, ResponseRuns, queueVars, netVars, readerVars
<1>1. Initialising
  BY DEF InitFirst, Greeting, Pushing, Queued, Initialised
<1>2. InitFirst' /\ inits' = 2
  BY <1>1 DEF Initialising, InitFirst, Initialised, NoOther, NoInit, PushesInit
<1>3. TypeOK' /\ ReaderOK' /\ EndOK'
  BY <1>2 DEF TypeOK, ReaderOK, EndOK
<1> QED BY <1>2, <1>3

\* The other steps of the response thread.
LEMMA HandlersKeep ==
    ASSUME IInv,
           \/ CallService \/ Write \/ FinishEvent \/ ReleaseServices \/ Destroy \/ Exit
    PROVE  IInv'
<1> USE DEF IInv, ResponseRuns, queueVars, netVars, stateVars, readerVars
<1>1. CASE CallService
  <2>1. TypeOK' /\ ReaderOK' /\ EndOK'
    BY <1>1 DEF CallService, TypeOK, ReaderOK, EndOK, AfterWrite
  <2> QED BY <1>1, <2>1, ResponseKeeps DEF CallService
<1>2. CASE Write
  <2>1. /\ cpc \in {"header", "data", "notice", "farewell"}
        /\ cpc' \in {"data", "done", "destroy", cpc}
    BY <1>2 DEF Write, AfterWrite
  <2>2. inbox' \in Seq(Unit) /\ peer' \in {"open", "closed", "reset"}
    BY <1>2, EmptySeq DEF Write, TypeOK
  <2>3. life' \in {"running", "killed"}
    BY <1>2 DEF Write
  <2>4. TypeOK'
    BY <1>2, <2>1, <2>2, <2>3 DEF Write, TypeOK, AfterWrite
  <2>5. ReaderOK' /\ EndOK'
    BY <1>2, <2>1 DEF Write, ReaderOK, EndOK
  <2> QED BY <1>2, <2>1, <2>4, <2>5, ResponseKeeps DEF Write
<1>3. CASE FinishEvent
  <2>1. queue' = queue /\ taken' = NULL
    BY <1>3 DEF FinishEvent, Queue!Done
  <2>2. handled' \in Seq(Id)
    BY <1>3 DEF FinishEvent, Queue!Done, TypeOK, Event
  <2>3. TypeOK' /\ ReaderOK' /\ EndOK'
    BY <1>3, <2>1, <2>2 DEF FinishEvent, TypeOK, ReaderOK, EndOK
  <2> QED BY <1>3, <2>1, <2>3, ResponseKeeps DEF FinishEvent
<1>4. CASE ReleaseServices
  <2>1. TypeOK' /\ ReaderOK' /\ EndOK'
    BY <1>4 DEF ReleaseServices, TypeOK, ReaderOK, EndOK
  <2> QED BY <1>4, <2>1, ResponseKeeps DEF ReleaseServices
<1>5. CASE Destroy
  <2>1. TypeOK' /\ ReaderOK' /\ EndOK'
    BY <1>5 DEF Destroy, TypeOK, ReaderOK, EndOK
  <2> QED BY <1>5, <2>1, ResponseKeeps DEF Destroy
<1>6. CASE Exit
  <2>1. TypeOK' /\ ReaderOK' /\ EndOK'
    BY <1>6 DEF Exit, TypeOK, ReaderOK, EndOK
  <2> QED BY <1>6, <2>1, OthersKeep DEF Exit
<1> QED BY <1>1, <1>2, <1>3, <1>4, <1>5, <1>6

-----------------------------------------------------------------------------
(* The order of the requests *)

\* Counting the requests among the first events, one event more or less.
LEMMA RequestsCount ==
    ASSUME NEW s \in Seq(Event), NEW n \in 0 .. Len(s)
    PROVE  /\ Requests(s, n) \in Nat
           /\ n = 0 => Requests(s, n) = 0
           /\ n > 0 => Requests(s, n) = Requests(s, n - 1) + IF s[n].type = "REQUEST" THEN 1 ELSE 0
<1> DEFINE R(k) == {m \in 1 .. k : s[m].type = "REQUEST"}
<1>1. \A k \in Nat : IsFiniteSet(R(k))
  <2> TAKE k \in Nat
  <2>1. IsFiniteSet(1 .. k)
    BY FS_Interval
  <2> QED BY <2>1, FS_Subset
<1>2. Requests(s, n) \in Nat
  BY <1>1, FS_CardinalityType DEF Requests
<1>3. ASSUME n = 0 PROVE Requests(s, n) = 0
  <2>1. R(n) = {}
    BY <1>3
  <2> QED BY <2>1, FS_EmptySet DEF Requests
<1>4. ASSUME n > 0
      PROVE  Requests(s, n) = Requests(s, n - 1) + IF s[n].type = "REQUEST" THEN 1 ELSE 0
  <2>1. IsFiniteSet(R(n - 1)) /\ n \notin R(n - 1) /\ Cardinality(R(n - 1)) \in Nat
    BY <1>1, <1>4, FS_CardinalityType
  <2>2. CASE s[n].type = "REQUEST"
    <3>1. R(n) = R(n - 1) \cup {n}
      BY <1>4, <2>2
    <3>2. Cardinality(R(n)) = Cardinality(R(n - 1)) + 1
      BY <2>1, <3>1, FS_AddElement
    <3> QED BY <2>2, <3>2 DEF Requests
  <2>3. CASE s[n].type # "REQUEST"
    <3>1. R(n) = R(n - 1)
      BY <1>4, <2>3
    <3>2. Requests(s, n) = Cardinality(R(n)) /\ Requests(s, n - 1) = Cardinality(R(n - 1))
      BY DEF Requests
    <3> HIDE DEF R
    <3> QED BY <2>1, <2>3, <3>1, <3>2
  <2> QED BY <2>2, <2>3
<1> QED BY <1>2, <1>3, <1>4

\* The count looks at the first events only.
LEMMA RequestsSame ==
    ASSUME NEW s, NEW t, NEW n \in Nat, \A m \in 1 .. n : s[m] = t[m]
    PROVE  Requests(s, n) = Requests(t, n)
<1>1. {m \in 1 .. n : s[m].type = "REQUEST"} = {m \in 1 .. n : t[m].type = "REQUEST"}
  OBVIOUS
<1> QED BY <1>1 DEF Requests

\* The first event apart from the others.
LEMMA RequestsTail ==
    ASSUME NEW s \in Seq(Event), s # <<>>, NEW n \in 0 .. Len(s) - 1
    PROVE  Requests(s, n + 1) = Requests(Tail(s), n) + IF s[1].type = "REQUEST" THEN 1 ELSE 0
<1> DEFINE R == {m \in 1 .. n : Tail(s)[m].type = "REQUEST"}
           Q == {m \in 2 .. n + 1 : s[m].type = "REQUEST"}
           f == [m \in R |-> m + 1]
<1>1. /\ Tail(s) \in Seq(Event) /\ Len(Tail(s)) = Len(s) - 1 /\ Len(s) \in Nat
      /\ \A m \in 1 .. n : Tail(s)[m] = s[m + 1]
  OBVIOUS
<1>2. IsFiniteSet(R)
  <2>1. IsFiniteSet(1 .. n)
    BY FS_Interval
  <2> QED BY <2>1, FS_Subset
<1>3. f \in Bijection(R, Q)
  <2>1. f \in [R -> Q]
    BY <1>1
  <2>2. \A a, b \in R : f[a] = f[b] => a = b
    OBVIOUS
  <2>3. \A q \in Q : \E m \in R : f[m] = q
    <3> TAKE q \in Q
    <3>1. q - 1 \in R /\ f[q - 1] = q
      BY <1>1
    <3> QED BY <3>1
  <2> HIDE DEF f, R, Q
  <2> QED BY <2>1, <2>2, <2>3, Fun_IsBij
<1>4. IsFiniteSet(Q) /\ Cardinality(Q) = Cardinality(R) /\ Cardinality(R) \in Nat
  <2> HIDE DEF f, R, Q
  <2>1. ExistsBijection(R, Q)
    BY <1>3 DEF ExistsBijection
  <2> QED BY <1>2, <2>1, FS_Bijection, FS_CardinalityType
<1>5. CASE s[1].type = "REQUEST"
  <2>1. {m \in 1 .. n + 1 : s[m].type = "REQUEST"} = Q \cup {1} /\ 1 \notin Q
    BY <1>5
  <2>2. Cardinality(Q \cup {1}) = Cardinality(Q) + 1
    BY <1>4, <2>1, FS_AddElement
  <2> QED BY <1>4, <1>5, <2>1, <2>2 DEF Requests
<1>6. CASE s[1].type # "REQUEST"
  <2>1. {m \in 1 .. n + 1 : s[m].type = "REQUEST"} = Q
    BY <1>6
  <2>2. Requests(s, n + 1) = Cardinality(Q) /\ Requests(Tail(s), n) = Cardinality(R)
    BY <2>1 DEF Requests
  <2> HIDE DEF R, Q
  <2> QED BY <1>4, <1>6, <2>2
<1> QED BY <1>5, <1>6

\* The count grows, and is not 0 behind a request.
LEMMA RequestsWithin ==
    ASSUME NEW s \in Seq(Event), NEW n \in 1 .. Len(s)
    PROVE  /\ Requests(s, n) <= Requests(s, Len(s))
           /\ s[n].type = "REQUEST" => Requests(s, n) >= 1
<1> DEFINE R(k) == {m \in 1 .. k : s[m].type = "REQUEST"}
<1>1. IsFiniteSet(R(Len(s)))
  <2>1. IsFiniteSet(1 .. Len(s))
    BY FS_Interval
  <2> QED BY <2>1, FS_Subset
<1>2. R(n) \subseteq R(Len(s))
  OBVIOUS
<1>3. Requests(s, n) <= Requests(s, Len(s))
  <2> HIDE DEF R
  <2>1. Cardinality(R(n)) <= Cardinality(R(Len(s)))
    BY <1>1, <1>2, FS_Subset
  <2> QED BY <2>1 DEF Requests, R
<1>4. ASSUME s[n].type = "REQUEST" PROVE Requests(s, n) >= 1
  <2>1. n \in 0 .. Len(s) /\ n - 1 \in 0 .. Len(s) /\ n > 0
    OBVIOUS
  <2>2. Requests(s, n) = Requests(s, n - 1) + IF s[n].type = "REQUEST" THEN 1 ELSE 0
    BY <2>1, RequestsCount
  <2>3. Requests(s, n - 1) \in Nat
    BY <2>1, RequestsCount
  <2> QED BY <1>4, <2>2, <2>3
<1> QED BY <1>3, <1>4

\* Another event is read.
LEMMA OrderExtends ==
    ASSUME NEW read \in Seq(Id), NEW done \in Seq(Id), NEW s \in Seq(Event), NEW e \in Event,
           InOrder(read, done, s)
    PROVE  InOrder(IF e.type = "REQUEST" THEN Append(read, e.id) ELSE read, done, Append(s, e))
<1> DEFINE t == Append(s, e)
           l == Len(s)
           more == IF e.type = "REQUEST" THEN Append(read, e.id) ELSE read
<1>1. l \in Nat /\ Len(done) \in Nat /\ Len(read) \in Nat /\ e.id \in Id
  BY DEF Event
<1>2. t \in Seq(Event) /\ Len(t) = l + 1 /\ t[l + 1] = e /\ \A m \in 1 .. l : t[m] = s[m]
  BY AppendProperties
<1>3. \A n \in 0 .. l : Requests(t, n) = Requests(s, n) /\ Requests(s, n) \in Nat
  <2> TAKE n \in 0 .. l
  <2>1. n \in Nat /\ \A m \in 1 .. n : t[m] = s[m]
    BY <1>1, <1>2
  <2>2. Requests(t, n) = Requests(s, n)
    BY <2>1, RequestsSame
  <2>3. Requests(s, n) \in Nat
    BY RequestsCount
  <2> QED BY <2>2, <2>3
<1>4. Requests(t, l + 1) = Requests(s, l) + IF e.type = "REQUEST" THEN 1 ELSE 0
  <2>1. l + 1 \in 0 .. Len(t) /\ l + 1 > 0 /\ l + 1 - 1 = l /\ l \in 0 .. l
    BY <1>1, <1>2
  <2> HIDE DEF t, l
  <2>2. Requests(t, l + 1) = Requests(t, l + 1 - 1) + IF t[l + 1].type = "REQUEST" THEN 1 ELSE 0
    BY <1>2, <2>1, RequestsCount
  <2> QED BY <1>2, <1>3, <2>1, <2>2
<1>5. /\ Len(more) = Len(read) + IF e.type = "REQUEST" THEN 1 ELSE 0
      /\ \A k \in 1 .. Len(read) : more[k] = read[k]
      /\ e.type = "REQUEST" => more[Len(read) + 1] = e.id
  BY <1>1, AppendProperties
<1>6. /\ \A k \in 1 .. Len(done) : read[k] = done[k]
      /\ Len(read) = Len(done) + Requests(s, l)
      /\ \A n \in 1 .. l : s[n].type = "REQUEST" => read[Len(done) + Requests(s, n)] = s[n].id
  BY DEF InOrder
<1>7. \A n \in 1 .. l : /\ s[n].type = "REQUEST" => Len(done) + Requests(s, n) \in 1 .. Len(read)
                        /\ Requests(t, n) = Requests(s, n)
  <2> TAKE n \in 1 .. l
  <2>1. Requests(s, n) \in Nat /\ Requests(s, l) \in Nat /\ Requests(t, n) = Requests(s, n)
    BY <1>1, <1>3
  <2>2. Requests(s, n) <= Requests(s, l) /\ (s[n].type = "REQUEST" => Requests(s, n) >= 1)
    BY RequestsWithin
  <2> QED BY <1>1, <1>6, <2>1, <2>2
<1>8. Len(done) <= Len(read) /\ Requests(s, l) \in Nat
  BY <1>1, <1>3, <1>6
<1> HIDE DEF t, l, more
<1>9. \A k \in 1 .. Len(done) : more[k] = done[k]
  BY <1>1, <1>5, <1>6, <1>8
<1>10. Len(more) = Len(done) + Requests(t, Len(t))
  BY <1>1, <1>2, <1>4, <1>5, <1>6, <1>8
<1>11. ASSUME NEW n \in 1 .. Len(t), t[n].type = "REQUEST"
       PROVE  more[Len(done) + Requests(t, n)] = t[n].id
  <2>1. CASE n = l + 1
    <3>1. Len(done) + Requests(t, n) = Len(read) + 1
      BY <1>1, <1>2, <1>4, <1>6, <1>8, <1>11, <2>1
    <3> QED BY <1>2, <1>5, <1>11, <2>1, <3>1
  <2>2. CASE n \in 1 .. l
    BY <1>2, <1>5, <1>6, <1>7, <1>11, <2>2
  <2> QED BY <1>1, <1>2, <2>1, <2>2
<1>12. InOrder(more, done, t)
  BY <1>9, <1>10, <1>11 DEF InOrder
<1> QED BY <1>12 DEF more, t

\* The first event has been handled.
LEMMA OrderDrops ==
    ASSUME NEW read \in Seq(Id), NEW done \in Seq(Id), NEW s \in Seq(Event), s # <<>>,
           InOrder(read, done, s)
    PROVE  InOrder(read, IF s[1].type = "REQUEST" THEN Append(done, s[1].id) ELSE done, Tail(s))
<1> DEFINE t == Tail(s)
           one == IF s[1].type = "REQUEST" THEN 1 ELSE 0
           more == IF s[1].type = "REQUEST" THEN Append(done, s[1].id) ELSE done
<1>1. /\ Len(s) \in Nat /\ Len(done) \in Nat /\ Len(read) \in Nat /\ one \in {0, 1}
      /\ t \in Seq(Event) /\ Len(t) = Len(s) - 1 /\ \A n \in 1 .. Len(t) : t[n] = s[n + 1]
  OBVIOUS
<1>2. s[1] \in Event /\ s[1].id \in Id
  <2>1. s[1] \in Event
    OBVIOUS
  <2> QED BY <2>1 DEF Event
<1>3. \A n \in 0 .. Len(t) : Requests(s, n + 1) = Requests(t, n) + one /\ Requests(t, n) \in Nat
  <2> TAKE n \in 0 .. Len(t)
  <2>1. n \in 0 .. Len(s) - 1
    BY <1>1
  <2>2. Requests(s, n + 1) = Requests(t, n) + one
    BY <2>1, RequestsTail
  <2>3. Requests(t, n) \in Nat
    BY <1>1, RequestsCount
  <2> QED BY <2>2, <2>3
<1>4. Requests(t, 0) = 0
  <2>1. 0 \in 0 .. Len(t)
    BY <1>1
  <2> QED BY <1>1, <2>1, RequestsCount
<1>5. /\ \A k \in 1 .. Len(done) : read[k] = done[k]
      /\ Len(read) = Len(done) + Requests(s, Len(s))
      /\ \A n \in 1 .. Len(s) : s[n].type = "REQUEST" => read[Len(done) + Requests(s, n)] = s[n].id
  BY DEF InOrder
<1>6. /\ Len(more) = Len(done) + one /\ Len(more) \in Nat
      /\ \A k \in 1 .. Len(done) : more[k] = done[k]
      /\ s[1].type = "REQUEST" => more[Len(done) + 1] = s[1].id
  BY <1>1, <1>2, AppendProperties
<1>7. s[1].type = "REQUEST" => read[Len(done) + 1] = s[1].id
  <2>1. Requests(s, 0 + 1) = Requests(t, 0) + one
    BY <1>1, <1>3
  <2>2. Requests(s, 1) = one /\ 1 \in 1 .. Len(s)
    BY <1>1, <1>4, <2>1
  <2> QED BY <1>5, <2>2
<1>20. s[1].type # "REQUEST" => one = 0
  OBVIOUS
<1>21. s[1].type = "REQUEST" => one = 1
  OBVIOUS
<1> HIDE DEF t, one, more
<1>8. \A k \in 1 .. Len(more) : read[k] = more[k]
  <2> TAKE k \in 1 .. Len(more)
  <2>1. CASE k \in 1 .. Len(done)
    BY <1>5, <1>6, <2>1
  <2>2. CASE k = Len(done) + 1
    BY <1>1, <1>6, <1>7, <1>20, <2>2
  <2> QED BY <1>1, <1>6, <2>1, <2>2
<1>9. Len(read) = Len(more) + Requests(t, Len(t))
  <2>1. Requests(s, Len(t) + 1) = Requests(t, Len(t)) + one /\ Requests(t, Len(t)) \in Nat
    BY <1>1, <1>3
  <2> QED BY <1>1, <1>5, <1>6, <2>1
<1>10. ASSUME NEW n \in 1 .. Len(t), t[n].type = "REQUEST"
       PROVE  read[Len(more) + Requests(t, n)] = t[n].id
  <2>1. n + 1 \in 1 .. Len(s) /\ s[n + 1] = t[n] /\ n \in 0 .. Len(t)
    BY <1>1
  <2>2. Requests(s, n + 1) = Requests(t, n) + one /\ Requests(t, n) \in Nat
    BY <1>3, <2>1
  <2>3. Len(more) + Requests(t, n) = Len(done) + Requests(s, n + 1)
    BY <1>1, <1>6, <2>2
  <2> QED BY <1>5, <1>10, <2>1, <2>3
<1>11. InOrder(read, more, t)
  BY <1>8, <1>9, <1>10 DEF InOrder
<1> QED BY <1>11 DEF more, t

Hand  == IF taken = NULL THEN <<>> ELSE <<taken>>
Front == IF rpc = "push" THEN <<rEvent>> ELSE <<>>

LEMMA PendingTyped ==
    ASSUME IInv
    PROVE  /\ Hand \in Seq(Event) /\ queue \in Seq(Event) /\ Front \in Seq(Event)
           /\ Pending = Hand \o queue \o Front /\ Pending \in Seq(Event)
           /\ accepted \in Seq(Id) /\ handled \in Seq(Id)
<1>1. Hand \in Seq(Event)
  BY EmptySeq DEF IInv, TypeOK, Hand
<1>2. Front \in Seq(Event)
  BY EmptySeq DEF IInv, ReaderOK, Front
<1>3. queue \in Seq(Event) /\ accepted \in Seq(Id) /\ handled \in Seq(Id)
  BY DEF IInv, TypeOK
<1>4. Hand \o queue \o Front \in Seq(Event)
  BY <1>1, <1>2, <1>3, ConcatProperties
<1> QED BY <1>1, <1>2, <1>3, <1>4 DEF Pending, Hand, Front

\* A step that does not change what is pending.
LEMMA SameOrder ==
    ASSUME RequestsInOrder, UNCHANGED <<accepted, handled>>, Pending' = Pending
    PROVE  RequestsInOrder'
  BY DEF RequestsInOrder, InOrder, Requests

LEMMA SamePending ==
    ASSUME UNCHANGED <<taken, queue>>, (rpc = "push") <=> (rpc' = "push"),
           rpc = "push" => rEvent' = rEvent
    PROVE  Pending' = Pending
  BY DEF Pending

\* A step of the reader that makes an event: it is behind all others.
LEMMA GotOrder ==
    ASSUME IInv, RequestsInOrder, rpc # "push", NEW e \in Event, rEvent' = e, rpc' = "push",
           accepted' = (IF e.type = "REQUEST" THEN Append(accepted, e.id) ELSE accepted),
           UNCHANGED <<taken, queue, handled>>
    PROVE  RequestsInOrder'
<1>1. Pending \in Seq(Event) /\ accepted \in Seq(Id) /\ handled \in Seq(Id)
  BY PendingTyped
<1>2. Pending' = Append(Pending, e)
  <2>1. Front = <<>> /\ Front' = <<e>> /\ Hand' = Hand
    BY DEF Front, Hand
  <2>2. Pending = Hand \o queue /\ Hand \o queue \in Seq(Event)
    <3>1. Hand \o queue \in Seq(Event)
      BY PendingTyped, ConcatProperties
    <3> QED BY <2>1, <3>1, PendingTyped, ConcatEmptySeq
  <2>3. Pending' = (Hand \o queue) \o <<e>>
    BY <2>1 DEF Pending, Hand, Front
  <2> QED BY <2>2, <2>3, AppendIsConcat
<1>3. InOrder(accepted', handled, Append(Pending, e))
  BY <1>1, OrderExtends DEF RequestsInOrder
<1> QED BY <1>2, <1>3 DEF RequestsInOrder, InOrder, Requests

\* What is pushed or taken stays where it is among the pending ones.
LEMMA PushOrder == IInv /\ Push => Pending' = Pending
<1> SUFFICES ASSUME IInv, Push PROVE Pending' = Pending
    OBVIOUS
<1>1. /\ queue' = Append(queue, rEvent) /\ taken' = taken /\ rpc = "push" /\ rpc' # "push"
      /\ rEvent \in Event
  BY DEF Push, Queue!Put, NextRead, IInv, ReaderOK
<1>2. Hand' = Hand /\ Front = <<rEvent>> /\ Front' = <<>>
  BY <1>1 DEF Hand, Front
<1>3. queue' = queue \o <<rEvent>> /\ <<rEvent>> \in Seq(Event)
  BY <1>1, PendingTyped, AppendIsConcat
<1>4. Hand \o queue' = Hand \o queue \o <<rEvent>> /\ Hand \o queue' \in Seq(Event)
  BY <1>3, PendingTyped, ConcatAssociative, ConcatProperties
<1>5. Pending' = Hand \o queue' \o <<>>
  BY <1>2 DEF Pending, Hand, Front
<1>6. Pending' = Hand \o queue'
  BY <1>4, <1>5, ConcatEmptySeq
<1> QED BY <1>2, <1>4, <1>6, PendingTyped

LEMMA TakeOrder == IInv /\ Take => Pending' = Pending
<1> SUFFICES ASSUME IInv, Take PROVE Pending' = Pending
    OBVIOUS
<1>1. /\ taken = NULL /\ queue # <<>> /\ taken' = queue[1] /\ queue' = Tail(queue)
      /\ rpc' = rpc /\ rEvent' = rEvent
  BY DEF Take, Queue!Take, readerVars
<1>2. queue[1] \in Event /\ queue \in Seq(Event)
  <2>1. queue \in Seq(Event)
    BY PendingTyped
  <2> QED BY <1>1, <2>1
<1>3. Hand = <<>> /\ Hand' = <<queue[1]>> /\ Front' = Front
  BY <1>1, <1>2, NullAssumption DEF Hand, Front
<1>4. Hand' \o queue' = Hand \o queue
  <2>1. <<queue[1]>> \o Tail(queue) = queue
    BY <1>1, <1>2
  <2>2. <<>> \o queue = queue
    BY <1>2, ConcatEmptySeq
  <2> QED BY <1>1, <1>3, <2>1, <2>2
<1>5. Pending' = Hand' \o queue' \o Front'
  BY DEF Pending, Hand, Front
<1> QED BY <1>3, <1>4, <1>5, PendingTyped

\* What was handled is the first of the pending ones.
LEMMA FinishOrder == IInv /\ RequestsInOrder /\ FinishEvent => RequestsInOrder'
<1> SUFFICES ASSUME IInv, RequestsInOrder, FinishEvent PROVE RequestsInOrder'
    OBVIOUS
<1>1. /\ taken # NULL /\ taken' = NULL /\ queue' = queue
      /\ handled' = IF taken.type = "REQUEST" THEN Append(handled, taken.id) ELSE handled
      /\ rpc' = rpc /\ rEvent' = rEvent /\ accepted' = accepted
  BY DEF FinishEvent, Queue!Done, readerVars
<1>2. taken \in Event
  BY <1>1 DEF IInv, TypeOK
<1>3. Hand = <<taken>> /\ Hand' = <<>> /\ Front' = Front
  BY <1>1 DEF Hand, Front
<1>4. queue \o Front \in Seq(Event)
  BY PendingTyped, ConcatProperties
<1>5. Pending = <<taken>> \o (queue \o Front)
  <2>1. \A a, b, c \in Seq(Event) : (a \o b) \o c = a \o (b \o c)
    BY ConcatAssociative
  <2>2. Pending = Hand \o (queue \o Front)
    BY PendingTyped, <2>1
  <2> QED BY <1>3, <2>2
<1>6. Pending' = queue \o Front
  <2>1. Pending' = <<>> \o queue \o Front
    BY <1>1, <1>3 DEF Pending, Hand, Front
  <2>2. <<>> \o queue = queue
    BY PendingTyped, ConcatEmptySeq
  <2> QED BY <2>1, <2>2
<1>7. Pending # <<>> /\ Pending[1] = taken /\ Tail(Pending) = Pending'
  BY <1>2, <1>4, <1>5, <1>6
<1>8. InOrder(accepted, handled', Tail(Pending))
  <2>1. Pending \in Seq(Event) /\ accepted \in Seq(Id) /\ handled \in Seq(Id)
    BY PendingTyped
  <2> QED BY <1>1, <1>7, <2>1, OrderDrops DEF RequestsInOrder
<1> QED BY <1>1, <1>7, <1>8 DEF RequestsInOrder, InOrder, Requests

LEMMA ReaderOrder == IInv /\ RequestsInOrder /\ ReaderStep => RequestsInOrder'
<1> SUFFICES ASSUME IInv, RequestsInOrder, ReaderStep PROVE RequestsInOrder'
    OBVIOUS
<1>1. CASE Hello
  <2>1. Ev("INIT") \in Event /\ Ev("INIT").type # "REQUEST"
    BY EventsTyped DEF Ev, EventType
  <2> QED BY <1>1, <2>1, GotOrder DEF Hello, queueVars, stateVars
<1>2. CASE Push
  BY <1>2, PushOrder, SameOrder DEF Push, stateVars
<1>3. CASE Select
  BY <1>3, SamePending, SameOrder DEF Select, queueVars, stateVars
<1>4. CASE ReadSocket \/ ReadBody
  <2>1. rpc \in {"read", "body"} /\ UNCHANGED <<taken, queue, handled>>
    BY <1>4 DEF ReadSocket, ReadBody, queueVars, stateVars
  <2>2. ASSUME NEW e \in Event, Got(e) PROVE RequestsInOrder'
    BY <2>1, <2>2, GotOrder DEF Got
  <2>3. ASSUME NEW id \in Id, ReadOn(id) PROVE RequestsInOrder'
    BY <2>1, <2>3, SamePending, SameOrder DEF ReadOn
  <2> QED BY <1>4, <2>2, <2>3, SocketReads
<1>5. CASE ReadEnd
  <2>1. Ev("QUIT") \in Event
    BY EventsTyped DEF EventType
  <2> QED BY <1>5, <2>1, GotOrder DEF ReadEnd, Got, queueVars, stateVars
<1>6. CASE ReadPipe
  <2>1. pipe # <<>> /\ pipe \in Seq({"SHUT_DOWN", "CLOSED_BY_ADMIN"})
    BY <1>6 DEF IInv, ReadPipe, ReaderOK, TypeOK
  <2>2. pipe[1] \in EventType
    BY <2>1 DEF EventType
  <2> QED BY <1>6, <2>2, EventsTyped, GotOrder DEF ReadPipe, Got, queueVars, stateVars
<1>7. CASE ReadStale
  <2>1. rpc = "read" /\ UNCHANGED <<taken, queue, handled>>
    BY <1>7 DEF ReadStale, queueVars, stateVars
  <2>2. ASSUME NEW type \in EventType, Got(Ev(type)) PROVE RequestsInOrder'
    BY <2>1, <2>2, EventsTyped, GotOrder DEF Got
  <2>3. CASE rpc' = NextRead(rReady') /\ UNCHANGED <<rEvent, accepted>>
    BY <2>1, <2>3, SamePending, SameOrder DEF NextRead
  <2> QED BY <1>7, <2>2, <2>3 DEF ReadStale
<1> QED BY <1>1, <1>2, <1>3, <1>4, <1>5, <1>6, <1>7 DEF ReaderStep

LEMMA NextOrder == IInv /\ RequestsInOrder /\ [Next]_vars => RequestsInOrder'
<1> SUFFICES ASSUME IInv, RequestsInOrder, [Next]_vars PROVE RequestsInOrder'
    OBVIOUS
<1>1. CASE UNCHANGED <<readerVars, queueVars, handled>>
  BY <1>1, SamePending, SameOrder DEF readerVars, queueVars
<1>2. CASE Environment \/ DoRequest \/ UNCHANGED vars
  BY <1>1, <1>2 DEF Environment, ClientSend, ClientClose, ClientFlow, MainPost, DoRequest, vars,
                    stateVars
<1>3. CASE ResponseStep
  <2>1. CASE Take
    BY <2>1, TakeOrder, SameOrder DEF Take, readerVars, stateVars
  <2>2. CASE HandleInit \/ CallService \/ Write \/ ReleaseServices \/ Destroy \/ Exit
    BY <1>1, <2>2 DEF HandleInit, CallService, Write, ReleaseServices, Destroy, Exit, stateVars
  <2> QED BY <1>3, <2>1, <2>2, FinishOrder DEF ResponseStep
<1> QED BY <1>2, <1>3, ReaderOrder DEF Next

-----------------------------------------------------------------------------
(* The theorems *)

LEMMA NextKeeps == IInv /\ [Next]_vars => IInv'
<1> SUFFICES ASSUME IInv, [Next]_vars PROVE IInv'
    OBVIOUS
<1>1. CASE UNCHANGED vars
  <2>1. TypeOK' /\ ReaderOK' /\ EndOK'
    BY <1>1 DEF IInv, TypeOK, ReaderOK, EndOK, vars, readerVars, queueVars, netVars, stateVars
  <2> QED BY <1>1, <2>1, OthersKeep DEF IInv, vars, readerVars, queueVars, stateVars
<1>2. CASE ReaderStep
  BY <1>2, HelloKeeps, PushKeeps, SelectKeeps, ReadSocketKeeps, ReadBodyKeeps, ReadEndKeeps,
     ReadPipeKeeps, ReadStaleKeeps DEF ReaderStep
<1>3. CASE ResponseStep
  BY <1>3, TakeKeepsInv, HandleInitKeeps, HandlersKeep DEF ResponseStep
<1> QED BY <1>1, <1>2, <1>3, EnvironmentKeeps, DoRequestKeeps DEF Next

\* The two threads keep every variable in its range, in particular the event the
\* reader pushes, whatever it reads.
THEOREM TypeCorrect == SafetySpec => []TypeOK
<1>1. IInv => TypeOK
  BY DEF IInv
<1> QED BY InitIInv, NextKeeps, <1>1, PTL DEF SafetySpec

\* A service has been initialised twice when its first request or its release
\* comes, and hears nothing after its release (initAllServices in __do_request and
\* in handle_response_client_init, handle_response_client_quit).
THEOREM ServicesRespected == SafetySpec => []ServiceProtocol
<1>1. IInv => ServiceProtocol
  BY DEF IInv, InitFirst, Greeting, Pushing, Queued, Initialising, Initialised, EndOK,
         ServiceProtocol
<1> QED BY InitIInv, NextKeeps, <1>1, PTL DEF SafetySpec

\* Requests are handled in the order in which they were read, each once, and those read
\* but not handled are all on their way through the queue (tg_process_reader.c,
\* tg_pipe_event_queue, tg_process_response.c), for any number of them.
THEOREM RequestsKeepOrder == SafetySpec => []RequestsInOrder
<1>1. Init => RequestsInOrder
  <2> SUFFICES ASSUME Init PROVE RequestsInOrder
      OBVIOUS
  <2>1. Hand = <<>> /\ queue = <<>> /\ Front = <<>> /\ accepted = <<>> /\ handled = <<>>
    BY DEF Init, Queue!Init, Hand, Front
  <2>2. <<>> \in Seq(Event) /\ Len(<<>>) = 0
    BY EmptySeq
  <2>3. Pending = <<>>
    BY <2>1, <2>2, ConcatEmptySeq DEF Pending, Hand, Front
  <2>4. \A s \in Seq(Event) : \A n \in 0 .. Len(s) : n = 0 => Requests(s, n) = 0
    BY RequestsCount
  <2>5. Requests(<<>>, Len(<<>>)) = 0
    <3>1. 0 \in 0 .. Len(<<>>)
      BY <2>2
    <3> QED BY <2>2, <2>4, <3>1
  <2> QED BY <2>1, <2>2, <2>3, <2>5 DEF RequestsInOrder, InOrder
<1> QED BY <1>1, InitIInv, NextKeeps, NextOrder, PTL DEF SafetySpec
=============================================================================
