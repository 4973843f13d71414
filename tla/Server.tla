------------------------------- MODULE Server -------------------------------
(***************************************************************************)
(* The connection side of ServerContext: client objects, request ids,      *)
(* req_to_client_ and the write queues, driven by libuv's callbacks.  All  *)
(* of it runs on the event loop, one callback after another; `at' says     *)
(* whether the loop is inside a callback that has a loop of its own.       *)
(*                                                                         *)
(* The scheduler is taken by its contract (module Scheduler): for each     *)
(* request responses in order, the last one marked finished, and a         *)
(* uv_async_send behind them.                                              *)
(*                                                                         *)
(* Clients are C++ objects at addresses; `delete' frees the address and    *)
(* `new' may hand it out again.  req_to_client_ holds bare addresses.      *)
(*                                                                         *)
(* The bytes a client sends are "t", some token text, and "nl".            *)
(***************************************************************************)
EXTENDS Integers, SequencesExt

CONSTANTS Addresses,        \* where `new ClientConnection' may put an object
          MAX_CONNECTIONS,  \* bound: connections ever accepted
          MAX_BYTES,        \* bound: bytes the clients send in all
          MAX_NEW_TOKENS,   \* responses a request gets at most
          MAX_FAULTS        \* bound: uv_write calls that fail at once

ASSUME ServerAssumption ==
    /\ {MAX_CONNECTIONS, MAX_NEW_TOKENS} \subseteq Nat \ {0}
    /\ {MAX_BYTES, MAX_FAULTS} \subseteq Nat
    /\ {"idle", "responses"} \cap Addresses = {}

VARIABLES client,          \* client[a]: the object at address a, or Freed
          req_to_client_,  \* address of the client of each unanswered request
          next_request_id,
          response_queue,
          async,           \* a uv_async_send the loop has not served
          at,              \* idle, responses, or the address of the client in on_read
          answered,        \* answered[id]: responses the scheduler has pushed
          finals,          \* the requests whose last response was pushed
          faults,
          crashed,
          accepted,        \* history: connections accepted
          asker,           \* history: the connection each request came on
          received,        \* history: bytes the clients have sent
          sent             \* history: the texts written to each connection

scheduler == <<answered, finals>>
history == <<accepted, asker, received, sent>>
vars == <<client, req_to_client_, next_request_id, response_queue, async, at,
          scheduler, faults, crashed, history>>

\* What is written to a client: a response, or "invalid request".
Invalid == [request_id |-> 0, token |-> 0, finished |-> FALSE]

Connections == 1..MAX_CONNECTIONS
Ids == 1..(MAX_BYTES \div 2)  \* a line has two bytes at least
Freed == [conn |-> 0]
Live(a) == client[a] # Freed

\* `pending' are the writes libuv has been given and not called back for.
NewClient(n) == [conn |-> n, read_buffer |-> <<>>, write_queue |-> <<>>,
                 writing |-> FALSE, closed |-> FALSE, closing |-> FALSE, pending |-> <<>>]

Init ==
    /\ client = [a \in Addresses |-> Freed]
    /\ req_to_client_ = <<>>
    /\ next_request_id = 1
    /\ response_queue = <<>> /\ async = FALSE /\ at = "idle"
    /\ answered = [id \in Ids |-> 0] /\ finals = {}
    /\ faults = 0 /\ crashed = FALSE
    /\ accepted = 0 /\ asker = <<>>
    /\ received = 0
    /\ sent = [n \in Connections |-> <<>>]

Idle == at = "idle" /\ ~crashed
-----------------------------------------------------------------------------
(* Writing.  What can become of a client is a set of outcomes: the object, and *)
(* whether a uv_write failed at once.                                          *)

Same(c) == {[client |-> c, failed |-> 0]}

HandedOverLast(c) ==  \* fault: the back of the queue
    [c EXCEPT !.write_queue = Front(@), !.pending = Append(@, Last(c.write_queue)),
              !.writing = TRUE]

\* The front of the queue is handed to uv_write.
HandedOver(c) ==
    [c EXCEPT !.write_queue = Tail(@), !.pending = Append(@, Head(c.write_queue)),
              !.writing = TRUE]

StartWriteAgain(c) ==  \* fault: `writing' is not looked at
    IF c.closed \/ c.write_queue = <<>> THEN Same(c) ELSE Same(HandedOver(c))

Dropped(c) == [c EXCEPT !.write_queue = Tail(@)]

\* start_write.  When uv_write fails at once, as it must on a closing handle,
\* the text is gone and nothing is under way.
StartWrite(c) ==
    IF c.closed \/ c.writing \/ c.write_queue = <<>> THEN Same(c)
    ELSE IF c.closing THEN Same(Dropped(c))
    ELSE Same(HandedOver(c)) \cup
         {[client |-> Dropped(c), failed |-> 1] : f \in (faults + 1)..MAX_FAULTS}

EnqueueWrite(c, text) ==
    IF c.closed THEN Same(c) ELSE StartWrite([c EXCEPT !.write_queue = Append(@, text)])

\* The object at address a has one of the outcomes.
Becomes(a, outcomes) ==
    \E o \in outcomes :
        /\ client' = [client EXCEPT ![a] = o.client]
        /\ faults' = faults + o.failed

AfterWriteStillWriting(c) ==  \* fault: `writing' is not reset
    [c EXCEPT !.pending = Tail(@)]

\* on_write, but for the write it starts.
AfterWrite(c) == [c EXCEPT !.pending = Tail(@), !.writing = c.closed]

\* on_write for the oldest write.
OnWrite(a) ==
    /\ Idle /\ Live(a) /\ client[a].pending # <<>>
    /\ sent' = [sent EXCEPT ![client[a].conn] = Append(@, Head(client[a].pending))]
    /\ Becomes(a, StartWrite(AfterWrite(client[a])))
    /\ UNCHANGED <<req_to_client_, next_request_id, response_queue, async, at, scheduler,
                   crashed, accepted, asker, received>>

\* on_write with an error: the write failed or was cancelled by uv_close.  The
\* next one is started all the same.
OnWriteFails(a) ==
    /\ Idle /\ Live(a) /\ client[a].pending # <<>>
    /\ \E o \in StartWrite(AfterWrite(client[a])) :
           /\ client' = [client EXCEPT ![a] = o.client]
           /\ faults' = faults + o.failed + IF client[a].closed THEN 0 ELSE 1
    /\ faults' <= MAX_FAULTS
    /\ UNCHANGED <<req_to_client_, next_request_id, response_queue, async, at, scheduler,
                   crashed, history>>
-----------------------------------------------------------------------------
(* Connections *)

\* on_new_connection.  When uv_accept or uv_read_start fails the handle is
\* closed again, without setting `closed'.
OnNewConnection(a) ==
    /\ Idle /\ ~Live(a) /\ accepted < MAX_CONNECTIONS
    /\ accepted' = accepted + 1
    /\ \E failed \in BOOLEAN :
          client' = [client EXCEPT ![a] = [NewClient(accepted + 1) EXCEPT !.closing = failed]]
    /\ UNCHANGED <<req_to_client_, next_request_id, response_queue, async, at, scheduler,
                   faults, crashed, asker, received, sent>>

\* on_read with data: the bytes join what is left of the last read.
OnRead(a, bytes) ==
    /\ Idle /\ Live(a) /\ ~client[a].closing
    /\ received' = received + Len(bytes) /\ received' <= MAX_BYTES
    /\ client' = [client EXCEPT ![a].read_buffer = @ \o bytes]
    /\ at' = a
    /\ UNCHANGED <<req_to_client_, next_request_id, response_queue, async, scheduler,
                   faults, crashed, accepted, asker, sent>>

SameId == next_request_id  \* fault: the ++ is missing

NextId == next_request_id + 1

\* The loop over the complete lines.  A line without a token is refused, any
\* other becomes a request of this client.
NextLine(a) ==
    /\ at = a /\ ~crashed
    /\ LET c    == client[a]
           pos  == SelectInSeq(c.read_buffer, LAMBDA b : b = "nl")
           line == SubSeq(c.read_buffer, 1, pos - 1)
           rest == [c EXCEPT !.read_buffer = SubSeq(@, pos + 1, Len(@))]
       IN  /\ pos > 0
           /\ \/ /\ line = <<>>
                 /\ Becomes(a, EnqueueWrite(rest, Invalid))
                 /\ UNCHANGED <<req_to_client_, next_request_id, asker>>
              \/ /\ line # <<>>
                 /\ client' = [client EXCEPT ![a] = rest]
                 /\ req_to_client_' = [id \in DOMAIN req_to_client_ \cup {next_request_id} |->
                        IF id = next_request_id THEN a ELSE req_to_client_[id]]
                 /\ asker' = Append(asker, c.conn)
                 /\ next_request_id' = NextId
                 /\ UNCHANGED faults
    /\ UNCHANGED <<response_queue, async, at, scheduler, crashed, accepted, received, sent>>

OnReadReturns(a) ==
    /\ at = a /\ ~crashed
    /\ ~Contains(client[a].read_buffer, "nl")
    /\ at' = "idle"
    /\ UNCHANGED <<client, req_to_client_, next_request_id, response_queue, async, scheduler,
                   faults, crashed, history>>

\* on_read with UV_EOF, an error, or nothing at all (nread = 0).
OnReadEnds(a) ==
    /\ Idle /\ Live(a) /\ ~client[a].closing
    /\ client' = [client EXCEPT ![a].closed = TRUE, ![a].closing = TRUE]
    /\ UNCHANGED <<req_to_client_, next_request_id, response_queue, async, at, scheduler,
                   faults, crashed, history>>

\* libuv calls back the writes of a closing handle before it calls
\* on_client_closed, which deletes the object.
OnClientClosed(a) ==
    /\ Idle /\ Live(a) /\ client[a].closing /\ client[a].pending = <<>>
    /\ client' = [client EXCEPT ![a] = Freed]
    /\ UNCHANGED <<req_to_client_, next_request_id, response_queue, async, at, scheduler,
                   faults, crashed, history>>
-----------------------------------------------------------------------------
(* Responses *)

\* The scheduler thread: one more response for a request it has.
Respond(id) ==
    /\ id < next_request_id /\ id \notin finals /\ ~crashed
    /\ answered' = [answered EXCEPT ![id] = @ + 1]
    /\ \E finished \in BOOLEAN :
          /\ answered[id] + 1 = MAX_NEW_TOKENS => finished
          /\ finals' = IF finished THEN finals \cup {id} ELSE finals
          /\ response_queue' = Append(response_queue,
                 [request_id |-> id, token |-> answered[id] + 1, finished |-> finished])
    /\ async' = TRUE
    /\ UNCHANGED <<client, req_to_client_, next_request_id, at, faults, crashed, history>>

ServeAsync ==
    /\ Idle /\ async
    /\ async' = FALSE /\ at' = "responses"
    /\ UNCHANGED <<client, req_to_client_, next_request_id, response_queue, scheduler, faults,
                   crashed, history>>

EraseNever(resp) == req_to_client_  \* fault: the entry stays

\* The map after a response: the last one erases its entry.
AfterResponse(resp) ==
    IF resp.finished
    THEN [id \in DOMAIN req_to_client_ \ {resp.request_id} |-> req_to_client_[id]]
    ELSE req_to_client_

\* One turn of on_response_async.  The address may be that of a deleted object:
\* reading `closed' there is undefined.  As long as nothing else has been put
\* there it is still TRUE, as on_read left it; else anything may happen.
OnResponse ==
    /\ at = "responses" /\ ~crashed /\ response_queue # <<>>
    /\ response_queue' = Tail(response_queue)
    /\ LET resp == Head(response_queue)
           a    == req_to_client_[resp.request_id]
       IN  IF resp.request_id \notin DOMAIN req_to_client_
           THEN UNCHANGED <<client, req_to_client_, faults, crashed>>
           ELSE /\ req_to_client_' = AfterResponse(resp)
                /\ IF Live(a)
                   THEN Becomes(a, EnqueueWrite(client[a], resp)) /\ UNCHANGED crashed
                   ELSE crashed' \in BOOLEAN /\ UNCHANGED <<client, faults>>
    /\ UNCHANGED <<next_request_id, async, at, scheduler, history>>

ResponseRead ==  \* fault: `if' in the place of `while'
    /\ at = "responses" /\ ~crashed
    /\ at' = "idle"
    /\ UNCHANGED <<client, req_to_client_, next_request_id, response_queue, async, scheduler,
                   faults, crashed, history>>

ResponsesRead ==
    /\ at = "responses" /\ ~crashed /\ response_queue = <<>>
    /\ at' = "idle"
    /\ UNCHANGED <<client, req_to_client_, next_request_id, response_queue, async, scheduler,
                   faults, crashed, history>>

\* What a read may deliver: one byte or more, lines split anywhere.
Chunks == UNION {[1..n -> {"t", "nl"}] : n \in 1..MAX_BYTES}

\* The callbacks libuv is bound to make, and the loops they run.
EventLoop ==
    \/ ServeAsync \/ OnResponse \/ ResponsesRead
    \/ \E a \in Addresses : OnWrite(a) \/ OnWriteFails(a) \/ NextLine(a) \/ OnReadReturns(a) \/ OnClientClosed(a)

\* What the clients do.
Clients ==
    \E a \in Addresses :
        \/ OnNewConnection(a) \/ OnReadEnds(a)
        \/ \E bytes \in Chunks : OnRead(a, bytes)

Next == EventLoop \/ Clients \/ \E id \in Ids : Respond(id)

Spec == Init /\ [][Next]_vars

\* The loop runs and writes are called back (the clients read).  No client has to
\* connect, send or leave, and the scheduler does not have to answer: a request
\* it has deferred may wait for ever.
FairSpec == Spec /\ WF_vars(EventLoop)
-----------------------------------------------------------------------------
(* Properties *)

Responses == [request_id : Ids, token : 1..MAX_NEW_TOKENS, finished : BOOLEAN]
Texts == Responses \cup {Invalid}
ClientType == [conn : Connections, read_buffer : Seq({"t", "nl"}), write_queue : Seq(Texts),
               writing : BOOLEAN, closed : BOOLEAN, closing : BOOLEAN, pending : Seq(Texts)]

\* Every variable has its type; each request has an id of its own.
TypeOK ==
    /\ \A a \in Addresses : Live(a) => client[a] \in ClientType
    /\ DOMAIN req_to_client_ \subseteq Ids
    /\ \A id \in DOMAIN req_to_client_ : req_to_client_[id] \in Addresses
    /\ response_queue \in Seq(Responses)
    /\ async \in BOOLEAN /\ crashed \in BOOLEAN
    /\ at \in {"idle", "responses"} \cup Addresses
    /\ answered \in [Ids -> 0..MAX_NEW_TOKENS] /\ finals \subseteq Ids
    /\ faults \in 0..MAX_FAULTS /\ accepted \in 0..MAX_CONNECTIONS
    /\ asker \in Seq(Connections) /\ next_request_id = Len(asker) + 1
    /\ received \in 0..MAX_BYTES
    /\ sent \in [Connections -> Seq(Texts)]

\* A client has at most one write under way, which is what `writing' says; and
\* unless a uv_write failed, queued text is never left with no write under way
\* to fetch it.
OneWriteAtATime ==
    \A a \in Addresses : Live(a) =>
        LET c == client[a]
        IN  /\ Len(c.pending) <= 1
            /\ ~c.closed => (c.writing <=> c.pending # <<>>)
            /\ (~c.closed /\ c.write_queue # <<>> /\ faults = 0) => c.writing

\* req_to_client_ has an entry for every request whose last response has not
\* been handled and for no other, whatever became of the client: no response
\* finds its entry gone, and no entry stays behind.
MapHoldsTheUnanswered ==
    DOMAIN req_to_client_ =
        {id \in 1..(next_request_id - 1) :
            id \in finals => \E i \in DOMAIN response_queue :
                response_queue[i].request_id = id /\ response_queue[i].finished}

\* What client c has been written, then what it is to be written in this order, as
\* far as the responses not read yet are its own.
Stream(c) == sent[c.conn] \o c.pending \o c.write_queue \o response_queue

\* On its way to an open client the responses to a request of its own keep their
\* order and none is there twice; as long as no write fails none is missing.  A
\* failed write leaves a gap and never changes the order.
StreamInOrder ==
    \A a \in Addresses : (Live(a) /\ ~client[a].closing) =>
        \A id \in 1..(next_request_id - 1) : asker[id] = client[a].conn =>
            LET stream == Stream(client[a])
                own    == {i \in DOMAIN stream : stream[i].request_id = id}
            IN  /\ \A i, j \in own : i < j => stream[i].token < stream[j].token
                /\ faults = 0 => {stream[i].token : i \in own} = 1..answered[id]

Gone(n) == \A a \in Addresses : client[a].conn = n => client[a].closed

\* What the scheduler has answered to the request has been written to its
\* client, or the client has left.
AllSent(id) ==
    /\ id < next_request_id
    /\ \/ Gone(asker[id])
       \/ \A t \in 1..answered[id] : \E i \in DOMAIN sent[asker[id]] :
              sent[asker[id]][i].request_id = id /\ sent[asker[id]][i].token = t

\* Every response that the scheduler gives is written to the client in the end,
\* as long as the client stays and no write fails, whatever other clients do and
\* whether or not the scheduler answers any further: after an answer there comes
\* a time when all that was answered is with the client.
ResponsesAreSent ==
    \A id \in Ids : answered[id] > 0 ~> (AllSent(id) \/ faults > 0 \/ crashed)

\* A client is written only the responses to its own requests.
ResponsesGoToTheAsker ==
    \A n \in Connections : \A i \in DOMAIN sent[n] :
        sent[n][i] # Invalid => asker[sent[n][i].request_id] = n

\* The scheduler sees the event loop through these.
Contract == INSTANCE Answers
    WITH Requests <- Ids,
         asked    <- 1..(next_request_id - 1),
         unread   <- response_queue # <<>>,
         woken    <- async \/ at = "responses"

\* Whatever its clients do, the event loop hands over each request once and
\* never goes back to sleep on a response that nothing will wake it for.
ImplementsAnswers == Contract!Spec
=============================================================================
