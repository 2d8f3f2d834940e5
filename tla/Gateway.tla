------------------------------- MODULE Gateway -------------------------------
(***************************************************************************)
(* Messages of chat platforms that enter the Core.  A listener process is  *)
(* a QQ gateway client, which keeps a session file and resumes the         *)
(* session after a lost connection or a restart; a WeCom or OpenClaw       *)
(* client, which holds one connection and no file; or a QQ webhook server, *)
(* with a thread per request.  Each runs the Core workflow for every       *)
(* message, stops at max_events or at its deadline, and prints an answer.  *)
(*                                                                         *)
(* A session of the platform is a number and 0 is no session; its events   *)
(* carry the numbers 1 (READY), 2, 3...  A message is the pair of its      *)
(* session and its number.  Listeners run one after another, as they share *)
(* the session file.                                                       *)
(***************************************************************************)
EXTENDS Naturals, FiniteSets, FiniteSetsExt

CONSTANTS
    MayBe,        \* the kinds each listener may be
    Threads,      \* the requests a webhook server has in hand (the code sets no bound)
    MaxRuns,      \* bound on the listeners started
    MaxSessions,  \* bound on the sessions the platform opens
    MaxNumber,    \* bound on the numbers of a session
    MaxPosts,     \* bound on the messages that have no session
    Noise,        \* numbers of events that are not messages
    MaxEvents,    \* max_events, when it is not 0 (no limit)
    MaxResume,    \* max_resume_attempts
    NoFile, Torn  \* no session file; a session file cut off while written

Kinds == {"qq", "wecom", "openclaw", "webhook"}

ASSUME MayBeAssumption == MayBe \in [1..MaxRuns -> SUBSET Kinds]
ASSUME BoundsAssumption ==
    /\ MaxRuns \in Nat /\ MaxSessions \in Nat /\ MaxNumber \in Nat \ {0}
    /\ MaxPosts \in Nat /\ MaxEvents \in Nat \ {0} /\ MaxResume \in Nat
    /\ Noise \subseteq Nat /\ IsFiniteSet(Threads)

VARIABLES
    client,   \* the memory of the listener that runs
    conn,     \* what the platform knows of its connection
    file,     \* the session file
    server,   \* the platform: sessions it holds, events it has for them
    thread,   \* requests in hand of a webhook server
    hist      \* history: messages ingested, cut off, accepted past max_events
vars == <<client, conn, file, server, thread, hist>>

Sessions == 1..MaxSessions
Message == (Sessions \X (2..MaxNumber)) \cup ({0} \X (1..MaxPosts))
NoMessage == <<0, 0>>
Payload == [type : {"none", "READY", "RESUMED", "reconnect", "invalid"}, m : {NoMessage}]
           \cup [type : {"message"}, m : Message]
Just(type) == [type |-> type, m |-> NoMessage]
NoConn == [mode |-> "none", sid |-> 0, next |-> 0]
NoClient == [kind |-> "none", at |-> "off", sid |-> 0, seq |-> 0, can |-> FALSE,
             attempts |-> 0, resuming |-> FALSE, count |-> 0, ready |-> FALSE,
             msg |-> Just("none"), expired |-> FALSE]

Client == [kind : Kinds \cup {"none"},
           at : {"off", "loop", "connect", "recv", "got", "ingested", "after", "serve",
                 "accept"},
           sid : {0} \cup Sessions, seq : 0..MaxNumber, can : BOOLEAN,
           attempts : Nat, resuming : BOOLEAN,
           count : Nat, ready : BOOLEAN, msg : Payload,
           expired : BOOLEAN]
SessionState == [sid : {0} \cup Sessions, seq : 0..MaxNumber, can : BOOLEAN]

\* No file and a file that does not parse are told from one that does.
ASSUME MarkersAssumption ==
    NoFile \notin SessionState /\ Torn \notin SessionState /\ NoFile # Torn

\* The shape of the state.
TypeOK ==
    /\ client \in Client
    /\ conn \in [mode : {"none", "identify", "resume", "live"},
                 sid : {0} \cup Sessions, next : 0..MaxNumber + 1]
    /\ file \in SessionState \cup {NoFile, Torn}
    /\ server \in [held : SUBSET Sessions, newest : 0..MaxSessions,
                   last : [Sessions -> 0..MaxNumber], posts : 0..MaxPosts,
                   runs : 0..MaxRuns]
    /\ thread \in [Threads -> [at : {"idle", "ingest", "count"},
                               msg : {NoMessage} \cup Message]]
    /\ hist \in [got : SUBSET Message, again : SUBSET Message,
                 lost : SUBSET (Sessions \X (2..MaxNumber)), mine : Nat, mixed : BOOLEAN,
                 late : Nat]

Init ==
    /\ client = NoClient /\ conn = NoConn /\ file = NoFile
    /\ server = [held |-> {}, newest |-> 0, last |-> [s \in Sessions |-> 0],
                 posts |-> 0, runs |-> 0]
    /\ thread = [t \in Threads |-> [at |-> "idle", msg |-> NoMessage]]
    /\ hist = [got |-> {}, again |-> {}, lost |-> {}, mine |-> 0, mixed |-> FALSE,
               late |-> 0]

At(step) == client.at = step

\* max_events is reached or the deadline has passed.
Enough == client.count >= MaxEvents \/ client.expired

\* persist_session_state: session and number as they are, can as given.
Persist(c, can) == file' = [sid |-> c.sid, seq |-> c.seq, can |-> can]

\* run_no_model_dry_run as the listeners see it: each call has a router of
\* its own, so that a message it saw before is acted on again.
Ingested(m) ==
    hist' = [hist EXCEPT !.got = @ \cup {m}, !.mine = @ + 1,
                         !.again = IF m \in hist.got THEN @ \cup {m} ELSE @]

\* The listener is gone.  A message it had taken but not stored is lost.
\* Messages without a session never come back: the history drops them, and
\* the next listener numbers its own from 1.
WithSession(ms) == {m \in ms : m[1] # 0}
End ==
    /\ client' = NoClient /\ conn' = NoConn
    /\ thread' = [t \in Threads |-> [at |-> "idle", msg |-> NoMessage]]
    /\ hist' = [hist EXCEPT
         !.mine = 0, !.late = 0, !.got = WithSession(@),
         !.mixed = @ \/ (At("got") /\ client.msg.type = "READY" /\ client.sid # 0),
         !.lost = WithSession(@ \cup ({client.msg.m} \ hist.got))]

-----------------------------------------------------------------------------
\* The platform (external).

\* A user writes: the newest session has one more event.
Say ==
    /\ server.newest \in server.held
    /\ server.last[server.newest] < MaxNumber
    /\ server' = [server EXCEPT !.last[server.newest] = @ + 1]
    /\ UNCHANGED <<client, conn, file, thread, hist>>

\* The platform forgets a session.
Forget(s) ==
    /\ s \in server.held
    /\ server' = [server EXCEPT !.held = @ \ {s}]
    /\ UNCHANGED <<client, conn, file, thread, hist>>

-----------------------------------------------------------------------------
\* Starting a listener.

\* _load_gateway_session_state: a file that is cut off does not parse.
load_session ==
    IF file = NoFile THEN [sid |-> 0, seq |-> 0, can |-> FALSE] ELSE file

FirstStep(kind) == CASE kind = "qq" -> "loop"
                     [] kind = "webhook" -> "serve"
                     [] OTHER -> "connect"

\* The profile is ready, the credentials are there, the access token comes.
Start(kind) ==
    /\ At("off") /\ server.runs < MaxRuns /\ kind \in MayBe[server.runs + 1]
    /\ kind = "qq" => file # Torn
    /\ LET from == IF kind = "qq" THEN load_session
                   ELSE [sid |-> 0, seq |-> 0, can |-> FALSE]
       IN  client' = [NoClient EXCEPT !.kind = kind, !.at = FirstStep(kind),
                        !.sid = from.sid, !.seq = from.seq, !.can = from.can]
    /\ server' = [server EXCEPT !.runs = @ + 1, !.posts = 0]
    /\ UNCHANGED <<conn, file, thread, hist>>

\* No ready profile, no credential, no token, or a session file that does
\* not parse: the command ends with an error.
StartFails ==
    /\ At("off") /\ server.runs < MaxRuns
    /\ server' = [server EXCEPT !.runs = @ + 1]
    /\ UNCHANGED <<client, conn, file, thread, hist>>

\* The deadline of the listener passes.
Expire ==
    /\ ~At("off") /\ ~client.expired
    /\ client' = [client EXCEPT !.expired = TRUE]
    /\ UNCHANGED <<conn, file, server, thread, hist>>

\* The process is killed.  The session file is truncated and then written,
\* so that it may be left cut off by a step that writes it.
Crash ==
    /\ ~At("off") /\ End
    /\ \/ file' = file
       \/ /\ client.kind = "qq" /\ client.at \in {"recv", "got", "ingested", "after"}
          /\ file' = Torn
    /\ UNCHANGED server

-----------------------------------------------------------------------------
\* The connection of a client.

\* The answer is printed and the process ends.
Answer == End /\ UNCHANGED <<file, server>>

\* The top of the loop of a QQ client.
Loop ==
    /\ At("loop")
    /\ IF Enough THEN Answer
       ELSE LET resume == client.can /\ client.sid # 0 /\ client.seq # 0
            IN  /\ client' = [client EXCEPT !.at = "connect", !.resuming = resume,
                                !.attempts = IF resume THEN @ + 1 ELSE @]
                /\ UNCHANGED <<conn, file, server, thread, hist>>

\* Mutant: the number after the last one is asked for.
Connect_Mutant ==
    /\ At("connect")
    /\ client' = [client EXCEPT !.at = "recv"]
    /\ conn' = IF client.kind = "qq" /\ client.resuming
               THEN [mode |-> "resume", sid |-> client.sid,
                     next |-> Min({client.seq + 2, MaxNumber + 1})]
               ELSE [mode |-> "identify", sid |-> 0, next |-> 0]
    /\ UNCHANGED <<file, server, thread, hist>>

\* The connection opens.  A QQ client waits for HELLO and sends RESUME with
\* its session and number, or IDENTIFY; the others say who they are.
Connect ==
    /\ At("connect")
    /\ client' = [client EXCEPT !.at = "recv"]
    /\ conn' = IF client.kind = "qq" /\ client.resuming
               THEN [mode |-> "resume", sid |-> client.sid, next |-> client.seq + 1]
               ELSE [mode |-> "identify", sid |-> 0, next |-> 0]
    /\ UNCHANGED <<file, server, thread, hist>>

\* No connection, no HELLO in time: the exception ends the command.
Refused == At("connect") /\ End /\ UNCHANGED <<file, server>>

\* The connection is lost.  Only the QQ client catches that.
Closed ==
    /\ client.at \in {"connect", "recv"}
    /\ IF client.kind = "qq"
       THEN /\ client' = [client EXCEPT !.at = "after"]
            /\ conn' = NoConn
            /\ UNCHANGED <<thread, hist>>
       ELSE End
    /\ UNCHANGED <<file, server>>

\* Enough messages, or no message until the deadline: the connection is left.
LeaveRecv ==
    /\ At("recv") /\ Enough
    /\ IF client.kind = "qq"
       THEN /\ client' = [client EXCEPT !.at = "after"]
            /\ conn' = NoConn
            /\ UNCHANGED <<file, server, thread, hist>>
       ELSE Answer

\* Mutant: neither the deadline nor the count ends the loop.
After_Endless ==
    /\ At("after")
    /\ client' = [client EXCEPT !.at = "connect"]
    /\ UNCHANGED <<conn, file, server, thread, hist>>

\* After a connection: the end, giving the session up, or the loop again.
After ==
    /\ At("after")
    /\ CASE Enough -> Answer
         [] ~Enough /\ client.resuming /\ client.attempts >= MaxResume ->
              /\ Persist(client, FALSE) /\ End /\ UNCHANGED server
         [] OTHER ->
              /\ client' = [client EXCEPT !.at = "loop"]
              /\ UNCHANGED <<conn, file, server, thread, hist>>

-----------------------------------------------------------------------------
\* Receiving, in a QQ client.

\* Mutant: the number is written once the message is ingested.
TakeNumbered_Mutant(m, n) ==
    /\ client' = [client EXCEPT !.at = "got", !.msg = m, !.seq = n]
    /\ UNCHANGED file

\* A payload with number n is taken: the number goes to the file before
\* anything is done about the payload.
TakeNumbered(m, n) ==
    LET c == [client EXCEPT !.at = "got", !.msg = m, !.seq = n]
    IN  client' = c /\ Persist(c, c.sid # 0)

Take(m) == client' = [client EXCEPT !.at = "got", !.msg = m] /\ UNCHANGED file

Receive ==
    /\ At("recv") /\ ~Enough /\ client.kind = "qq"
    /\ \/ /\ conn.mode = "identify" /\ server.newest < MaxSessions
          /\ LET s == server.newest + 1
             IN  /\ server' = [server EXCEPT !.newest = s, !.held = @ \cup {s},
                                             !.last[s] = 1]
                 /\ conn' = [mode |-> "live", sid |-> s, next |-> 2]
          /\ TakeNumbered(Just("READY"), 1)
       \/ /\ conn.mode \in {"live", "resume"} /\ conn.sid \in server.held
          /\ conn.next <= server.last[conn.sid]
          /\ conn' = [conn EXCEPT !.next = @ + 1]
          /\ TakeNumbered([type |-> "message", m |-> <<conn.sid, conn.next>>], conn.next)
          /\ UNCHANGED server
       \/ /\ conn.mode = "resume" /\ conn.sid \in server.held
          /\ conn.next > server.last[conn.sid]
          /\ conn' = [conn EXCEPT !.mode = "live"]
          /\ Take(Just("RESUMED")) /\ UNCHANGED server
       \/ /\ conn.mode = "live" /\ Take(Just("reconnect")) /\ UNCHANGED <<conn, server>>
       \/ /\ Take(Just("invalid")) /\ UNCHANGED <<conn, server>>
    /\ UNCHANGED <<thread, hist>>

Leave(c) == client' = [c EXCEPT !.at = "after", !.msg = Just("none")] /\ conn' = NoConn
Again(c) == client' = [c EXCEPT !.at = "recv", !.msg = Just("none")] /\ UNCHANGED conn

\* What is no message: reconnect (op 7), invalid session (op 9), READY,
\* RESUMED, an event of another type.  Acknowledgements change nothing.
Handle ==
    /\ At("got") /\ client.kind = "qq"
    /\ \/ /\ client.msg.type = "reconnect"
          /\ Leave([client EXCEPT !.can = TRUE]) /\ Persist(client, TRUE)
       \/ /\ client.msg.type = "invalid"
          /\ LET c == [client EXCEPT !.can = FALSE, !.sid = 0]
             IN  Leave(c) /\ Persist(c, FALSE)
       \/ /\ client.msg.type = "READY"
          /\ LET c == [client EXCEPT !.ready = TRUE, !.sid = conn.sid, !.can = TRUE]
             IN  Again(c) /\ Persist(c, TRUE)
       \/ /\ client.msg.type = "RESUMED"
          /\ Again([client EXCEPT !.can = TRUE]) /\ Persist(client, TRUE)
       \/ /\ client.msg.type = "message" /\ client.msg.m[2] \in Noise
          /\ Again(client) /\ UNCHANGED file
    /\ UNCHANGED <<server, thread, hist>>

\* READY, or a message, which such a platform sends once.
TakePlain ==
    \/ client' = [client EXCEPT !.ready = TRUE] /\ UNCHANGED server
    \/ /\ server.posts < MaxPosts
       /\ server' = [server EXCEPT !.posts = @ + 1]
       /\ client' = [client EXCEPT !.at = "got",
                             !.msg = [type |-> "message", m |-> <<0, server.posts + 1>>]]

ReceiveWeCom ==
    /\ At("recv") /\ ~Enough /\ client.kind = "wecom"
    /\ TakePlain /\ UNCHANGED <<conn, file, thread, hist>>

ReceiveOpenClaw ==
    /\ At("recv") /\ ~Enough /\ client.kind = "openclaw"
    /\ TakePlain /\ UNCHANGED <<conn, file, thread, hist>>

ToIngest == client.msg.type = "message"
            /\ (client.kind = "qq" => client.msg.m[2] \notin Noise)

Ingest ==
    /\ At("got") /\ ToIngest
    /\ Ingested(client.msg.m)
    /\ client' = [client EXCEPT !.at = "ingested"]
    /\ UNCHANGED <<conn, file, server, thread>>

\* The run of the workflow raises: nothing in a client catches it.
IngestFails == At("got") /\ ToIngest /\ End /\ UNCHANGED <<file, server>>

\* The message is counted, and a QQ client writes its file once more.
Count ==
    /\ At("ingested")
    /\ LET c == [client EXCEPT !.count = @ + 1]
       IN  /\ Again(c)
           /\ IF client.kind = "qq" THEN Persist(c, c.sid # 0) ELSE UNCHANGED file
    /\ UNCHANGED <<server, thread, hist>>

-----------------------------------------------------------------------------
\* The webhook server.

\* Mutant: the loop looks at the deadline only.
Serve_Mutant ==
    /\ At("serve") /\ ~client.expired
    /\ client' = [client EXCEPT !.at = "accept"]
    /\ UNCHANGED <<conn, file, server, thread, hist>>

\* The top of the loop: neither the deadline nor max_events ends it, and
\* handle_request begins to wait for a request.
Serve ==
    /\ At("serve") /\ ~Enough
    /\ client' = [client EXCEPT !.at = "accept"]
    /\ UNCHANGED <<conn, file, server, thread, hist>>

\* handle_request accepts a request and gives it a thread of its own.  The
\* count may have reached max_events since the loop looked at it.
Request(t) ==
    /\ At("accept") /\ thread[t].at = "idle"
    /\ server.posts < MaxPosts
    /\ server' = [server EXCEPT !.posts = @ + 1]
    /\ thread' = [thread EXCEPT ![t] = [at |-> "ingest", msg |-> <<0, server.posts + 1>>]]
    /\ client' = [client EXCEPT !.at = "serve"]
    /\ hist' = [hist EXCEPT !.late = IF client.count >= MaxEvents THEN @ + 1 ELSE @]
    /\ UNCHANGED <<conn, file>>

\* handle_request waited long enough; or what came was for another path, not
\* JSON, a validation request or an event of another type, and is answered
\* without the Core.
NoRequest ==
    /\ At("accept")
    /\ client' = [client EXCEPT !.at = "serve"]
    /\ UNCHANGED <<conn, file, server, thread, hist>>

ThreadIngest(t) ==
    /\ thread[t].at = "ingest"
    /\ Ingested(thread[t].msg)
    /\ thread' = [thread EXCEPT ![t].at = "count"]
    /\ UNCHANGED <<client, conn, file, server>>

\* Mutant: a request whose run raised is counted.
ThreadFails_Mutant(t) ==
    /\ thread[t].at = "ingest"
    /\ thread' = [thread EXCEPT ![t] = [at |-> "idle", msg |-> NoMessage]]
    /\ client' = [client EXCEPT !.count = @ + 1]
    /\ UNCHANGED <<conn, file, server, hist>>

\* The run of the workflow raises: the request is answered with 500.
ThreadFails(t) ==
    /\ thread[t].at = "ingest"
    /\ thread' = [thread EXCEPT ![t] = [at |-> "idle", msg |-> NoMessage]]
    /\ UNCHANGED <<client, conn, file, server, hist>>

ThreadCount(t) ==
    /\ thread[t].at = "count"
    /\ thread' = [thread EXCEPT ![t] = [at |-> "idle", msg |-> NoMessage]]
    /\ client' = [client EXCEPT !.count = @ + 1]
    /\ UNCHANGED <<conn, file, server, hist>>

\* The server is closed and the process ends; the threads are daemons, no
\* one waits for them.
ServeEnds == At("serve") /\ Enough /\ Answer

-----------------------------------------------------------------------------
ClientStep ==
    \/ Loop \/ Connect \/ Refused \/ Closed \/ LeaveRecv \/ After
    \/ Receive \/ Handle \/ ReceiveWeCom \/ ReceiveOpenClaw \/ Ingest \/ IngestFails \/ Count
    \/ Serve \/ NoRequest \/ ServeEnds

Next ==
    \/ Say \/ \E s \in Sessions : Forget(s)
    \/ \E kind \in Kinds : Start(kind)
    \/ StartFails \/ Expire \/ Crash
    \/ ClientStep
    \/ \E t \in Threads : Request(t) \/ ThreadIngest(t) \/ ThreadFails(t) \/ ThreadCount(t)

Spec == Init /\ [][Next]_vars

\* Time passes, and a listener that can take a step takes one: receiving
\* has a time-out, and the calls it makes return.
FairSpec == Spec /\ WF_vars(Expire) /\ WF_vars(ClientStep)

-----------------------------------------------------------------------------
\* The number of a message is in the file before the message is ingested,
\* so that no restart and no resumption ingests it again.  The exception:
\* a listener ended after it had stored the number of a READY under the
\* session it was to replace (run_qq_official_gateway_client persists the
\* number of every payload before it looks at the payload).
IngestedOnce == hist.mixed \/ hist.again = {}

\* Every message of the session whose number the client has passed was
\* ingested, is being handled, or was being handled when a listener ended:
\* resuming skips nothing, whatever reconnections and restarts lie between.
NothingSkipped ==
    conn.sid # 0 =>
        \A n \in (2..conn.next - 1) \ Noise :
            <<conn.sid, n>> \in hist.got \cup hist.lost \cup {client.msg.m}

\* The answer counts no message that was not ingested by this listener, and
\* a client counts all of them.  A webhook server may have ingested more: it
\* does not wait for its threads.
CountsWhatWasIngested ==
    /\ client.count <= hist.mine
    /\ client.at \in {"loop", "connect", "recv", "after"} => client.count = hist.mine

\* A client ingests no more than max_events.  A webhook server may: requests
\* it has in hand when the last one is counted are ingested as well, and one
\* more may be accepted by the handle_request that had begun before, but no
\* second one.  However often the platform closes, invalidates or refuses
\* sessions, a client resumes no more than max_resume_attempts times (or once).
WithinLimits ==
    /\ client.kind # "webhook" => hist.mine <= MaxEvents
    /\ hist.late <= 1
    /\ client.attempts <= Max({1, MaxResume})

\* A listener ends: whatever the platform does, the deadline ends it.
ListenersEnd == ~At("off") ~> At("off")
=============================================================================
