--------------------------- MODULE Gateway_proofs ---------------------------
(***************************************************************************)
(* Theorems about the listeners for any number of listeners of any kind,   *)
(* sessions, numbers, threads and limits, and for whatever the platform    *)
(* does: it may close, refuse, invalidate and forget at any step, and a    *)
(* listener may be killed at any step.                                     *)
(***************************************************************************)
EXTENDS Gateway, FiniteSetTheorems, TLAPS

\* Where a listener of each kind can be, and what it holds there.
ShapeOK ==
    /\ At("off") <=> client.kind = "none"
    /\ client.at \in {"serve", "accept"} <=> client.kind = "webhook"
    /\ client.at \in {"loop", "after"} => client.kind = "qq"
    /\ client.at \notin {"recv", "got", "ingested"} => conn = NoConn
    /\ client.at \notin {"got", "ingested"} => client.msg = Just("none")
    /\ At("ingested") => client.msg.type = "message"
    /\ conn.mode \in {"live", "resume"} => client.kind = "qq" /\ conn.next >= 2
    /\ conn.mode \notin {"live", "resume"} => conn.sid = 0
    /\ client.resuming /\ At("connect") => client.kind = "qq" /\ client.seq # 0
    /\ client.kind # "webhook" => \A t \in Threads : thread[t].at = "idle"

\* Threads of a webhook server that have ingested and not counted.
Counting == {t \in Threads : thread[t].at = "count"}

\* The count and what was really ingested, by kind and step; a request was
\* accepted past max_events only if the loop is about to see that and end.
CountOK ==
    /\ At("off") => client.count = 0 /\ hist.mine = 0
    /\ client.at \in {"loop", "connect", "recv", "got", "after"}
          => client.count = hist.mine /\ client.count <= MaxEvents
    /\ At("got") => client.count < MaxEvents
    /\ At("ingested") => hist.mine = client.count + 1 /\ hist.mine <= MaxEvents
    /\ client.at \in {"serve", "accept"}
          => hist.mine = client.count + Cardinality(Counting)
    /\ hist.late = 0 \/ (At("serve") /\ hist.late = 1 /\ client.count >= MaxEvents)

\* A client goes on only while it has attempts left, and the attempt it makes
\* is the only one that can use up the last.
AttemptsOK ==
    /\ ~client.resuming => client.attempts = 0 \/ client.attempts < MaxResume
    /\ At("loop") => client.attempts = 0 \/ client.attempts < MaxResume
    /\ client.attempts <= 1 \/ client.attempts <= MaxResume

-----------------------------------------------------------------------------
\* The client holds the number of a READY under the session it replaces.
Replacing == At("got") /\ client.msg.type = "READY"

\* The session file, the client and the connection agree.
SessionOK ==
    /\ server.held \subseteq 1..server.newest
    /\ conn.sid <= server.newest
    /\ file \in SessionState => file.sid <= server.newest
    /\ client.kind = "qq" =>
          \/ file = NoFile /\ client.sid = 0 /\ client.seq = 0
          \/ file \in SessionState /\ file.sid = client.sid /\ file.seq = client.seq
    /\ conn.mode \in {"live", "resume"} =>
          /\ client.seq + 1 = conn.next
          /\ ~Replacing => client.sid = conn.sid
    /\ Replacing => client.kind = "qq" /\ conn.mode = "live" /\ conn.next = 2
    /\ client.at \in {"got", "ingested"} /\ client.msg.type = "message" =>
          IF client.kind = "qq"
          THEN client.msg.m = <<conn.sid, client.seq>> /\ conn.sid # 0
          ELSE client.msg.m[1] = 0

\* Nothing is skipped: neither by the connection nor by the file, which is
\* all that a later listener has.
PassedOK(sid, next, done) ==
    sid # 0 => \A n \in (2..next - 1) \ Noise : <<sid, n>> \in done

SkipOK ==
    /\ At("ingested") => client.msg.m \in hist.got
    /\ PassedOK(conn.sid, conn.next, hist.got \cup hist.lost \cup {client.msg.m})
    /\ file \in SessionState =>
         PassedOK(file.sid, file.seq + 1, hist.got \cup hist.lost \cup {client.msg.m})

\* Nothing comes twice: what was ingested of a session is behind the
\* connection and behind the file.
BehindOK(got, sid, next) == \A n \in Nat : <<sid, n>> \in got => n < next

OnceOK ==
    /\ hist.again = {}
    /\ \A m \in hist.got : m[1] <= server.newest
    /\ At("got") /\ client.msg.type = "message" => client.msg.m \notin hist.got
    /\ conn.sid # 0 => BehindOK(hist.got, conn.sid, conn.next)
    /\ file \in SessionState /\ file.sid # 0 =>
          \/ BehindOK(hist.got, file.sid, file.seq + 1)
          \/ Replacing /\ client.sid # 0

\* Messages without a session: what is in hand is new and all different.
PostsOK ==
    /\ At("off") => \A m \in hist.got : m[1] # 0
    /\ \A m \in hist.got : m[1] = 0 => m[2] <= server.posts
    /\ client.msg.m[2] <= server.posts \/ client.kind = "qq"
    /\ \A t \in Threads : thread[t].at = "ingest" =>
          /\ thread[t].msg \in Message \ hist.got
          /\ thread[t].msg[1] = 0 /\ thread[t].msg[2] <= server.posts
          /\ \A u \in Threads : thread[u].at = "ingest" /\ thread[u].msg = thread[t].msg
                                => u = t

\* The inductive invariant.
Inv ==
    /\ TypeOK /\ ShapeOK /\ CountOK /\ AttemptsOK /\ SessionOK /\ SkipOK
    /\ hist.mixed \/ OnceOK
    /\ PostsOK

-----------------------------------------------------------------------------
\* Lemmas about the model's operators.

LEMMA NoClientFacts ==
    /\ NoClient \in Client /\ NoClient.kind = "none" /\ NoClient.at = "off"
    /\ NoClient.sid = 0 /\ NoClient.seq = 0 /\ NoClient.attempts = 0
    /\ NoClient.count = 0 /\ NoClient.resuming = FALSE
    /\ NoClient.msg = Just("none") /\ NoClient.can = FALSE
    /\ NoClient.expired = FALSE
BY BoundsAssumption DEF NoClient, Client, Payload, Just

LEMMA NoConnFacts ==
    /\ NoConn \in [mode : {"none", "identify", "resume", "live"},
                   sid : {0} \cup Sessions, next : 0..MaxNumber + 1]
    /\ NoConn.mode = "none" /\ NoConn.sid = 0 /\ NoConn.next = 0
BY BoundsAssumption DEF NoConn

LEMMA JustFacts ==
    ASSUME NEW type \in {"none", "READY", "RESUMED", "reconnect", "invalid"}
    PROVE  /\ Just(type) \in Payload /\ Just(type).type = type
           /\ Just(type).m = <<0, 0>>
BY DEF Just, Payload, NoMessage

\* The payload of a client.
LEMMA PayloadFacts ==
    ASSUME NEW x \in Payload
    PROVE  /\ x.type = "message" => x.m \in Message
           /\ x.type # "message" => x.m = <<0, 0>>
BY DEF Payload, NoMessage

LEMMA MessageFacts ==
    ASSUME NEW m \in Message
    PROVE  /\ m = <<m[1], m[2]>> /\ m[1] \in Nat /\ m[2] \in Nat \ {0}
           /\ m[1] # 0 => m \in Sessions \X (2..MaxNumber)
           /\ m # NoMessage
BY BoundsAssumption DEF Message, Sessions, NoMessage

LEMMA MaxFacts ==
    /\ Max({1, MaxResume}) \in Nat
    /\ 1 <= Max({1, MaxResume}) /\ MaxResume <= Max({1, MaxResume})
<1> DEFINE S == {1, MaxResume}
<1>1. MaxResume \in Nat
  BY BoundsAssumption
<1>2. \E x \in S : \A y \in S : x >= y
  BY <1>1
<1>3. Max(S) \in S /\ \A y \in S : Max(S) >= y
  BY <1>2 DEF Max
<1> QED
  BY <1>1, <1>3

LEMMA ThreadSets ==
    ASSUME UNCHANGED thread
    PROVE  Counting' = Counting
BY DEF Counting

-----------------------------------------------------------------------------
\* The platform.

LEMMA PlatformStep ==
    ASSUME Inv, UNCHANGED <<client, conn, file, thread, hist>>,
           Say \/ (\E s \in Sessions : Forget(s)) \/ StartFails
    PROVE  Inv'
<1>1. /\ server' \in [held : SUBSET Sessions, newest : 0..MaxSessions,
                   last : [Sessions -> 0..MaxNumber], posts : 0..MaxPosts,
                   runs : 0..MaxRuns]
      /\ server'.newest = server.newest /\ server'.posts = server.posts
      /\ server'.held \subseteq server.held
  <2>1. server \in [held : SUBSET Sessions, newest : 0..MaxSessions,
                   last : [Sessions -> 0..MaxNumber], posts : 0..MaxPosts,
                   runs : 0..MaxRuns]
    BY DEF Inv, TypeOK
  <2>2. CASE Say
    <3>1. server.newest \in Sessions
      BY <2>1, <2>2 DEF Say
    <3>2. server.last[server.newest] + 1 \in 0..MaxNumber
      BY <2>1, <2>2, <3>1, BoundsAssumption DEF Say
    <3>3. server' = [server EXCEPT !.last =
                       [server.last EXCEPT ![server.newest] = @ + 1]]
      BY <2>2 DEF Say
    <3> QED
      BY <2>1, <3>1, <3>2, <3>3
  <2>3. CASE \E s \in Sessions : Forget(s)
    BY <2>1, <2>3 DEF Forget
  <2>4. CASE StartFails
    BY <2>1, <2>4, BoundsAssumption DEF StartFails
  <2> QED
    BY <2>2, <2>3, <2>4
<1>2. TypeOK'
  BY <1>1 DEF Inv, TypeOK
<1>3. ShapeOK' /\ CountOK' /\ AttemptsOK'
  BY ThreadSets DEF Inv, ShapeOK, CountOK, AttemptsOK, At
<1>4. SessionOK'
  BY <1>1 DEF Inv, SessionOK, Replacing, At
<1>5. SkipOK'
  BY DEF Inv, SkipOK, At
<1>6. hist.mixed' \/ OnceOK'
  BY <1>1 DEF Inv, OnceOK, Replacing, At, BehindOK
<1>7. PostsOK'
  BY <1>1 DEF Inv, PostsOK, At
<1> QED
  BY <1>2, <1>3, <1>4, <1>5, <1>6, <1>7 DEF Inv

-----------------------------------------------------------------------------
\* The end of a listener, with its file left alone, cut off or written.

LEMMA EndHist ==
    ASSUME TypeOK, End
    PROVE  /\ hist' \in [got : SUBSET Message, again : SUBSET Message,
                         lost : SUBSET (Sessions \X (2..MaxNumber)), mine : Nat,
                         mixed : BOOLEAN, late : Nat]
           /\ hist'.mine = 0 /\ hist'.late = 0 /\ hist'.again = hist.again
           /\ hist'.got = WithSession(hist.got)
           /\ hist'.lost = WithSession(hist.lost \cup ({client.msg.m} \ hist.got))
           /\ hist'.mixed = (hist.mixed \/ (Replacing /\ client.sid # 0))
<1> DEFINE l == WithSession(hist.lost \cup ({client.msg.m} \ hist.got))
           x == hist.mixed \/ (Replacing /\ client.sid # 0)
<1>1. hist \in [got : SUBSET Message, again : SUBSET Message,
                lost : SUBSET (Sessions \X (2..MaxNumber)), mine : Nat,
                mixed : BOOLEAN, late : Nat]
  BY DEF TypeOK
<1>2. client.msg \in Payload
  BY DEF TypeOK, Client
<1>3. client.msg.m \in Message \/ client.msg.m = <<0, 0>>
  BY <1>2, PayloadFacts
<1>4. l \subseteq Sessions \X (2..MaxNumber)
  <2> SUFFICES ASSUME NEW m \in l PROVE m \in Sessions \X (2..MaxNumber)
    OBVIOUS
  <2>1. CASE m \in hist.lost
    BY <1>1, <2>1
  <2>2. CASE m = client.msg.m
    BY <1>3, <2>2, MessageFacts DEF WithSession
  <2> QED
    BY <2>1, <2>2 DEF WithSession
<1>5. WithSession(hist.got) \subseteq Message
  BY <1>1 DEF WithSession
<1>6. x \in BOOLEAN
  BY <1>1
<1>7. hist' = [hist EXCEPT !.mine = 0, !.late = 0, !.got = WithSession(hist.got),
                           !.mixed = x, !.lost = l]
  BY <1>1 DEF End, Replacing
<1> HIDE DEF l, x
<1>8. /\ hist' \in [got : SUBSET Message, again : SUBSET Message,
                lost : SUBSET (Sessions \X (2..MaxNumber)), mine : Nat,
                mixed : BOOLEAN, late : Nat]
      /\ hist'.mine = 0 /\ hist'.late = 0 /\ hist'.again = hist.again
      /\ hist'.got = WithSession(hist.got) /\ hist'.lost = l /\ hist'.mixed = x
  BY <1>1, <1>4, <1>5, <1>6, <1>7
<1> QED
  BY <1>8 DEF l, x

LEMMA EndStep ==
    ASSUME Inv, End, UNCHANGED server,
           \/ file' \in {file, Torn}
           \/ client.kind = "qq" /\ Persist(client, FALSE)
    PROVE  Inv'
<1>1. /\ client' = NoClient /\ conn' = NoConn
      /\ thread' = [t \in Threads |-> [at |-> "idle", msg |-> NoMessage]]
  BY DEF End
<1>2. /\ hist' \in [got : SUBSET Message, again : SUBSET Message,
                    lost : SUBSET (Sessions \X (2..MaxNumber)), mine : Nat,
                    mixed : BOOLEAN, late : Nat]
      /\ hist'.mine = 0 /\ hist'.late = 0 /\ hist'.again = hist.again
      /\ hist'.got = WithSession(hist.got)
      /\ hist'.lost = WithSession(hist.lost \cup ({client.msg.m} \ hist.got))
      /\ hist'.mixed = (hist.mixed \/ (Replacing /\ client.sid # 0))
  BY EndHist DEF Inv
<1>3. client \in Client
  BY DEF Inv, TypeOK
<1>4. file' \in SessionState =>
         \/ file \in SessionState /\ file'.sid = file.sid /\ file'.seq = file.seq
         \/ file'.sid = 0
  <2>1. CASE file' \in {file, Torn}
    BY <2>1, MarkersAssumption
  <2>2. CASE client.kind = "qq" /\ Persist(client, FALSE)
    <3>1. file'.sid = client.sid /\ file'.seq = client.seq
      BY <2>2 DEF Persist
    <3> QED
      BY <2>2, <3>1 DEF Inv, SessionOK
  <2> QED
    BY <2>1, <2>2
<1>5. file' \in SessionState \cup {NoFile, Torn}
  <2>1. CASE file' \in {file, Torn}
    BY <2>1 DEF Inv, TypeOK
  <2>2. CASE client.kind = "qq" /\ Persist(client, FALSE)
    BY <1>3, <2>2 DEF Persist, SessionState, Client
  <2> QED
    BY <2>1, <2>2
<1>6. TypeOK'
  BY <1>1, <1>2, <1>5, NoClientFacts, NoConnFacts DEF Inv, TypeOK
<1>7. /\ client'.at = "off" /\ client'.kind = "none" /\ client'.count = 0
      /\ client'.attempts = 0 /\ client'.resuming = FALSE /\ client'.sid = 0
      /\ client'.msg = Just("none") /\ client'.msg.m = <<0, 0>>
      /\ conn'.mode = "none" /\ conn'.sid = 0 /\ conn'.next = 0
      /\ \A t \in Threads : thread'[t].at = "idle"
  BY <1>1, NoClientFacts, NoConnFacts, JustFacts
<1>8. ShapeOK'
  BY <1>1, <1>7 DEF ShapeOK, At
<1>9. CountOK' /\ AttemptsOK'
  BY <1>2, <1>7 DEF CountOK, AttemptsOK, At
<1>10. ~Replacing'
  BY <1>7 DEF Replacing, At
<1>11. SessionOK'
  <2>1. server.newest \in Nat
    BY DEF Inv, TypeOK
  <2> QED
    BY <1>4, <1>7, <1>10, <2>1 DEF Inv, SessionOK, At
<1>12. SkipOK'
  <2>1. ASSUME file' \in SessionState, file'.sid # 0,
               NEW n \in (2..(file'.seq + 1) - 1) \ Noise
        PROVE  <<file'.sid, n>> \in hist'.got \cup hist'.lost
    <3>1. /\ file \in SessionState /\ file'.sid = file.sid
          /\ file'.seq = file.seq
      BY <1>4, <2>1
    <3>2. <<file.sid, n>> \in hist.got \cup hist.lost \cup {client.msg.m}
      BY <2>1, <3>1 DEF Inv, SkipOK, PassedOK
    <3>3. <<file.sid, n>>[1] # 0
      BY <2>1, <3>1
    <3> QED
      BY <1>2, <3>1, <3>2, <3>3 DEF WithSession
  <2> QED
    BY <1>7, <2>1 DEF SkipOK, PassedOK, At
<1>13. hist'.mixed \/ OnceOK'
  <2> SUFFICES ASSUME ~hist'.mixed PROVE OnceOK'
    OBVIOUS
  <2>1. OnceOK /\ ~(Replacing /\ client.sid # 0)
    BY <1>2 DEF Inv
  <2>2. hist'.got \subseteq hist.got
    BY <1>2 DEF WithSession
  <2>3. ASSUME file' \in SessionState, file'.sid # 0
        PROVE  BehindOK(hist'.got, file'.sid, file'.seq + 1)
    BY <1>4, <2>1, <2>2, <2>3 DEF OnceOK, BehindOK
  <2> QED
    BY <1>2, <1>7, <2>1, <2>2, <2>3 DEF OnceOK, At, BehindOK
<1>14. PostsOK'
  <2>1. server.posts \in Nat
    BY DEF Inv, TypeOK
  <2>2. \A m \in hist'.got : m[1] # 0
    BY <1>2 DEF WithSession
  <2> QED
    BY <1>7, <2>1, <2>2 DEF PostsOK, At
<1> QED
  BY <1>6, <1>8, <1>9, <1>11, <1>12, <1>13, <1>14 DEF Inv

-----------------------------------------------------------------------------
\* Starting, and the connection.

LEMMA StartStep ==
    ASSUME Inv, NEW kind \in Kinds, Start(kind)
    PROVE  Inv'
<1> DEFINE from == IF kind = "qq" THEN load_session
                   ELSE [sid |-> 0, seq |-> 0, can |-> FALSE]
<1>1. At("off") /\ UNCHANGED <<conn, file, thread, hist>>
      /\ (kind = "qq" => file # Torn)
  BY DEF Start
<1>2. from \in SessionState
  <2>1. [sid |-> 0, seq |-> 0, can |-> FALSE] \in SessionState
    BY BoundsAssumption DEF SessionState
  <2> QED
    BY <1>1, <2>1 DEF load_session, Inv, TypeOK
<1>3. /\ from.sid \in {0} \cup Sessions /\ from.seq \in 0..MaxNumber
      /\ from.can \in BOOLEAN
  BY <1>2 DEF SessionState
<1>4. client' = [NoClient EXCEPT !.kind = kind, !.at = FirstStep(kind),
                   !.sid = from.sid, !.seq = from.seq, !.can = from.can]
  BY DEF Start
<1>5. kind = "qq" => \/ file = NoFile /\ from.sid = 0 /\ from.seq = 0
                     \/ file \in SessionState /\ from = file
  BY <1>1 DEF load_session, Inv, TypeOK
<1> HIDE DEF from
<1>6. /\ client' \in Client /\ client'.kind = kind /\ client'.at = FirstStep(kind)
      /\ client'.sid = from.sid /\ client'.seq = from.seq
      /\ client'.attempts = 0 /\ client'.resuming = FALSE /\ client'.count = 0
      /\ client'.msg = Just("none")
  <2>1. FirstStep(kind) \in {"loop", "serve", "connect"}
    BY DEF FirstStep
  <2> QED
    BY <1>3, <1>4, <2>1, NoClientFacts DEF Client
<1>7. /\ server' \in [held : SUBSET Sessions, newest : 0..MaxSessions,
                   last : [Sessions -> 0..MaxNumber], posts : 0..MaxPosts,
                   runs : 0..MaxRuns]
      /\ server'.newest = server.newest /\ server'.held = server.held
      /\ server'.posts = 0
  <2>1. server \in [held : SUBSET Sessions, newest : 0..MaxSessions,
                   last : [Sessions -> 0..MaxNumber], posts : 0..MaxPosts,
                   runs : 0..MaxRuns]
    BY DEF Inv, TypeOK
  <2>2. server.runs + 1 \in 0..MaxRuns /\ 0 \in 0..MaxPosts
    BY <2>1, BoundsAssumption DEF Start
  <2>3. server' = [server EXCEPT !.runs = server.runs + 1, !.posts = 0]
    BY <2>1 DEF Start
  <2> QED
    BY <2>1, <2>2, <2>3
<1>8. TypeOK'
  BY <1>1, <1>6, <1>7 DEF Inv, TypeOK
<1>9. /\ conn = NoConn /\ conn.sid = 0 /\ conn.mode = "none"
      /\ client.msg = Just("none") /\ ~Replacing
      /\ hist.mine = 0 /\ hist.late = 0 /\ \A t \in Threads : thread[t].at = "idle"
  BY <1>1, NoConnFacts, JustFacts DEF Inv, ShapeOK, CountOK, At, Replacing
<1>10. ShapeOK'
  BY <1>1, <1>6, <1>9 DEF ShapeOK, At, FirstStep, Kinds
<1>11. CountOK'
  <2>1. Counting' = {}
    BY <1>1, <1>9 DEF Counting
  <2>2. Cardinality({}) = 0 /\ MaxEvents \in Nat \ {0}
    BY FS_EmptySet, BoundsAssumption
  <2> QED
    BY <1>1, <1>6, <1>9, <2>1, <2>2 DEF CountOK, At, FirstStep
<1>12. AttemptsOK'
  BY <1>6, BoundsAssumption DEF AttemptsOK
<1>13. SessionOK'
  BY <1>1, <1>5, <1>6, <1>7, <1>9, JustFacts DEF Inv, SessionOK, At, Replacing
<1>14. SkipOK'
  BY <1>1, <1>6, <1>9 DEF Inv, SkipOK, At, ShapeOK, FirstStep
<1>15. hist'.mixed \/ OnceOK'
  BY <1>1, <1>6, <1>7, <1>9, JustFacts DEF Inv, OnceOK, At, Replacing
<1>16. PostsOK'
  <2>1. \A m \in hist'.got : m[1] # 0
    BY <1>1 DEF Inv, PostsOK
  <2>2. client'.msg.m = <<0, 0>>
    BY <1>6, JustFacts
  <2> QED
    BY <1>1, <1>7, <1>9, <2>1, <2>2 DEF PostsOK
<1> QED
  BY <1>8, <1>10, <1>11, <1>12, <1>13, <1>14, <1>15, <1>16 DEF Inv

\* Only the deadline or the readiness of the connection changes.
LEMMA SameStep ==
    ASSUME Inv, client' \in Client, client'.kind = client.kind,
           client'.at = client.at, client'.sid = client.sid,
           client'.seq = client.seq, client'.attempts = client.attempts,
           client'.resuming = client.resuming, client'.count = client.count,
           client'.msg = client.msg,
           UNCHANGED <<conn, file, server, thread, hist>>
    PROVE  Inv'
<1>1. TypeOK'
  BY DEF Inv, TypeOK
<1>2. ShapeOK' /\ CountOK' /\ AttemptsOK'
  BY ThreadSets DEF Inv, ShapeOK, CountOK, AttemptsOK, At
<1>3. SessionOK'
  BY DEF Inv, SessionOK, Replacing, At
<1>4. SkipOK' /\ PostsOK'
  BY DEF Inv, SkipOK, PostsOK, At
<1>5. hist'.mixed \/ OnceOK'
  BY DEF Inv, OnceOK, Replacing, At
<1> QED
  BY <1>1, <1>2, <1>3, <1>4, <1>5 DEF Inv

\* A step of a client around its connection: nothing is in hand.
Outside == {"loop", "connect", "recv", "after"}

LEMMA MoveStep ==
    ASSUME Inv, client' \in Client, client'.kind = client.kind,
           client'.sid = client.sid, client'.seq = client.seq,
           client'.count = client.count, client'.msg = client.msg,
           client.at \in Outside, client'.at \in Outside,
           client'.at \in {"loop", "after"} => client.kind = "qq",
           client'.resuming /\ client'.at = "connect" =>
              client.kind = "qq" /\ client.seq # 0,
           AttemptsOK',
           \/ conn' = NoConn
           \/ /\ client'.at = "recv"
              /\ conn' = [mode |-> "identify", sid |-> 0, next |-> 0]
           \/ /\ client'.at = "recv" /\ client.kind = "qq" /\ client.seq # 0
              /\ conn' = [mode |-> "resume", sid |-> client.sid,
                          next |-> client.seq + 1],
           UNCHANGED <<file, server, thread, hist>>
    PROVE  Inv'
<1>1. /\ client.msg = Just("none") /\ client.msg.m = <<0, 0>>
      /\ client.msg.type = "none"
  BY JustFacts DEF Inv, ShapeOK, Outside
<1>2. /\ client.kind \in {"qq", "wecom", "openclaw"}
      /\ client.sid \in {0} \cup Sessions /\ client.seq \in 0..MaxNumber
  BY DEF Inv, ShapeOK, TypeOK, Client, Kinds, At, Outside
<1>3. /\ conn' \in [mode : {"none", "identify", "resume", "live"},
                    sid : {0} \cup Sessions, next : 0..MaxNumber + 1]
      /\ conn'.mode \in {"none", "identify", "resume"}
      /\ conn'.mode # "resume" => conn'.sid = 0
      /\ conn'.mode = "resume" => /\ client'.at = "recv" /\ client.kind = "qq"
                                  /\ client.seq # 0 /\ conn'.sid = client.sid
                                  /\ conn'.next = client.seq + 1
  BY <1>2, NoConnFacts, BoundsAssumption
<1>4. TypeOK'
  BY <1>3 DEF Inv, TypeOK
<1>5. ShapeOK'
  <2>1. client'.at # "recv" => conn' = NoConn
    OBVIOUS
  <2> QED
    BY <1>1, <1>2, <1>3, <2>1 DEF Inv, ShapeOK, At, Outside
<1>6. CountOK'
  BY DEF Inv, CountOK, At, Outside
<1>7. /\ ~Replacing /\ ~Replacing'
      /\ client.at \notin {"got", "ingested"} /\ client'.at \notin {"got", "ingested"}
  BY <1>1 DEF Replacing, At, Outside
<1>8. SessionOK'
  <2>1. server.newest \in Nat
    BY DEF Inv, TypeOK
  <2>2. client.kind = "qq" => client.sid <= server.newest
    BY <2>1 DEF Inv, SessionOK
  <2> QED
    BY <1>2, <1>3, <1>7, <2>1, <2>2 DEF Inv, SessionOK
<1>9. SkipOK'
  <2>1. conn'.mode = "resume" =>
           PassedOK(conn'.sid, conn'.next, hist.got \cup hist.lost \cup {client.msg.m})
    BY <1>3 DEF Inv, SkipOK, SessionOK, PassedOK
  <2> QED
    BY <1>3, <1>7, <2>1 DEF Inv, SkipOK, PassedOK, At
<1>10. hist'.mixed \/ OnceOK'
  <2>1. OnceOK /\ conn'.mode = "resume" /\ conn'.sid # 0 =>
           BehindOK(hist.got, conn'.sid, conn'.next)
    BY <1>3, <1>7 DEF Inv, OnceOK, SessionOK
  <2> QED
    BY <1>3, <1>7, <2>1 DEF Inv, OnceOK, At
<1>11. PostsOK'
  BY <1>2 DEF Inv, PostsOK, At, Outside
<1> QED
  BY <1>4, <1>5, <1>6, <1>8, <1>9, <1>10, <1>11 DEF Inv

LEMMA EndingStep ==
    ASSUME Inv, \/ Crash \/ Refused \/ IngestFails \/ ServeEnds
                \/ Answer
    PROVE  Inv'
BY EndStep DEF Crash, Refused, IngestFails, ServeEnds, Answer

LEMMA ExpireStep ==
    ASSUME Inv, Expire
    PROVE  Inv'
<1>1. client \in Client /\ client' = [client EXCEPT !.expired = TRUE]
  BY DEF Inv, TypeOK, Expire
<1>2. /\ client' \in Client /\ client'.kind = client.kind
      /\ client'.at = client.at /\ client'.sid = client.sid
      /\ client'.seq = client.seq /\ client'.attempts = client.attempts
      /\ client'.resuming = client.resuming /\ client'.count = client.count
      /\ client'.msg = client.msg
  BY <1>1 DEF Client
<1>3. UNCHANGED <<conn, file, server, thread, hist>>
  BY DEF Expire
<1> QED
  BY <1>2, <1>3, SameStep

\* The client leaves its connection, which only a QQ client survives.
LEMMA LeavingStep ==
    ASSUME Inv, client.at \in {"connect", "recv"}, client.kind = "qq",
           client' = [client EXCEPT !.at = "after"], conn' = NoConn,
           UNCHANGED <<file, server, thread, hist>>
    PROVE  Inv'
<1>1. client \in Client
  BY DEF Inv, TypeOK
<1>2. /\ client' \in Client /\ client'.kind = client.kind
      /\ client'.at = "after" /\ client'.sid = client.sid
      /\ client'.seq = client.seq /\ client'.attempts = client.attempts
      /\ client'.resuming = client.resuming /\ client'.count = client.count
      /\ client'.msg = client.msg
  BY <1>1 DEF Client
<1>3. AttemptsOK'
  BY <1>2 DEF Inv, AttemptsOK, At
<1> QED
  BY <1>2, <1>3, MoveStep DEF Outside

LEMMA LoopStep ==
    ASSUME Inv, Loop
    PROVE  Inv'
<1>1. At("loop") /\ client \in Client /\ client.kind = "qq" /\ conn = NoConn
  BY DEF Loop, Inv, TypeOK, ShapeOK, At
<1>2. CASE Enough
  BY <1>2, EndingStep DEF Loop
<1>3. CASE ~Enough
  <2> DEFINE resume == client.can /\ client.sid # 0 /\ client.seq # 0
             n == IF resume THEN client.attempts + 1 ELSE client.attempts
  <2>1. client' = [client EXCEPT !.at = "connect", !.resuming = resume,
                                 !.attempts = n]
        /\ UNCHANGED <<conn, file, server, thread, hist>>
    BY <1>1, <1>3 DEF Loop, Client
  <2>2. resume \in BOOLEAN /\ n \in Nat /\ client.attempts \in Nat
    BY <1>1 DEF Client
  <2>3. (resume => client.seq # 0) /\ (resume => n = client.attempts + 1)
        /\ (~resume => n = client.attempts)
    OBVIOUS
  <2> HIDE DEF resume, n
  <2>4. /\ client' \in Client /\ client'.kind = client.kind
        /\ client'.at = "connect" /\ client'.sid = client.sid
        /\ client'.seq = client.seq /\ client'.attempts = n
        /\ client'.resuming = resume /\ client'.count = client.count
        /\ client'.msg = client.msg
    BY <1>1, <2>1, <2>2 DEF Client
  <2>5. AttemptsOK'
    BY <1>1, <2>2, <2>3, <2>4, BoundsAssumption DEF Inv, AttemptsOK, At
  <2> QED
    BY <1>1, <2>1, <2>3, <2>4, <2>5, MoveStep DEF Outside, At
<1> QED
  BY <1>2, <1>3

LEMMA ConnectStep ==
    ASSUME Inv, Connect
    PROVE  Inv'
<1>1. At("connect") /\ client \in Client
  BY DEF Connect, Inv, TypeOK
<1>2. client' = [client EXCEPT !.at = "recv"]
      /\ UNCHANGED <<file, server, thread, hist>>
  BY DEF Connect
<1>3. /\ client' \in Client /\ client'.kind = client.kind
      /\ client'.at = "recv" /\ client'.sid = client.sid
      /\ client'.seq = client.seq /\ client'.attempts = client.attempts
      /\ client'.resuming = client.resuming /\ client'.count = client.count
      /\ client'.msg = client.msg
  BY <1>1, <1>2 DEF Client
<1>4. AttemptsOK'
  BY <1>3 DEF Inv, AttemptsOK, At
<1>5. \/ conn' = [mode |-> "identify", sid |-> 0, next |-> 0]
      \/ /\ client.kind = "qq" /\ client.seq # 0
         /\ conn' = [mode |-> "resume", sid |-> client.sid,
                     next |-> client.seq + 1]
  BY <1>1 DEF Connect, Inv, ShapeOK
<1> QED
  BY <1>1, <1>2, <1>3, <1>4, <1>5, MoveStep DEF Outside, At

LEMMA ClosedStep ==
    ASSUME Inv, Closed \/ LeaveRecv
    PROVE  Inv'
<1>1. CASE client.kind = "qq"
  <2>1. /\ client.at \in {"connect", "recv"}
        /\ client' = [client EXCEPT !.at = "after"] /\ conn' = NoConn
        /\ UNCHANGED <<file, server, thread, hist>>
    BY <1>1 DEF Closed, LeaveRecv, At
  <2> QED
    BY <1>1, <2>1, LeavingStep
<1>2. CASE client.kind # "qq"
  BY <1>2, EndingStep DEF Closed, LeaveRecv, Answer
<1> QED
  BY <1>1, <1>2

LEMMA AfterStep ==
    ASSUME Inv, After
    PROVE  Inv'
<1>1. At("after") /\ client \in Client /\ client.kind = "qq" /\ conn = NoConn
  BY DEF After, Inv, TypeOK, ShapeOK, At
<1>2. CASE Enough
  BY <1>2, EndingStep DEF After
<1>3. CASE ~Enough /\ client.resuming /\ client.attempts >= MaxResume
  BY <1>1, <1>3, EndStep DEF After
<1>4. CASE ~Enough /\ ~(client.resuming /\ client.attempts >= MaxResume)
  <2>1. client' = [client EXCEPT !.at = "loop"]
        /\ UNCHANGED <<conn, file, server, thread, hist>>
    BY <1>4 DEF After
  <2>2. /\ client' \in Client /\ client'.kind = client.kind
        /\ client'.at = "loop" /\ client'.sid = client.sid
        /\ client'.seq = client.seq /\ client'.attempts = client.attempts
        /\ client'.resuming = client.resuming /\ client'.count = client.count
        /\ client'.msg = client.msg /\ client.attempts \in Nat
        /\ client.resuming \in BOOLEAN
    BY <1>1, <2>1 DEF Client
  <2>3. AttemptsOK'
    BY <1>4, <2>2, BoundsAssumption DEF Inv, AttemptsOK, At
  <2> QED
    BY <1>1, <2>1, <2>2, <2>3, MoveStep DEF Outside, At
<1> QED
  BY <1>2, <1>3, <1>4

-----------------------------------------------------------------------------
\* Receiving.

\* What a QQ client and the file are after a numbered payload.
LEMMA TakenFacts ==
    ASSUME Inv, NEW m \in Payload, NEW n \in 0..MaxNumber, TakeNumbered(m, n)
    PROVE  /\ client' \in Client /\ client'.kind = client.kind
           /\ client'.at = "got" /\ client'.sid = client.sid
           /\ client'.seq = n /\ client'.attempts = client.attempts
           /\ client'.resuming = client.resuming
           /\ client'.count = client.count /\ client'.msg = m
           /\ file' \in SessionState /\ file'.sid = client.sid /\ file'.seq = n
<1>1. client \in Client
  BY DEF Inv, TypeOK
<1> DEFINE c == [client EXCEPT !.at = "got", !.msg = m, !.seq = n]
<1>2. client' = c /\ file' = [sid |-> c.sid, seq |-> c.seq, can |-> (c.sid # 0)]
  BY DEF TakeNumbered, Persist
<1>3. /\ c \in Client /\ c.kind = client.kind
      /\ c.at = "got" /\ c.sid = client.sid
      /\ c.seq = n /\ c.attempts = client.attempts
      /\ c.resuming = client.resuming
      /\ c.count = client.count /\ c.msg = m /\ c.sid \in {0} \cup Sessions
  BY <1>1 DEF Client
<1> HIDE DEF c
<1> QED
  BY <1>2, <1>3 DEF SessionState

\* The platform opens a session: READY, which carries the number 1.
LEMMA ReadyStep ==
    ASSUME Inv, At("recv"), ~Enough, client.kind = "qq",
           conn.mode = "identify", server.newest < MaxSessions,
           server' = [server EXCEPT !.newest = server.newest + 1,
                        !.held = @ \cup {server.newest + 1},
                        !.last[server.newest + 1] = 1],
           conn' = [mode |-> "live", sid |-> server.newest + 1, next |-> 2],
           TakeNumbered(Just("READY"), 1), UNCHANGED <<thread, hist>>
    PROVE  Inv'
<1>1. /\ Just("READY") \in Payload /\ Just("READY").type = "READY"
      /\ Just("READY").m = <<0, 0>> /\ 1 \in 0..MaxNumber /\ 2 \in 0..MaxNumber + 1
  BY JustFacts, BoundsAssumption
<1>2. /\ client' \in Client /\ client'.kind = "qq"
      /\ client'.at = "got" /\ client'.sid = client.sid
      /\ client'.seq = 1 /\ client'.attempts = client.attempts
      /\ client'.resuming = client.resuming
      /\ client'.count = client.count /\ client'.msg = Just("READY")
      /\ file' \in SessionState /\ file'.sid = client.sid /\ file'.seq = 1
  BY <1>1, TakenFacts
<1>3. server \in [held : SUBSET Sessions, newest : 0..MaxSessions,
                   last : [Sessions -> 0..MaxNumber], posts : 0..MaxPosts,
                   runs : 0..MaxRuns]
  BY DEF Inv, TypeOK
<1>4. server.newest + 1 \in Sessions /\ server.newest + 1 \in 0..MaxSessions
  BY <1>3, BoundsAssumption DEF Sessions
<1>5. /\ server' \in [held : SUBSET Sessions, newest : 0..MaxSessions,
                   last : [Sessions -> 0..MaxNumber], posts : 0..MaxPosts,
                   runs : 0..MaxRuns]
      /\ server'.newest = server.newest + 1
      /\ server'.held = server.held \cup {server.newest + 1}
      /\ server'.posts = server.posts
  <2> DEFINE h == server.held \cup {server.newest + 1}
             l == [server.last EXCEPT ![server.newest + 1] = 1]
             s == server.newest + 1
  <2>1. server' = [server EXCEPT !.newest = s, !.held = h, !.last = l]
    BY <1>3
  <2>2. h \in SUBSET Sessions
    BY <1>3, <1>4
  <2>3. l \in [Sessions -> 0..MaxNumber]
    BY <1>1, <1>3
  <2>4. s \in 0..MaxSessions
    BY <1>4
  <2> HIDE DEF h, l, s
  <2>5. /\ server' \in [held : SUBSET Sessions, newest : 0..MaxSessions,
                   last : [Sessions -> 0..MaxNumber], posts : 0..MaxPosts,
                   runs : 0..MaxRuns]
        /\ server'.newest = s /\ server'.held = h
        /\ server'.posts = server.posts
    BY <1>3, <2>1, <2>2, <2>3, <2>4
  <2> QED
    BY <2>5 DEF h, s
<1>6. /\ conn' \in [mode : {"none", "identify", "resume", "live"},
                    sid : {0} \cup Sessions, next : 0..MaxNumber + 1]
      /\ conn'.mode = "live" /\ conn'.sid = server.newest + 1 /\ conn'.next = 2
  BY <1>1, <1>4
<1>7. TypeOK'
  BY <1>2, <1>5, <1>6 DEF Inv, TypeOK
<1>8. ShapeOK'
  BY <1>1, <1>2, <1>6 DEF Inv, ShapeOK, At
<1>9. CountOK'
  BY <1>2, BoundsAssumption DEF Inv, CountOK, At, Enough, TypeOK, Client
<1>10. AttemptsOK'
  BY <1>2 DEF Inv, AttemptsOK, At
<1>11. Replacing' /\ client'.msg.type = "READY" /\ client'.msg.m = <<0, 0>>
  BY <1>1, <1>2 DEF Replacing, At
<1>12. SessionOK'
  <2>1. client.sid \in Nat /\ client.sid <= server.newest
    <3>1. client.sid \in {0} \cup Sessions
      BY DEF Inv, TypeOK, Client
    <3> QED
      BY <1>3, <3>1 DEF Inv, SessionOK, Sessions
  <2>2. server'.held \subseteq 1..server'.newest
    BY <1>3, <1>5 DEF Inv, SessionOK
  <2> QED
    BY <1>2, <1>3, <1>5, <1>6, <1>11, <2>1, <2>2 DEF SessionOK
<1>13. SkipOK'
  BY <1>2, <1>6 DEF SkipOK, PassedOK, At
<1>14. hist'.mixed \/ OnceOK'
  <2> SUFFICES ASSUME OnceOK PROVE OnceOK'
    BY DEF Inv
  <2>1. \A m \in hist.got : m[1] \in Nat /\ m[1] <= server.newest
    BY MessageFacts DEF OnceOK, Inv, TypeOK
  <2>2. BehindOK(hist'.got, conn'.sid, conn'.next)
    BY <1>3, <1>6, <2>1 DEF BehindOK
  <2>3. \A m \in hist'.got : m[1] <= server'.newest
    BY <1>3, <1>5, <2>1
  <2>4. client'.sid # 0 \/ file'.sid = 0
    BY <1>2
  <2> QED
    BY <1>2, <1>11, <2>2, <2>3, <2>4 DEF OnceOK
<1>15. PostsOK'
  BY <1>2, <1>5 DEF Inv, PostsOK, At
<1> QED
  BY <1>7, <1>8, <1>9, <1>10, <1>12, <1>13, <1>14, <1>15 DEF Inv

\* The next event of the session.
LEMMA MessageStep ==
    ASSUME Inv, At("recv"), ~Enough, client.kind = "qq",
           conn.mode \in {"live", "resume"}, conn.sid \in server.held,
           conn.next <= server.last[conn.sid],
           conn' = [conn EXCEPT !.next = @ + 1],
           TakeNumbered([type |-> "message", m |-> <<conn.sid, conn.next>>], conn.next),
           UNCHANGED <<server, thread, hist>>
    PROVE  Inv'
<1> DEFINE m == <<conn.sid, conn.next>>
           x == [type |-> "message", m |-> m]
<1>1. conn \in [mode : {"none", "identify", "resume", "live"},
                sid : {0} \cup Sessions, next : 0..MaxNumber + 1]
  BY DEF Inv, TypeOK
<1>2. conn.sid \in Sessions /\ server.last[conn.sid] \in 0..MaxNumber
  BY DEF Inv, TypeOK
<1>3. /\ conn.next \in 2..MaxNumber /\ conn.next \in 0..MaxNumber
      /\ conn.next + 1 \in 0..MaxNumber + 1 /\ conn.sid # 0
  BY <1>1, <1>2, BoundsAssumption DEF Inv, ShapeOK, Sessions
<1>4. m \in Message /\ x \in Payload /\ x.type = "message" /\ x.m = m
  BY <1>2, <1>3 DEF Message, Payload
<1>5. /\ client' \in Client /\ client'.kind = "qq"
      /\ client'.at = "got" /\ client'.sid = client.sid
      /\ client'.seq = conn.next /\ client'.attempts = client.attempts
      /\ client'.resuming = client.resuming
      /\ client'.count = client.count /\ client'.msg = x
      /\ file' \in SessionState /\ file'.sid = client.sid /\ file'.seq = conn.next
  BY <1>3, <1>4, TakenFacts
<1>6. /\ conn' \in [mode : {"none", "identify", "resume", "live"},
                    sid : {0} \cup Sessions, next : 0..MaxNumber + 1]
      /\ conn'.mode = conn.mode /\ conn'.sid = conn.sid
      /\ conn'.next = conn.next + 1
  BY <1>1, <1>3
<1>7. /\ ~Replacing /\ client.sid = conn.sid /\ client.seq + 1 = conn.next
      /\ client.msg.m = <<0, 0>>
  BY JustFacts DEF Inv, ShapeOK, SessionOK, Replacing, At
<1> HIDE DEF x
<1>8. TypeOK'
  BY <1>5, <1>6 DEF Inv, TypeOK
<1>9. ShapeOK'
  BY <1>3, <1>4, <1>5, <1>6 DEF Inv, ShapeOK, At
<1>10. CountOK'
  BY <1>5, BoundsAssumption DEF Inv, CountOK, At, Enough, TypeOK, Client
<1>11. AttemptsOK'
  BY <1>5 DEF Inv, AttemptsOK, At
<1>12. ~Replacing'
  BY <1>4, <1>5 DEF Replacing
<1>13. SessionOK'
  BY <1>3, <1>4, <1>5, <1>6, <1>7, <1>12 DEF Inv, SessionOK
<1>14. SkipOK'
  <2>1. ASSUME NEW n \in (2..(conn.next + 1) - 1) \ Noise
        PROVE  <<conn.sid, n>> \in hist.got \cup hist.lost \cup {m}
    <3>1. CASE n = conn.next
      BY <3>1
    <3>2. CASE n # conn.next
      <4>1. n \in (2..conn.next - 1) \ Noise
        BY <1>3, <2>1, <3>2
      <4>2. <<conn.sid, n>> \in hist.got \cup hist.lost \cup {client.msg.m}
        BY <1>3, <4>1 DEF Inv, SkipOK, PassedOK
      <4>3. <<conn.sid, n>> # client.msg.m
        BY <1>3, <1>7
      <4> QED
        BY <4>2, <4>3
    <3> QED
      BY <3>1, <3>2
  <2> HIDE DEF m
  <2>2. PassedOK(conn.sid, conn.next + 1, hist.got \cup hist.lost \cup {m})
    BY <2>1 DEF PassedOK
  <2> QED
    BY <1>4, <1>5, <1>6, <1>7, <2>2 DEF SkipOK, At
<1>15. hist'.mixed \/ OnceOK'
  <2> SUFFICES ASSUME OnceOK PROVE OnceOK'
    BY DEF Inv
  <2>1. BehindOK(hist.got, conn.sid, conn.next)
    BY <1>3 DEF OnceOK
  <2>2. BehindOK(hist.got, conn.sid, conn.next + 1) /\ m \notin hist.got
    BY <1>3, <2>1 DEF BehindOK
  <2> HIDE DEF m
  <2> QED
    BY <1>4, <1>5, <1>6, <1>7, <2>2 DEF OnceOK
<1>16. PostsOK'
  BY <1>5 DEF Inv, PostsOK, At
<1> QED
  BY <1>8, <1>9, <1>10, <1>11, <1>13, <1>14, <1>15, <1>16 DEF Inv

\* A payload without a number.
LEMMA ControlStep ==
    ASSUME Inv, At("recv"), ~Enough, client.kind = "qq",
           NEW type \in {"RESUMED", "reconnect", "invalid"}, Take(Just(type)),
           \/ conn' = conn
           \/ conn.mode = "resume" /\ conn' = [conn EXCEPT !.mode = "live"],
           UNCHANGED <<server, thread, hist>>
    PROVE  Inv'
<1>1. /\ Just(type) \in Payload /\ Just(type).type = type
      /\ Just(type).m = <<0, 0>>
  BY JustFacts
<1>2. client \in Client /\ UNCHANGED file
      /\ client' = [client EXCEPT !.at = "got", !.msg = Just(type)]
  BY DEF Inv, TypeOK, Take
<1>3. /\ client' \in Client /\ client'.kind = "qq"
      /\ client'.at = "got" /\ client'.sid = client.sid
      /\ client'.seq = client.seq /\ client'.attempts = client.attempts
      /\ client'.resuming = client.resuming
      /\ client'.count = client.count /\ client'.msg = Just(type)
  BY <1>1, <1>2 DEF Client
<1>4. /\ conn' \in [mode : {"none", "identify", "resume", "live"},
                    sid : {0} \cup Sessions, next : 0..MaxNumber + 1]
      /\ conn'.mode \in {"live", "resume"} <=> conn.mode \in {"live", "resume"}
      /\ conn'.sid = conn.sid /\ conn'.next = conn.next
  BY DEF Inv, TypeOK
<1>5. client.msg = Just("none") /\ client.msg.m = <<0, 0>>
      /\ ~Replacing /\ ~Replacing'
  BY <1>1, <1>3, JustFacts DEF Inv, ShapeOK, Replacing, At
<1>6. TypeOK'
  BY <1>2, <1>3, <1>4 DEF Inv, TypeOK
<1>7. ShapeOK'
  BY <1>1, <1>3, <1>4 DEF Inv, ShapeOK, At
<1>8. CountOK'
  BY <1>3, BoundsAssumption DEF Inv, CountOK, At, Enough, TypeOK, Client
<1>9. AttemptsOK'
  BY <1>3 DEF Inv, AttemptsOK, At
<1>10. SessionOK'
  BY <1>1, <1>2, <1>3, <1>4, <1>5 DEF Inv, SessionOK
<1>11. SkipOK'
  BY <1>1, <1>2, <1>3, <1>4, <1>5 DEF Inv, SkipOK, At
<1>12. hist'.mixed \/ OnceOK'
  BY <1>1, <1>2, <1>3, <1>4, <1>5 DEF Inv, OnceOK
<1>13. PostsOK'
  BY <1>3 DEF Inv, PostsOK, At
<1> QED
  BY <1>6, <1>7, <1>8, <1>9, <1>10, <1>11, <1>12, <1>13 DEF Inv

LEMMA ReceiveStep ==
    ASSUME Inv, Receive
    PROVE  Inv'
<1>1. At("recv") /\ ~Enough /\ client.kind = "qq" /\ UNCHANGED <<thread, hist>>
  BY DEF Receive
<1>2. CASE /\ conn.mode = "identify" /\ server.newest < MaxSessions
           /\ server' = [server EXCEPT !.newest = server.newest + 1,
                           !.held = @ \cup {server.newest + 1},
                           !.last[server.newest + 1] = 1]
           /\ conn' = [mode |-> "live", sid |-> server.newest + 1, next |-> 2]
           /\ TakeNumbered(Just("READY"), 1)
  BY <1>1, <1>2, ReadyStep
<1>3. CASE /\ conn.mode \in {"live", "resume"} /\ conn.sid \in server.held
           /\ conn.next <= server.last[conn.sid]
           /\ conn' = [conn EXCEPT !.next = @ + 1]
           /\ TakeNumbered([type |-> "message", m |-> <<conn.sid, conn.next>>],
                           conn.next)
           /\ UNCHANGED server
  BY <1>1, <1>3, MessageStep
<1>4. CASE /\ conn.mode = "resume" /\ conn' = [conn EXCEPT !.mode = "live"]
           /\ Take(Just("RESUMED")) /\ UNCHANGED server
  BY <1>1, <1>4, ControlStep
<1>5. CASE Take(Just("reconnect")) /\ UNCHANGED <<conn, server>>
  BY <1>1, <1>5, ControlStep
<1>6. CASE Take(Just("invalid")) /\ UNCHANGED <<conn, server>>
  BY <1>1, <1>6, ControlStep
<1> QED
  BY <1>2, <1>3, <1>4, <1>5, <1>6 DEF Receive

\* What is no message is done with: the connection is kept or left, and the
\* client knows a session, the old one, the new one or none.
LEMMA HandledStep ==
    ASSUME Inv, At("got"), client.kind = "qq",
           client.msg.type # "message" \/ client.msg.m[2] \in Noise,
           client' \in Client, client'.kind = "qq",
           client'.seq = client.seq, client'.attempts = client.attempts,
           client'.resuming = client.resuming, client'.count = client.count,
           client'.msg = Just("none"),
           \/ client'.at = "recv" /\ conn' = conn
           \/ client'.at = "after" /\ conn' = NoConn,
           \/ client'.sid = client.sid /\ ~Replacing
           \/ client'.sid = 0 /\ client'.at = "after"
           \/ client'.sid = conn.sid /\ Replacing,
           \/ file' = file /\ client'.sid = client.sid
           \/ \E can \in BOOLEAN :
                 file' = [sid |-> client'.sid, seq |-> client.seq, can |-> can],
           UNCHANGED <<server, thread, hist>>
    PROVE  Inv'
<1>1. client.msg \in Payload /\ client'.sid \in {0} \cup Sessions
      /\ client.seq \in 0..MaxNumber /\ client'.at \in {"recv", "after"}
  BY DEF Inv, TypeOK, Client
<1>2. /\ client.msg.type # "message" => client.msg.m = <<0, 0>>
      /\ client'.msg.m = <<0, 0>> /\ client'.msg.type = "none"
  BY <1>1, PayloadFacts, JustFacts
<1>3. /\ conn' \in [mode : {"none", "identify", "resume", "live"},
                    sid : {0} \cup Sessions, next : 0..MaxNumber + 1]
      /\ \/ conn' = conn /\ client'.at = "recv"
         \/ conn'.mode = "none" /\ conn'.sid = 0
  BY NoConnFacts DEF Inv, TypeOK
<1>4. \/ file' = file /\ client'.sid = client.sid
      \/ /\ file' \in SessionState /\ file'.sid = client'.sid
         /\ file'.seq = client.seq
  BY <1>1 DEF SessionState
<1>5. TypeOK'
  BY <1>3, <1>4 DEF Inv, TypeOK
<1>6. ShapeOK'
  BY <1>1, <1>2, <1>3, NoConnFacts DEF Inv, ShapeOK, At
<1>7. CountOK'
  BY <1>1, BoundsAssumption DEF Inv, CountOK, At, TypeOK, Client
<1>8. AttemptsOK'
  BY <1>1 DEF Inv, AttemptsOK, At
<1>9. ~Replacing'
  BY <1>1 DEF Replacing, At
<1>10. /\ server.newest \in Nat /\ conn.sid <= server.newest
       /\ client.sid <= server.newest
  BY DEF Inv, TypeOK, SessionOK
<1>11. Replacing => conn.mode = "live" /\ conn.next = 2 /\ client.seq = 1
  BY DEF Inv, SessionOK, TypeOK, Client
<1>12. SessionOK'
  <2>1. file' \in SessionState => file'.sid <= server.newest
    BY <1>4, <1>10 DEF Inv, SessionOK
  <2>2. \/ file' = NoFile /\ client'.sid = 0 /\ client'.seq = 0
        \/ /\ file' \in SessionState /\ file'.sid = client'.sid
           /\ file'.seq = client'.seq
    BY <1>4 DEF Inv, SessionOK
  <2>3. conn'.mode \in {"live", "resume"} =>
          client'.seq + 1 = conn'.next /\ client'.sid = conn'.sid
    BY <1>3 DEF Inv, SessionOK
  <2> QED
    BY <1>1, <1>2, <1>3, <1>9, <1>10, <2>1, <2>2, <2>3 DEF Inv, SessionOK
<1>13. SkipOK'
  <2> DEFINE done == hist.got \cup hist.lost
  <2>1. ASSUME NEW s, s # 0, NEW n \in Nat \ Noise,
               <<s, n>> \in done \cup {client.msg.m}
        PROVE  <<s, n>> \in done
    BY <1>2, <2>1
  <2>2. ASSUME NEW s, NEW n \in Nat, PassedOK(s, n, done \cup {client.msg.m})
        PROVE  PassedOK(s, n, done \cup {client'.msg.m})
    BY <2>1, <2>2 DEF PassedOK
  <2>3. PassedOK(conn'.sid, conn'.next, done \cup {client'.msg.m})
    <3>1. CASE conn' = conn
      <4>1. conn.next \in Nat
        BY BoundsAssumption DEF Inv, TypeOK
      <4> HIDE DEF done
      <4> QED
        BY <2>2, <3>1, <4>1 DEF Inv, SkipOK, done
    <3>2. CASE conn'.sid = 0
      BY <3>2 DEF PassedOK
    <3> QED
      BY <1>3, <3>1, <3>2
  <2>4. ASSUME file' \in SessionState
        PROVE  PassedOK(file'.sid, file'.seq + 1, done \cup {client'.msg.m})
    <3>1. CASE Replacing /\ file'.seq = 1
      BY <3>1 DEF PassedOK
    <3>2. CASE file'.sid = 0
      BY <3>2 DEF PassedOK
    <3>3. CASE /\ file \in SessionState /\ file'.sid = file.sid
               /\ file'.seq = file.seq
      <4>1. file.seq + 1 \in Nat
        BY <3>3, BoundsAssumption DEF SessionState
      <4>2. PassedOK(file.sid, file.seq + 1, done \cup {client.msg.m})
        BY <3>3 DEF Inv, SkipOK
      <4> HIDE DEF done
      <4> QED
        BY <2>2, <3>3, <4>1, <4>2
    <3> QED
      BY <1>4, <1>11, <2>4, <3>1, <3>2, <3>3 DEF Inv, SessionOK
  <2> QED
    BY <1>1, <2>3, <2>4 DEF SkipOK, At
<1>14. hist'.mixed \/ OnceOK'
  <2> SUFFICES ASSUME OnceOK PROVE OnceOK'
    BY DEF Inv
  <2>1. ASSUME file' \in SessionState, file'.sid # 0
        PROVE  BehindOK(hist.got, file'.sid, file'.seq + 1)
    <3>1. CASE Replacing /\ client'.sid = conn.sid
      <4>1. file'.sid = conn.sid /\ file'.seq + 1 = conn.next
        BY <1>4, <1>11, <2>1, <3>1 DEF Inv, SessionOK
      <4> QED
        BY <2>1, <4>1 DEF OnceOK
    <3>2. CASE ~Replacing /\ client'.sid = client.sid
      <4>1. /\ file \in SessionState /\ file'.sid = file.sid
            /\ file'.seq = file.seq
        BY <1>4, <2>1, <3>2 DEF Inv, SessionOK
      <4> QED
        BY <2>1, <3>2, <4>1 DEF OnceOK
    <3>3. CASE client'.sid = 0 /\ client'.at = "after"
      <4>1. file'.sid = file.sid /\ file = file' /\ client.sid = 0
        BY <1>4, <2>1, <3>3
      <4> QED
        BY <2>1, <3>3, <4>1, MarkersAssumption DEF Inv, SessionOK
    <3> QED
      BY <3>1, <3>2, <3>3
  <2> QED
    BY <1>1, <1>3, <2>1 DEF OnceOK, At
<1>15. PostsOK'
  BY <1>1 DEF Inv, PostsOK, At
<1> QED
  BY <1>5, <1>6, <1>7, <1>8, <1>12, <1>13, <1>14, <1>15 DEF Inv

LEMMA HandleStep ==
    ASSUME Inv, Handle
    PROVE  Inv'
<1>1. /\ At("got") /\ client.kind = "qq" /\ client \in Client
      /\ UNCHANGED <<server, thread, hist>>
  BY DEF Handle, Inv, TypeOK
<1>2. Just("none") \in Payload
  BY JustFacts
<1>3. CASE client.msg.type = "reconnect" /\ Leave([client EXCEPT !.can = TRUE])
           /\ Persist(client, TRUE)
  <2>1. client' = [client EXCEPT !.can = TRUE, !.at = "after", !.msg = Just("none")]
        /\ conn' = NoConn
    BY <1>1, <1>3 DEF Leave, Client
  <2>2. /\ client' \in Client /\ client'.kind = client.kind
        /\ client'.at = "after" /\ client'.sid = client.sid
        /\ client'.seq = client.seq /\ client'.attempts = client.attempts
        /\ client'.resuming = client.resuming
        /\ client'.count = client.count /\ client'.msg = Just("none")
    BY <1>1, <1>2, <2>1 DEF Client
  <2>3. file' = [sid |-> client'.sid, seq |-> client.seq, can |-> TRUE]
        /\ ~Replacing
    BY <1>3, <2>2 DEF Persist, Replacing
  <2> QED
    BY <1>1, <1>3, <2>1, <2>2, <2>3, HandledStep
<1>4. CASE client.msg.type = "invalid"
           /\ Leave([client EXCEPT !.can = FALSE, !.sid = 0])
           /\ Persist([client EXCEPT !.can = FALSE, !.sid = 0], FALSE)
  <2>1. client' = [client EXCEPT !.can = FALSE, !.sid = 0, !.at = "after",
                                 !.msg = Just("none")]
        /\ conn' = NoConn
    BY <1>1, <1>4 DEF Leave, Client
  <2>2. /\ client' \in Client /\ client'.kind = client.kind
        /\ client'.at = "after" /\ client'.sid = 0
        /\ client'.seq = client.seq /\ client'.attempts = client.attempts
        /\ client'.resuming = client.resuming
        /\ client'.count = client.count /\ client'.msg = Just("none")
    BY <1>1, <1>2, <2>1 DEF Client
  <2>3. file' = [sid |-> client'.sid, seq |-> client.seq, can |-> FALSE]
    BY <1>1, <1>4, <2>2 DEF Persist, Client
  <2> QED
    BY <1>1, <1>4, <2>1, <2>2, <2>3, HandledStep
<1>5. CASE client.msg.type = "READY"
           /\ Again([client EXCEPT !.ready = TRUE, !.sid = conn.sid, !.can = TRUE])
           /\ Persist([client EXCEPT !.ready = TRUE, !.sid = conn.sid,
                                     !.can = TRUE], TRUE)
  <2>1. client' = [client EXCEPT !.ready = TRUE, !.sid = conn.sid, !.can = TRUE,
                                 !.at = "recv", !.msg = Just("none")]
        /\ conn' = conn
    BY <1>1, <1>5 DEF Again, Client
  <2>2. conn.sid \in {0} \cup Sessions
    BY DEF Inv, TypeOK
  <2>3. /\ client' \in Client /\ client'.kind = client.kind
        /\ client'.at = "recv" /\ client'.sid = conn.sid
        /\ client'.seq = client.seq /\ client'.attempts = client.attempts
        /\ client'.resuming = client.resuming
        /\ client'.count = client.count /\ client'.msg = Just("none")
    BY <1>1, <1>2, <2>1, <2>2 DEF Client
  <2>4. file' = [sid |-> client'.sid, seq |-> client.seq, can |-> TRUE]
    BY <1>1, <1>5, <2>3 DEF Persist, Client
  <2>5. Replacing
    BY <1>1, <1>5 DEF Replacing
  <2> QED
    BY <1>1, <1>5, <2>1, <2>3, <2>4, <2>5, HandledStep
<1>6. CASE client.msg.type = "RESUMED" /\ Again([client EXCEPT !.can = TRUE])
           /\ Persist(client, TRUE)
  <2>1. client' = [client EXCEPT !.can = TRUE, !.at = "recv", !.msg = Just("none")]
        /\ conn' = conn
    BY <1>1, <1>6 DEF Again, Client
  <2>2. /\ client' \in Client /\ client'.kind = client.kind
        /\ client'.at = "recv" /\ client'.sid = client.sid
        /\ client'.seq = client.seq /\ client'.attempts = client.attempts
        /\ client'.resuming = client.resuming
        /\ client'.count = client.count /\ client'.msg = Just("none")
    BY <1>1, <1>2, <2>1 DEF Client
  <2>3. file' = [sid |-> client'.sid, seq |-> client.seq, can |-> TRUE]
        /\ ~Replacing
    BY <1>6, <2>2 DEF Persist, Replacing
  <2> QED
    BY <1>1, <1>6, <2>1, <2>2, <2>3, HandledStep
<1>7. CASE client.msg.type = "message" /\ client.msg.m[2] \in Noise
           /\ Again(client) /\ UNCHANGED file
  <2>1. client' = [client EXCEPT !.at = "recv", !.msg = Just("none")]
        /\ conn' = conn
    BY <1>7 DEF Again
  <2>2. /\ client' \in Client /\ client'.kind = client.kind
        /\ client'.at = "recv" /\ client'.sid = client.sid
        /\ client'.seq = client.seq /\ client'.attempts = client.attempts
        /\ client'.resuming = client.resuming
        /\ client'.count = client.count /\ client'.msg = Just("none")
    BY <1>1, <1>2, <2>1 DEF Client
  <2>3. ~Replacing
    BY <1>7 DEF Replacing
  <2> QED
    BY <1>1, <1>7, <2>1, <2>2, <2>3, HandledStep
<1> QED
  BY <1>3, <1>4, <1>5, <1>6, <1>7 DEF Handle

\* A client without a session is ready, or takes the next message.
LEMMA PlainStep ==
    ASSUME Inv, ReceiveWeCom \/ ReceiveOpenClaw
    PROVE  Inv'
<1>1. /\ At("recv") /\ ~Enough /\ client.kind \in {"wecom", "openclaw"}
      /\ TakePlain /\ UNCHANGED <<conn, file, thread, hist>> /\ client \in Client
  BY DEF ReceiveWeCom, ReceiveOpenClaw, Inv, TypeOK
<1>2. CASE client' = [client EXCEPT !.ready = TRUE] /\ UNCHANGED server
  <2>1. /\ client' \in Client /\ client'.kind = client.kind
        /\ client'.at = client.at /\ client'.sid = client.sid
        /\ client'.seq = client.seq /\ client'.attempts = client.attempts
        /\ client'.resuming = client.resuming /\ client'.count = client.count
        /\ client'.msg = client.msg
    BY <1>1, <1>2 DEF Client
  <2> QED
    BY <1>1, <1>2, <2>1, SameStep
<1> DEFINE m == <<0, server.posts + 1>>
           x == [type |-> "message", m |-> m]
<1>3. CASE /\ server.posts < MaxPosts
           /\ server' = [server EXCEPT !.posts = @ + 1]
           /\ client' = [client EXCEPT !.at = "got", !.msg = x]
  <2>1. server \in [held : SUBSET Sessions, newest : 0..MaxSessions,
                   last : [Sessions -> 0..MaxNumber], posts : 0..MaxPosts,
                   runs : 0..MaxRuns]
    BY DEF Inv, TypeOK
  <2>2. server.posts + 1 \in 1..MaxPosts /\ server.posts + 1 \in 0..MaxPosts
    BY <1>3, <2>1, BoundsAssumption
  <2>3. /\ server' \in [held : SUBSET Sessions, newest : 0..MaxSessions,
                   last : [Sessions -> 0..MaxNumber], posts : 0..MaxPosts,
                   runs : 0..MaxRuns]
        /\ server'.newest = server.newest /\ server'.held = server.held
        /\ server'.posts = server.posts + 1 /\ server.posts \in Nat
    BY <1>3, <2>1, <2>2
  <2>4. /\ m \in Message /\ x \in Payload /\ x.type = "message" /\ x.m = m
        /\ m[1] = 0 /\ m[2] = server.posts + 1
    BY <2>2 DEF Message, Payload
  <2> HIDE DEF x, m
  <2>5. /\ client' \in Client /\ client'.kind = client.kind
        /\ client'.at = "got" /\ client'.sid = client.sid
        /\ client'.seq = client.seq /\ client'.attempts = client.attempts
        /\ client'.resuming = client.resuming
        /\ client'.count = client.count /\ client'.msg = x
    BY <1>1, <1>3, <2>4 DEF Client
  <2>6. ~Replacing /\ ~Replacing' /\ conn.sid = 0 /\ client.msg.m = <<0, 0>>
    BY <1>1, <2>4, <2>5, JustFacts DEF Inv, ShapeOK, Replacing, At
  <2>7. TypeOK'
    BY <1>1, <2>3, <2>5 DEF Inv, TypeOK
  <2>8. ShapeOK'
    BY <1>1, <2>4, <2>5 DEF Inv, ShapeOK, At
  <2>9. CountOK'
    BY <1>1, <2>5, BoundsAssumption DEF Inv, CountOK, At, Enough, TypeOK, Client
  <2>10. AttemptsOK'
    BY <2>5 DEF Inv, AttemptsOK, At
  <2>11. SessionOK'
    BY <1>1, <2>3, <2>4, <2>5, <2>6 DEF Inv, SessionOK, ShapeOK
  <2>12. SkipOK'
    <3>1. ASSUME file \in SessionState
          PROVE  PassedOK(file.sid, file.seq + 1, hist.got \cup hist.lost \cup {m})
      <4>1. PassedOK(file.sid, file.seq + 1,
                     hist.got \cup hist.lost \cup {client.msg.m})
        BY <3>1 DEF Inv, SkipOK
      <4> QED
        BY <2>6, <4>1 DEF PassedOK
    <3> QED
      BY <1>1, <2>4, <2>5, <2>6, <3>1 DEF SkipOK, PassedOK, At
  <2>13. \A k \in hist.got : k[1] = 0 => k[2] <= server.posts /\ k[2] \in Nat
    BY MessageFacts DEF Inv, PostsOK, TypeOK
  <2>14. hist'.mixed \/ OnceOK'
    <3> SUFFICES ASSUME OnceOK PROVE OnceOK'
      BY <1>1 DEF Inv
    <3>1. m \notin hist.got
      BY <2>3, <2>4, <2>13
    <3> QED
      BY <1>1, <2>3, <2>4, <2>5, <2>6, <3>1 DEF OnceOK
  <2>15. PostsOK'
    <3>1. \A t \in Threads : thread'[t].at = "idle"
      BY <1>1 DEF Inv, ShapeOK
    <3> QED
      BY <1>1, <2>3, <2>4, <2>5, <2>13, <3>1 DEF PostsOK, At
  <2> QED
    BY <2>7, <2>8, <2>9, <2>10, <2>11, <2>12, <2>14, <2>15 DEF Inv
<1> QED
  BY <1>1, <1>2, <1>3 DEF TakePlain

-----------------------------------------------------------------------------
\* Ingesting and counting.

LEMMA IngestedFacts ==
    ASSUME TypeOK, NEW m \in Message, Ingested(m)
    PROVE  /\ hist' \in [got : SUBSET Message, again : SUBSET Message,
                         lost : SUBSET (Sessions \X (2..MaxNumber)), mine : Nat,
                         mixed : BOOLEAN, late : Nat]
           /\ hist'.got = hist.got \cup {m} /\ hist'.mine = hist.mine + 1
           /\ hist'.lost = hist.lost /\ hist'.mixed = hist.mixed /\ hist'.late = hist.late
           /\ m \notin hist.got => hist'.again = hist.again
<1>1. hist \in [got : SUBSET Message, again : SUBSET Message,
                lost : SUBSET (Sessions \X (2..MaxNumber)), mine : Nat,
                mixed : BOOLEAN, late : Nat]
  BY DEF TypeOK
<1> DEFINE g == hist.got \cup {m}
           a == IF m \in hist.got THEN hist.again \cup {m} ELSE hist.again
<1>2. hist' = [hist EXCEPT !.got = g, !.mine = hist.mine + 1, !.again = a]
  BY <1>1 DEF Ingested
<1>3. g \in SUBSET Message /\ a \in SUBSET Message /\ hist.mine + 1 \in Nat
      /\ (m \notin hist.got => a = hist.again)
  BY <1>1
<1> HIDE DEF g, a
<1>4. /\ hist' \in [got : SUBSET Message, again : SUBSET Message,
                lost : SUBSET (Sessions \X (2..MaxNumber)), mine : Nat,
                mixed : BOOLEAN, late : Nat]
      /\ hist'.got = g /\ hist'.mine = hist.mine + 1
      /\ hist'.lost = hist.lost /\ hist'.mixed = hist.mixed /\ hist'.late = hist.late
      /\ hist'.again = a
  BY <1>1, <1>2, <1>3
<1> QED
  BY <1>3, <1>4 DEF g

LEMMA IngestStep ==
    ASSUME Inv, Ingest
    PROVE  Inv'
<1> DEFINE m == client.msg.m
<1>1. /\ At("got") /\ client.msg.type = "message" /\ client \in Client
      /\ Ingested(m) /\ client' = [client EXCEPT !.at = "ingested"]
      /\ UNCHANGED <<conn, file, server, thread>>
  BY DEF Ingest, ToIngest, Inv, TypeOK
<1>2. m \in Message
  BY <1>1, PayloadFacts DEF Client
<1>3. /\ client' \in Client /\ client'.kind = client.kind
      /\ client'.at = "ingested" /\ client'.sid = client.sid
      /\ client'.seq = client.seq /\ client'.attempts = client.attempts
      /\ client'.resuming = client.resuming
      /\ client'.count = client.count /\ client'.msg = client.msg
  BY <1>1 DEF Client
<1>4. /\ hist' \in [got : SUBSET Message, again : SUBSET Message,
                    lost : SUBSET (Sessions \X (2..MaxNumber)), mine : Nat,
                    mixed : BOOLEAN, late : Nat]
      /\ hist'.got = hist.got \cup {m} /\ hist'.mine = hist.mine + 1
      /\ hist'.lost = hist.lost /\ hist'.mixed = hist.mixed /\ hist'.late = hist.late
      /\ m \notin hist.got => hist'.again = hist.again
  BY <1>1, <1>2, IngestedFacts DEF Inv
<1>5. TypeOK'
  BY <1>1, <1>3, <1>4 DEF Inv, TypeOK
<1>6. ShapeOK'
  BY <1>1, <1>3 DEF Inv, ShapeOK, At
<1>7. CountOK'
  BY <1>1, <1>3, <1>4, BoundsAssumption DEF Inv, CountOK, At, TypeOK, Client
<1>8. AttemptsOK'
  BY <1>3 DEF Inv, AttemptsOK, At
<1>9. ~Replacing /\ ~Replacing'
  BY <1>1, <1>3 DEF Replacing
<1>10. SessionOK'
  BY <1>1, <1>3, <1>9 DEF Inv, SessionOK, At
<1>11. SkipOK'
  BY <1>1, <1>3, <1>4 DEF Inv, SkipOK, PassedOK, At
<1>12. hist'.mixed \/ OnceOK'
  <2> SUFFICES ASSUME OnceOK PROVE OnceOK'
    BY <1>4 DEF Inv
  <2>1. m \notin hist.got /\ m = <<m[1], m[2]>>
    BY <1>1, <1>2, MessageFacts DEF OnceOK
  <2>2. server.newest \in Nat /\ server.held \subseteq 1..server.newest
    BY DEF Inv, TypeOK, SessionOK
  <2>3. CASE client.kind = "qq"
    <3>1. /\ m = <<conn.sid, client.seq>> /\ conn.sid # 0
          /\ m[1] = conn.sid /\ conn.sid <= server.newest
      BY <1>1, <2>3 DEF Inv, SessionOK, At
    <3>2. /\ conn.mode \in {"live", "resume"} /\ client.seq + 1 = conn.next
          /\ client.sid = conn.sid /\ client.seq \in Nat
          /\ file \in SessionState /\ file.sid = conn.sid /\ file.seq = client.seq
      BY <1>1, <1>9, <2>3, <3>1 DEF Inv, SessionOK, ShapeOK, Client
    <3>3. BehindOK(hist'.got, conn.sid, client.seq + 1)
      <4>1. BehindOK(hist.got, conn.sid, client.seq + 1)
        BY <3>1, <3>2 DEF OnceOK
      <4> QED
        BY <1>4, <3>1, <3>2, <4>1 DEF BehindOK
    <3>4. \A k \in hist'.got : k[1] <= server.newest
      BY <1>4, <3>1 DEF OnceOK
    <3> QED
      BY <1>1, <1>3, <1>4, <2>1, <3>1, <3>2, <3>3, <3>4 DEF OnceOK, At
  <2>4. CASE client.kind # "qq"
    <3>1. m[1] = 0 /\ conn.sid = 0
      BY <1>1, <2>4 DEF Inv, SessionOK, ShapeOK, At
    <3>2. \A k \in hist'.got : k[1] <= server.newest
      BY <1>4, <2>2, <3>1 DEF OnceOK
    <3>3. ASSUME NEW s, s # 0, NEW n \in Nat
          PROVE  <<s, n>> \in hist'.got => <<s, n>> \in hist.got
      BY <1>4, <3>1, <3>3
    <3>4. file \in SessionState /\ file.sid # 0 =>
             BehindOK(hist'.got, file.sid, file.seq + 1)
      BY <1>9, <3>3 DEF OnceOK, BehindOK
    <3> QED
      BY <1>1, <1>3, <1>4, <2>1, <3>1, <3>2, <3>4 DEF OnceOK, At
  <2> QED
    BY <2>3, <2>4
<1>13. PostsOK'
  <2>1. m[1] = 0 => m[2] <= server.posts
    <3>1. CASE client.kind = "qq"
      BY <1>1, <3>1 DEF Inv, SessionOK, At
    <3>2. CASE client.kind # "qq"
      BY <3>2 DEF Inv, PostsOK
    <3> QED
      BY <3>1, <3>2
  <2>2. \A t \in Threads : thread[t].at = "idle"
    BY <1>1 DEF Inv, ShapeOK, At
  <2> QED
    BY <1>1, <1>3, <1>4, <2>1, <2>2 DEF Inv, PostsOK, At
<1> QED
  BY <1>5, <1>6, <1>7, <1>8, <1>10, <1>11, <1>12, <1>13 DEF Inv

LEMMA CountStep ==
    ASSUME Inv, Count
    PROVE  Inv'
<1> DEFINE c == [client EXCEPT !.count = @ + 1]
<1>1. /\ At("ingested") /\ client \in Client /\ client.msg.type = "message"
      /\ UNCHANGED <<conn, server, thread, hist>>
  BY DEF Count, Again, Inv, TypeOK, ShapeOK
<1>2. /\ client' = [c EXCEPT !.at = "recv", !.msg = Just("none")]
      /\ IF client.kind = "qq" THEN Persist(c, c.sid # 0) ELSE UNCHANGED file
  BY DEF Count, Again
<1>3. /\ c \in Client /\ c.kind = client.kind /\ c.sid = client.sid
      /\ c.seq = client.seq /\ c.attempts = client.attempts
      /\ c.resuming = client.resuming /\ c.count = client.count + 1
      /\ client.count \in Nat
  BY <1>1 DEF Client
<1> HIDE DEF c
<1>4. Just("none") \in Payload /\ Just("none").m = <<0, 0>>
      /\ Just("none").type = "none"
  BY JustFacts
<1>5. /\ client' \in Client /\ client'.kind = client.kind
      /\ client'.at = "recv" /\ client'.sid = client.sid
      /\ client'.seq = client.seq /\ client'.attempts = client.attempts
      /\ client'.resuming = client.resuming
      /\ client'.count = client.count + 1 /\ client'.msg = Just("none")
  BY <1>2, <1>3, <1>4 DEF Client
<1>6. \/ file' = file
      \/ /\ client.kind = "qq" /\ file' \in SessionState
         /\ file'.sid = client.sid /\ file'.seq = client.seq
  <2>1. CASE client.kind = "qq"
    <3>1. file' = [sid |-> c.sid, seq |-> c.seq, can |-> (c.sid # 0)]
      BY <1>2, <2>1 DEF Persist
    <3>2. c.sid \in {0} \cup Sessions /\ c.seq \in 0..MaxNumber
      BY <1>3 DEF Client
    <3> QED
      BY <1>3, <2>1, <3>1, <3>2 DEF SessionState
  <2> QED
    BY <1>2, <2>1
<1>7. TypeOK'
  BY <1>1, <1>5, <1>6 DEF Inv, TypeOK
<1>8. ShapeOK'
  BY <1>1, <1>4, <1>5 DEF Inv, ShapeOK, At
<1>9. CountOK'
  BY <1>1, <1>3, <1>5 DEF Inv, CountOK, At
<1>10. AttemptsOK'
  BY <1>5 DEF Inv, AttemptsOK, At
<1>11. ~Replacing /\ ~Replacing'
  BY <1>1, <1>5 DEF Replacing, At
<1>12. file' \in SessionState =>
         \/ file \in SessionState /\ file'.sid = file.sid /\ file'.seq = file.seq
         \/ file'.sid = 0
  BY <1>6 DEF Inv, SessionOK
<1>13. SessionOK'
  <2>1. server.newest \in Nat
    BY DEF Inv, TypeOK
  <2>2. file' \in SessionState => file'.sid <= server.newest
    BY <1>12, <2>1 DEF Inv, SessionOK
  <2> QED
    BY <1>1, <1>4, <1>5, <1>6, <1>11, <2>2 DEF Inv, SessionOK
<1>14. SkipOK'
  <2>1. hist.got \cup hist.lost \cup {client.msg.m} = hist.got \cup hist.lost
    BY <1>1 DEF Inv, SkipOK
  <2>2. PassedOK(conn.sid, conn.next, hist.got \cup hist.lost)
        /\ (file \in SessionState =>
              PassedOK(file.sid, file.seq + 1, hist.got \cup hist.lost))
    BY <2>1 DEF Inv, SkipOK
  <2> QED
    BY <1>1, <1>5, <1>12, <2>2 DEF SkipOK, PassedOK, At
<1>15. hist'.mixed \/ OnceOK'
  BY <1>1, <1>5, <1>11, <1>12 DEF Inv, OnceOK, At
<1>16. PostsOK'
  <2>1. server.posts \in Nat
    BY DEF Inv, TypeOK
  <2> QED
    BY <1>1, <1>4, <1>5, <2>1 DEF Inv, PostsOK, At
<1> QED
  BY <1>7, <1>8, <1>9, <1>10, <1>13, <1>14, <1>15, <1>16 DEF Inv

-----------------------------------------------------------------------------
\* The webhook server.

LEMMA ThreadFacts ==
    ASSUME TypeOK, NEW S \in SUBSET Threads, NEW t
    PROVE  /\ IsFiniteSet(S) /\ Cardinality(S) \in Nat
           /\ Cardinality(Threads) \in Nat
           /\ Cardinality(S) <= Cardinality(Threads)
           /\ t \in S => Cardinality(S \ {t}) = Cardinality(S) - 1
           /\ t \notin S => Cardinality(S \cup {t}) = Cardinality(S) + 1
<1>1. IsFiniteSet(Threads)
  BY BoundsAssumption
<1>2. IsFiniteSet(S) /\ Cardinality(S) <= Cardinality(Threads)
  BY <1>1, FS_Subset
<1> QED
  BY <1>1, <1>2, FS_CardinalityType, FS_RemoveElement, FS_AddElement

\* A server that serves has nothing of a client in hand.
LEMMA ServingFacts ==
    ASSUME Inv, client.at \in {"serve", "accept"}
    PROVE  /\ client.kind = "webhook" /\ conn.sid = 0 /\ conn.mode = "none"
           /\ client.msg.m = <<0, 0>> /\ ~Replacing
           /\ hist.mine = client.count + Cardinality(Counting)
           /\ client.count \in Nat /\ MaxEvents \in Nat \ {0}
           /\ Cardinality(Counting) \in Nat
<1>1. Counting \subseteq Threads
  BY DEF Counting
<1>2. Cardinality(Counting) \in Nat
  BY <1>1, ThreadFacts DEF Inv
<1>3. client.count \in Nat /\ MaxEvents \in Nat \ {0}
  BY BoundsAssumption DEF Inv, TypeOK, Client
<1>4. /\ client.kind = "webhook" /\ conn = NoConn /\ client.msg = Just("none")
  BY DEF Inv, ShapeOK, At
<1>5. ~Replacing
  BY DEF Replacing, At
<1> QED
  BY <1>2, <1>3, <1>4, <1>5, NoConnFacts, JustFacts DEF Inv, CountOK

\* The loop of a webhook server goes from its limits to handle_request, and
\* back when nothing came.
LEMMA ServeStep ==
    ASSUME Inv, Serve \/ NoRequest
    PROVE  Inv'
<1>1. /\ client.at \in {"serve", "accept"} /\ client \in Client
      /\ UNCHANGED <<conn, file, server, thread, hist>>
  BY DEF Serve, NoRequest, Inv, TypeOK, At
<1>2. /\ client'.at \in {"serve", "accept"} /\ client' \in Client
      /\ client'.kind = client.kind /\ client'.sid = client.sid
      /\ client'.seq = client.seq /\ client'.attempts = client.attempts
      /\ client'.resuming = client.resuming /\ client'.count = client.count
      /\ client'.msg = client.msg
  BY <1>1 DEF Serve, NoRequest, Client
<1>3. hist.late = 0
  <2>1. CASE Serve
    BY <2>1, ServingFacts DEF Serve, Enough, At, Inv, CountOK
  <2>2. CASE NoRequest
    BY <2>2 DEF NoRequest, At, Inv, CountOK
  <2> QED
    BY <2>1, <2>2
<1>4. ~Replacing /\ ~Replacing'
  BY <1>1, <1>2 DEF Replacing, At
<1>5. TypeOK'
  BY <1>1, <1>2 DEF Inv, TypeOK
<1>6. ShapeOK'
  BY <1>1, <1>2 DEF Inv, ShapeOK, At
<1>7. CountOK'
  BY <1>1, <1>2, <1>3, ThreadSets DEF Inv, CountOK, At
<1>8. AttemptsOK'
  BY <1>1, <1>2 DEF Inv, AttemptsOK, At
<1>9. SessionOK'
  BY <1>1, <1>2, <1>4 DEF Inv, SessionOK
<1>10. SkipOK' /\ PostsOK'
  BY <1>1, <1>2 DEF Inv, SkipOK, PostsOK, At
<1>11. hist'.mixed \/ OnceOK'
  BY <1>1, <1>2, <1>4 DEF Inv, OnceOK, At
<1> QED
  BY <1>5, <1>6, <1>7, <1>8, <1>9, <1>10, <1>11 DEF Inv

LEMMA RequestStep ==
    ASSUME Inv, NEW t \in Threads, Request(t)
    PROVE  Inv'
<1> DEFINE m == <<0, server.posts + 1>>
<1>1. /\ client.at = "accept" /\ thread[t].at = "idle"
      /\ server.posts < MaxPosts
      /\ server' = [server EXCEPT !.posts = @ + 1]
      /\ thread' = [thread EXCEPT ![t] = [at |-> "ingest", msg |-> m]]
      /\ UNCHANGED <<conn, file>>
  BY DEF Request, At
<1>2. /\ client' \in Client /\ client'.at = "serve"
      /\ client'.kind = client.kind /\ client'.sid = client.sid
      /\ client'.seq = client.seq /\ client'.attempts = client.attempts
      /\ client'.resuming = client.resuming /\ client'.count = client.count
      /\ client'.msg = client.msg
  BY DEF Request, Inv, TypeOK, Client
<1>3. /\ hist' \in [got : SUBSET Message, again : SUBSET Message,
                    lost : SUBSET (Sessions \X (2..MaxNumber)), mine : Nat,
                    mixed : BOOLEAN, late : Nat]
      /\ hist'.got = hist.got /\ hist'.mine = hist.mine
      /\ hist'.lost = hist.lost /\ hist'.mixed = hist.mixed
      /\ hist'.again = hist.again
      /\ hist'.late = 0 \/ (hist'.late = 1 /\ client.count >= MaxEvents)
  <2>1. hist.late = 0
    BY <1>1 DEF Inv, CountOK, At
  <2>2. hist' = [hist EXCEPT !.late = IF client.count >= MaxEvents THEN 1 ELSE 0]
    BY <2>1 DEF Request, Inv, TypeOK
  <2> QED
    BY <2>2 DEF Inv, TypeOK
<1>4. ~Replacing /\ ~Replacing'
  BY <1>1, <1>2 DEF Replacing, At
<1>5. server \in [held : SUBSET Sessions, newest : 0..MaxSessions,
                   last : [Sessions -> 0..MaxNumber], posts : 0..MaxPosts,
                   runs : 0..MaxRuns]
  BY DEF Inv, TypeOK
<1>6. server.posts + 1 \in 1..MaxPosts /\ server.posts + 1 \in 0..MaxPosts
  BY <1>1, <1>5, BoundsAssumption
<1>7. /\ server' \in [held : SUBSET Sessions, newest : 0..MaxSessions,
                   last : [Sessions -> 0..MaxNumber], posts : 0..MaxPosts,
                   runs : 0..MaxRuns]
      /\ server'.newest = server.newest /\ server'.held = server.held
      /\ server'.posts = server.posts + 1 /\ server.posts \in Nat
  BY <1>1, <1>5, <1>6
<1>8. m \in Message /\ m[1] = 0 /\ m[2] = server.posts + 1
  BY <1>6 DEF Message
<1> HIDE DEF m
<1>9. /\ thread' \in [Threads -> [at : {"idle", "ingest", "count"},
                                  msg : {NoMessage} \cup Message]]
      /\ thread'[t].at = "ingest" /\ thread'[t].msg = m
      /\ \A u \in Threads \ {t} : thread'[u] = thread[u]
  BY <1>1, <1>8 DEF Inv, TypeOK
<1>10. TypeOK'
  BY <1>1, <1>7, <1>9, <1>2, <1>3 DEF Inv, TypeOK
<1>11. ShapeOK'
  BY <1>1, <1>9, <1>2 DEF Inv, ShapeOK, At
<1>12. CountOK'
  <2>1. Counting' = Counting
    BY <1>1, <1>9 DEF Counting
  <2> QED
    BY <1>1, <1>2, <1>3, <2>1 DEF Inv, CountOK, At
<1>13. AttemptsOK' /\ SkipOK'
  BY <1>1, <1>2, <1>3 DEF Inv, AttemptsOK, SkipOK, At
<1>14. SessionOK'
  BY <1>1, <1>7, <1>2, <1>4 DEF Inv, SessionOK
<1>15. hist'.mixed \/ OnceOK'
  BY <1>1, <1>7, <1>2, <1>3, <1>4 DEF Inv, OnceOK, At
<1>16. PostsOK'
  <2>1. \A k \in hist.got : k[1] = 0 => k[2] <= server.posts /\ k[2] \in Nat
    BY MessageFacts DEF Inv, PostsOK, TypeOK
  <2>2. m \notin hist.got
    BY <1>7, <1>8, <2>1
  <2>3. \A u \in Threads : thread[u].at = "ingest" => thread[u].msg # m
    <3>1. \A u \in Threads : thread[u].at = "ingest" => thread[u].msg[2] \in Nat
      BY MessageFacts DEF Inv, PostsOK
    <3> QED
      BY <1>7, <1>8, <3>1 DEF Inv, PostsOK
  <2>4. ASSUME NEW u \in Threads, thread'[u].at = "ingest"
        PROVE  /\ thread'[u].msg[1] = 0 /\ thread'[u].msg[2] <= server'.posts
               /\ thread'[u].msg \in Message \ hist'.got
               /\ \A v \in Threads :
                     thread'[v].at = "ingest" /\ thread'[v].msg = thread'[u].msg
                       => v = u
    <3>1. CASE u = t
      BY <1>1, <1>7, <1>8, <1>9, <1>3, <2>2, <2>3, <3>1
    <3>2. CASE u # t
      <4>1. /\ thread'[u] = thread[u] /\ thread[u].at = "ingest"
            /\ thread[u].msg[1] = 0 /\ thread[u].msg[2] <= server.posts
            /\ thread[u].msg \in Message \ hist.got
        BY <1>9, <2>4, <3>2 DEF Inv, PostsOK
      <4>2. thread[u].msg[2] \in Nat
        BY <4>1, MessageFacts
      <4>3. \A v \in Threads :
              thread'[v].at = "ingest" /\ thread'[v].msg = thread'[u].msg => v = u
        BY <1>9, <2>3, <4>1 DEF Inv, PostsOK
      <4> QED
        BY <1>1, <1>7, <1>3, <4>1, <4>2, <4>3
    <3> QED
      BY <3>1, <3>2
  <2>5. client.msg.m = <<0, 0>>
    BY <1>1, ServingFacts
  <2> QED
    BY <1>1, <1>7, <1>2, <1>3, <2>1, <2>4, <2>5 DEF PostsOK, At
<1> QED
  BY <1>10, <1>11, <1>12, <1>13, <1>14, <1>15, <1>16 DEF Inv

LEMMA ThreadIngestStep ==
    ASSUME Inv, NEW t \in Threads, ThreadIngest(t)
    PROVE  Inv'
<1> DEFINE m == thread[t].msg
<1>1. /\ thread[t].at = "ingest" /\ Ingested(m)
      /\ thread' = [thread EXCEPT ![t].at = "count"]
      /\ UNCHANGED <<client, conn, file, server>>
  BY DEF ThreadIngest
<1>2. client.at \in {"serve", "accept"}
  BY <1>1 DEF Inv, ShapeOK
<1>3. /\ thread \in [Threads -> [at : {"idle", "ingest", "count"},
                                 msg : {NoMessage} \cup Message]]
      /\ m[1] = 0 /\ m[2] <= server.posts /\ m \notin hist.got
  BY <1>1 DEF Inv, TypeOK, PostsOK
<1>4. /\ thread' \in [Threads -> [at : {"idle", "ingest", "count"},
                                  msg : {NoMessage} \cup Message]]
      /\ thread'[t].at = "count"
      /\ \A u \in Threads \ {t} : thread'[u] = thread[u]
  BY <1>1, <1>3
<1>5. m \in Message
  BY <1>1 DEF Inv, PostsOK
<1>6. /\ hist' \in [got : SUBSET Message, again : SUBSET Message,
                    lost : SUBSET (Sessions \X (2..MaxNumber)), mine : Nat,
                    mixed : BOOLEAN, late : Nat]
      /\ hist'.got = hist.got \cup {m} /\ hist'.mine = hist.mine + 1
      /\ hist'.lost = hist.lost /\ hist'.mixed = hist.mixed
      /\ hist'.again = hist.again /\ hist'.late = hist.late
  BY <1>1, <1>3, <1>5, IngestedFacts DEF Inv
<1>7. TypeOK'
  BY <1>1, <1>4, <1>6 DEF Inv, TypeOK
<1>8. ShapeOK'
  BY <1>1, <1>2 DEF Inv, ShapeOK, At
<1>9. CountOK'
  <2>1. Counting' = Counting \cup {t} /\ t \notin Counting
        /\ Counting \subseteq Threads
    BY <1>1, <1>4 DEF Counting
  <2>2. Cardinality(Counting') = Cardinality(Counting) + 1
    BY <2>1, ThreadFacts DEF Inv
  <2>3. hist'.mine = client.count + Cardinality(Counting')
    BY <1>2, <1>6, <2>2, ServingFacts
  <2> QED
    BY <1>1, <1>2, <1>6, <2>3 DEF Inv, CountOK, At
<1>10. AttemptsOK'
  BY <1>1 DEF Inv, AttemptsOK, At
<1>11. SessionOK'
  BY <1>1 DEF Inv, SessionOK, Replacing, At
<1>12. SkipOK'
  BY <1>1, <1>6 DEF Inv, SkipOK, PassedOK, At
<1>13. hist'.mixed \/ OnceOK'
  <2> SUFFICES ASSUME OnceOK PROVE OnceOK'
    BY <1>6 DEF Inv
  <2>1. server.newest \in Nat
    BY DEF Inv, TypeOK
  <2>2. \A k \in hist'.got : k[1] <= server.newest
    BY <1>3, <1>6, <2>1 DEF OnceOK
  <2>3. ASSUME NEW s, s # 0, NEW n \in Nat
        PROVE  <<s, n>> \in hist'.got => <<s, n>> \in hist.got
    BY <1>3, <1>6, <2>3
  <2>4. file \in SessionState /\ file.sid # 0 =>
           BehindOK(hist'.got, file.sid, file.seq + 1)
    BY <1>2, <2>3, ServingFacts DEF OnceOK, BehindOK
  <2>5. conn.sid = 0
    BY <1>2, ServingFacts
  <2> QED
    BY <1>1, <1>2, <1>6, <2>2, <2>4, <2>5 DEF OnceOK, At
<1>14. PostsOK'
  BY <1>1, <1>2, <1>3, <1>4, <1>6 DEF Inv, PostsOK, At
<1> QED
  BY <1>7, <1>8, <1>9, <1>10, <1>11, <1>12, <1>13, <1>14 DEF Inv

\* A thread is done with its request, which was counted or has failed.
LEMMA ThreadDoneStep ==
    ASSUME Inv, NEW t \in Threads, ThreadFails(t) \/ ThreadCount(t)
    PROVE  Inv'
<1>1. /\ thread[t].at \in {"ingest", "count"}
      /\ thread' = [thread EXCEPT ![t] = [at |-> "idle", msg |-> NoMessage]]
      /\ UNCHANGED <<conn, file, server, hist>> /\ client \in Client
      /\ thread \in [Threads -> [at : {"idle", "ingest", "count"},
                                 msg : {NoMessage} \cup Message]]
  BY DEF ThreadFails, ThreadCount, Inv, TypeOK
<1>2. client.at \in {"serve", "accept"}
  BY <1>1 DEF Inv, ShapeOK
<1>3. /\ thread' \in [Threads -> [at : {"idle", "ingest", "count"},
                                  msg : {NoMessage} \cup Message]]
      /\ thread'[t].at = "idle"
      /\ \A u \in Threads \ {t} : thread'[u] = thread[u]
  BY <1>1
<1>4. /\ client' \in Client /\ client'.kind = client.kind
      /\ client'.at = client.at /\ client'.sid = client.sid
      /\ client'.seq = client.seq /\ client'.attempts = client.attempts
      /\ client'.resuming = client.resuming /\ client'.msg = client.msg
      /\ client'.count = IF thread[t].at = "count" THEN client.count + 1
                         ELSE client.count
  <2>1. CASE ThreadFails(t)
    BY <1>1, <2>1 DEF ThreadFails
  <2>2. CASE ThreadCount(t)
    BY <1>1, <2>2 DEF ThreadCount, Client
  <2> QED
    BY <2>1, <2>2
<1>5. TypeOK'
  BY <1>1, <1>3, <1>4 DEF Inv, TypeOK
<1>6. ShapeOK'
  BY <1>1, <1>3, <1>4 DEF Inv, ShapeOK, At
<1>7. CountOK'
  <2>1. /\ Counting \subseteq Threads
        /\ IF thread[t].at = "count" THEN Counting' = Counting \ {t} /\ t \in Counting
           ELSE Counting' = Counting
    BY <1>1, <1>3 DEF Counting
  <2>2. Cardinality(Counting') = IF thread[t].at = "count"
                                 THEN Cardinality(Counting) - 1
                                 ELSE Cardinality(Counting)
    BY <2>1, ThreadFacts DEF Inv
  <2>3. hist.mine = client'.count + Cardinality(Counting')
    BY <1>2, <1>4, <2>2, ServingFacts
  <2>4. hist.late = 0 \/ (At("serve") /\ hist.late = 1 /\ client'.count >= MaxEvents)
    BY <1>2, <1>4, ServingFacts DEF Inv, CountOK
  <2> QED
    BY <1>1, <1>2, <1>4, <2>3, <2>4 DEF CountOK, At
<1>8. AttemptsOK' /\ SkipOK'
  BY <1>1, <1>4 DEF Inv, AttemptsOK, SkipOK, At
<1>9. SessionOK'
  BY <1>1, <1>4 DEF Inv, SessionOK, Replacing, At
<1>10. hist'.mixed \/ OnceOK'
  BY <1>1, <1>4 DEF Inv, OnceOK, Replacing, At
<1>11. PostsOK'
  BY <1>1, <1>2, <1>3, <1>4 DEF Inv, PostsOK, At
<1> QED
  BY <1>5, <1>6, <1>7, <1>8, <1>9, <1>10, <1>11 DEF Inv

-----------------------------------------------------------------------------
LEMMA NextInv == Inv /\ [Next]_vars => Inv'
<1> SUFFICES ASSUME Inv, [Next]_vars PROVE Inv'
  OBVIOUS
<1>1. CASE Say \/ (\E s \in Sessions : Forget(s)) \/ StartFails
  <2>1. UNCHANGED <<client, conn, file, thread, hist>>
    BY <1>1 DEF Say, Forget, StartFails
  <2> QED
    BY <1>1, <2>1, PlatformStep
<1>2. CASE \E kind \in Kinds : Start(kind)
  BY <1>2, StartStep
<1>3. CASE Expire \/ Crash
  BY <1>3, ExpireStep, EndingStep
<1>4. CASE ClientStep
  BY <1>4, LoopStep, ConnectStep, EndingStep, ClosedStep, AfterStep,
     ReceiveStep, HandleStep, PlainStep, IngestStep, CountStep,
     ServeStep DEF ClientStep
<1>5. CASE \E t \in Threads : Request(t) \/ ThreadIngest(t) \/ ThreadFails(t)
                              \/ ThreadCount(t)
  BY <1>5, RequestStep, ThreadIngestStep, ThreadDoneStep
<1>6. CASE UNCHANGED vars
  <2>1. UNCHANGED <<client, conn, file, server, thread, hist>>
    BY <1>6 DEF vars
  <2>2. client' \in Client
    BY <2>1 DEF Inv, TypeOK
  <2> QED
    BY <2>1, <2>2, SameStep
<1> QED
  BY <1>1, <1>2, <1>3, <1>4, <1>5, <1>6 DEF Next

LEMMA InitInv == Init => Inv
<1> SUFFICES ASSUME Init PROVE Inv
  OBVIOUS
<1>1. /\ client = NoClient /\ conn = NoConn /\ file = NoFile
      /\ thread = [t \in Threads |-> [at |-> "idle", msg |-> NoMessage]]
      /\ hist = [got |-> {}, again |-> {}, lost |-> {}, mine |-> 0, mixed |-> FALSE,
                 late |-> 0]
      /\ server = [held |-> {}, newest |-> 0, last |-> [s \in Sessions |-> 0],
                   posts |-> 0, runs |-> 0]
  BY DEF Init
<1>2. TypeOK
  <2>1. 0 \in 0..MaxSessions /\ 0 \in 0..MaxNumber /\ 0 \in 0..MaxPosts
        /\ 0 \in 0..MaxRuns
    BY BoundsAssumption
  <2> QED
    BY <1>1, <2>1, NoClientFacts, NoConnFacts DEF TypeOK
<1>3. /\ client.at = "off" /\ client.kind = "none" /\ client.count = 0
      /\ client.attempts = 0 /\ client.resuming = FALSE /\ client.sid = 0
      /\ client.msg = Just("none") /\ client.msg.m = <<0, 0>>
      /\ conn.mode = "none" /\ conn.sid = 0 /\ conn.next = 0
      /\ \A t \in Threads : thread[t].at = "idle"
      /\ hist.got = {} /\ hist.again = {} /\ hist.mine = 0 /\ hist.late = 0
      /\ server.held = {} /\ server.newest = 0 /\ server.posts = 0
  BY <1>1, NoClientFacts, NoConnFacts, JustFacts
<1>4. ShapeOK /\ CountOK /\ AttemptsOK
  BY <1>1, <1>3 DEF ShapeOK, CountOK, AttemptsOK, At
<1>5. file \notin SessionState /\ ~Replacing
  BY <1>1, <1>3, MarkersAssumption DEF Replacing, At
<1>6. SessionOK /\ SkipOK
  BY <1>3, <1>5 DEF SessionOK, SkipOK, PassedOK, At
<1>7. OnceOK /\ PostsOK
  BY <1>3, <1>5 DEF OnceOK, PostsOK, At
<1> QED
  BY <1>2, <1>4, <1>6, <1>7 DEF Inv

\* The session file, the connection and the history agree at every step of
\* every listener, wherever it is killed.
THEOREM GatewayInvariant == Spec => []Inv
BY InitInv, NextInv, PTL DEF Spec

\* No restart and no resumption ingests a message again, unless a listener
\* ended between storing the number of a READY and storing its session.
THEOREM MessagesAreIngestedOnce == Spec => []IngestedOnce
<1>1. Inv => IngestedOnce
  BY DEF Inv, OnceOK, IngestedOnce
<1> QED
  BY <1>1, GatewayInvariant, PTL

\* Resuming skips no message, whatever reconnections and restarts lie between.
THEOREM ResumingSkipsNothing == Spec => []NothingSkipped
<1>1. Inv => NothingSkipped
  BY DEF Inv, SkipOK, PassedOK, NothingSkipped
<1> QED
  BY <1>1, GatewayInvariant, PTL

\* The answer counts only what this listener has ingested, and a client counts
\* all of it.
THEOREM CountsAreHonest == Spec => []CountsWhatWasIngested
<1>1. Inv => CountsWhatWasIngested
  <2> SUFFICES ASSUME Inv PROVE CountsWhatWasIngested
    OBVIOUS
  <2>1. client.count \in Nat
    BY DEF Inv, TypeOK, Client
  <2>2. CASE client.at \in {"serve", "accept"}
    BY <2>2, ServingFacts DEF CountsWhatWasIngested, At
  <2>3. CASE client.at \notin {"serve", "accept"}
    BY <2>1, <2>3 DEF Inv, TypeOK, Client, CountOK, CountsWhatWasIngested, At
  <2> QED
    BY <2>2, <2>3
<1> QED
  BY <1>1, GatewayInvariant, PTL

\* A client ingests no more than max_events and resumes no more often than
\* max_resume_attempts (or once); a webhook server, however many threads it
\* has, accepts at most one request after max_events is reached.
THEOREM LimitsHold == Spec => []WithinLimits
<1>1. Inv => WithinLimits
  <2> SUFFICES ASSUME Inv PROVE WithinLimits
    OBVIOUS
  <2>1. client.count \in Nat /\ client.attempts \in Nat /\ MaxEvents \in Nat \ {0}
        /\ MaxResume \in Nat
    BY BoundsAssumption DEF Inv, TypeOK, Client
  <2>2. client.attempts <= Max({1, MaxResume})
    BY <2>1, MaxFacts DEF Inv, AttemptsOK
  <2>3. hist.late <= 1
    BY DEF Inv, CountOK
  <2>4. ASSUME client.kind # "webhook" PROVE hist.mine <= MaxEvents
    BY <2>1, <2>4 DEF Inv, CountOK, ShapeOK, TypeOK, Client, At
  <2> QED
    BY <2>2, <2>3, <2>4 DEF WithinLimits
<1> QED
  BY <1>1, GatewayInvariant, PTL

-----------------------------------------------------------------------------
\* After its deadline a listener is bounded.

\* How many steps a listener whose deadline has passed can still take.
StepsLeft ==
    CASE client.at = "off" -> 0
      [] client.at \in {"loop", "after", "serve"} -> 1
      [] client.at \in {"recv", "accept"} -> 2
      [] client.at \in {"connect", "ingested"} -> 3
      [] client.at = "got" -> 4

\* A listener past its deadline stays so until it is gone, each of its steps
\* leaves fewer of them, and nothing else adds one: it takes no message any
\* more and reconnects no more.
WindsDown ==
    [][ client.expired /\ ~At("off") =>
          /\ ClientStep => StepsLeft' < StepsLeft
          /\ StepsLeft' <= StepsLeft
          /\ client'.expired \/ At("off")' ]_vars

\* Where each step of a listener past its deadline takes it.
LEMMA ExpiredSteps ==
    ASSUME TypeOK, client.expired, ClientStep
    PROVE  /\ StepsLeft' < StepsLeft
           /\ client'.expired \/ At("off")'
<1>1. client \in Client /\ Enough
  BY DEF TypeOK, Enough
<1>2. ASSUME End, ~At("off")
      PROVE  /\ StepsLeft' < StepsLeft
             /\ client'.expired \/ At("off")'
  <2>1. client'.at = "off"
    BY <1>2 DEF End, NoClient
  <2>2. StepsLeft' = 0
    BY <2>1 DEF StepsLeft
  <2>3. StepsLeft \in 1 .. 4
    BY <1>1, <1>2 DEF StepsLeft, Client, At
  <2> QED
    BY <2>1, <2>2, <2>3 DEF At
<1>3. ASSUME NEW s, NEW c, client' = [c EXCEPT !.at = s, !.msg = Just("none")],
             c \in Client, c.expired = client.expired,
             s \in {"after", "recv"}, client.at \in {"got", "ingested"}
      PROVE  /\ StepsLeft' < StepsLeft
             /\ client'.expired \/ At("off")'
  <2>1. client'.at = s /\ client'.expired = c.expired
    BY <1>3 DEF Client
  <2>2. client'.at \in {"after", "recv"}
    BY <1>3, <2>1
  <2>3. StepsLeft' \in {1, 2}
    BY <2>2 DEF StepsLeft
  <2>4. StepsLeft \in {3, 4}
    BY <1>3 DEF StepsLeft
  <2>5. StepsLeft' < StepsLeft
    BY <2>3, <2>4
  <2>6. client'.expired = client.expired
    BY <1>3, <2>1
  <2> QED
    BY <2>5, <2>6
<1>4. ASSUME NEW s, client' = [client EXCEPT !.at = s],
             \/ client.at = "connect" /\ s \in {"recv", "after"}
             \/ client.at = "recv" /\ s = "after"
             \/ client.at = "got" /\ s = "ingested"
             \/ client.at = "accept" /\ s = "serve"
      PROVE  /\ StepsLeft' < StepsLeft
             /\ client'.expired \/ At("off")'
  <2>1. client'.at = s /\ client'.expired = client.expired
    BY <1>1, <1>4 DEF Client
  <2> QED
    BY <1>4, <2>1 DEF StepsLeft
<1>5. CASE Loop
  BY <1>1, <1>2, <1>5 DEF Loop, Answer, At
<1>6. CASE Connect
  BY <1>4, <1>6 DEF Connect, At
<1>7. CASE Refused
  BY <1>2, <1>7 DEF Refused, At
<1>8. CASE Closed
  BY <1>2, <1>4, <1>8 DEF Closed, At
<1>9. CASE LeaveRecv
  BY <1>2, <1>4, <1>9 DEF LeaveRecv, Answer, At
<1>10. CASE After
  <2>1. Answer
    BY <1>1, <1>10 DEF After
  <2> QED
    BY <1>2, <1>10, <2>1 DEF After, Answer, At
<1>11. CASE Receive \/ ReceiveWeCom \/ ReceiveOpenClaw
  BY <1>1, <1>11 DEF Receive, ReceiveWeCom, ReceiveOpenClaw
<1>12. CASE Handle
  <2>1. client.at = "got"
    BY <1>12 DEF Handle, At
  <2>2. \E c \in Client : /\ c.expired = client.expired
                          /\ Leave(c) \/ Again(c)
    <3>1. [client EXCEPT !.can = TRUE] \in Client
          /\ [client EXCEPT !.can = TRUE].expired = client.expired
      BY <1>1 DEF Client
    <3>2. [client EXCEPT !.can = FALSE, !.sid = 0] \in Client
          /\ [client EXCEPT !.can = FALSE, !.sid = 0].expired = client.expired
      BY <1>1 DEF Client
    <3>3. [client EXCEPT !.ready = TRUE, !.sid = conn.sid, !.can = TRUE] \in Client
          /\ [client EXCEPT !.ready = TRUE, !.sid = conn.sid, !.can = TRUE].expired
               = client.expired
      BY <1>1 DEF Client, TypeOK
    <3> QED
      BY <1>1, <1>12, <3>1, <3>2, <3>3 DEF Handle
  <2>3. PICK c \in Client : c.expired = client.expired /\ (Leave(c) \/ Again(c))
    BY <2>2
  <2> QED
    BY <1>3, <2>1, <2>3 DEF Leave, Again
<1>13. CASE Ingest
  BY <1>4, <1>13 DEF Ingest, At
<1>14. CASE IngestFails
  BY <1>2, <1>14 DEF IngestFails, At
<1>15. CASE Count
  <2>1. PICK c : c = [client EXCEPT !.count = @ + 1]
    OBVIOUS
  <2>2. c \in Client /\ c.expired = client.expired
    <3>1. client.count + 1 \in Nat
      BY <1>1 DEF Client
    <3>2. PICK n \in Nat : n = client.count + 1
      BY <3>1
    <3>3. c = [client EXCEPT !.count = n]
      BY <2>1, <3>2
    <3> QED
      BY <1>1, <3>2, <3>3 DEF Client
  <2>3. Again(c) /\ client.at = "ingested"
    BY <1>15, <2>1 DEF Count, At
  <2> QED
    BY <1>3, <2>2, <2>3 DEF Again
<1>16. CASE Serve \/ NoRequest \/ ServeEnds
  BY <1>1, <1>2, <1>4, <1>16 DEF Serve, NoRequest, ServeEnds, Answer, At
<1> QED
  BY <1>5, <1>6, <1>7, <1>8, <1>9, <1>10, <1>11, <1>12, <1>13, <1>14, <1>15,
     <1>16 DEF ClientStep

\* Nothing but the listener itself and its end touches the place it is at.
LEMMA OthersLeaveIt ==
    ASSUME TypeOK, client.expired, ~At("off"), [Next]_vars, ~ClientStep
    PROVE  /\ StepsLeft' <= StepsLeft
           /\ client'.expired \/ At("off")'
<1>1. client \in Client /\ client.at # "off"
  BY DEF TypeOK, At
<1>2. StepsLeft \in 0 .. 4
  BY <1>1 DEF StepsLeft, Client
<1>3. CASE client'.at = client.at /\ client'.expired
  <2>1. StepsLeft' = StepsLeft
    BY <1>3 DEF StepsLeft
  <2> QED
    BY <1>2, <1>3, <2>1
<1>4. CASE Crash
  <2>1. client'.at = "off"
    BY <1>4 DEF Crash, End, NoClient
  <2>2. StepsLeft' = 0
    BY <2>1 DEF StepsLeft
  <2> QED
    BY <1>2, <2>1, <2>2 DEF At
<1>5. CASE client' = client
  BY <1>3, <1>5
<1>6. ASSUME NEW t \in Threads, ThreadCount(t)
      PROVE  client'.at = client.at /\ client'.expired
  BY <1>1, <1>6 DEF ThreadCount, Client
<1>7. ASSUME NEW t \in Threads, Request(t)
      PROVE  /\ StepsLeft' <= StepsLeft
             /\ client'.expired \/ At("off")'
  <2>1. client.at = "accept" /\ client'.at = "serve" /\ client'.expired
    BY <1>1, <1>7 DEF Request, Client, At
  <2>2. StepsLeft = 2 /\ StepsLeft' = 1
    BY <2>1 DEF StepsLeft
  <2> QED
    BY <2>1, <2>2
<1> QED
  BY <1>1, <1>3, <1>4, <1>5, <1>6, <1>7
  DEF Next, Say, Forget, Start, StartFails, Expire, ThreadIngest,
      ThreadFails, vars, At

\* For any limits, any messages and any behaviour of the platform: a listener
\* whose duration is over (run_qq_official_gateway_client and the other clients,
\* the webhook server) takes at most four more steps before it is gone.  With
\* time that passes and calls that return this is why every listener ends.
THEOREM ListenersAreBounded == Spec => WindsDown
<1>1. Inv /\ [Next]_vars =>
        [ client.expired /\ ~At("off") =>
            /\ ClientStep => StepsLeft' < StepsLeft
            /\ StepsLeft' <= StepsLeft
            /\ client'.expired \/ At("off")' ]_vars
  <2> SUFFICES ASSUME Inv, [Next]_vars, client.expired, ~At("off")
               PROVE  /\ ClientStep => StepsLeft' < StepsLeft
                      /\ StepsLeft' <= StepsLeft
                      /\ client'.expired \/ At("off")'
    OBVIOUS
  <2>1. TypeOK /\ TypeOK'
    BY NextInv DEF Inv
  <2>2. StepsLeft \in 0 .. 4
    BY <2>1 DEF StepsLeft, TypeOK, Client
  <2>3. StepsLeft' \in 0 .. 4
    BY <2>1 DEF StepsLeft, TypeOK, Client
  <2> QED
    BY <2>1, <2>2, <2>3, ExpiredSteps, OthersLeaveIt
<1> QED
  BY <1>1, GatewayInvariant, PTL DEF Spec, WindsDown
=============================================================================
