--------------------------- MODULE ConsoleServer ---------------------------
(***************************************************************************)
(* Threads around the console: engine/console/ConsoleServer.cpp, the task  *)
(* queue of engine/cvar/Console.cpp and the engine loop of game/main.cpp.  *)
(*                                                                         *)
(* Network threads never touch the registry.  A WebSocket callback queues  *)
(* a task and forgets it; the worker of a TCP line client queues one and   *)
(* waits up to two seconds for its promise.  The main thread drains the    *)
(* queue once per frame, runs the batch, and stops the server when told    *)
(* to, which joins every network thread.                                   *)
(*                                                                         *)
(* A console line is its number in its client's stream; a WebSocket        *)
(* message is known by the session that sent it.  civetweb is external: it *)
(* serves a connection at a time on each of a fixed set of connection      *)
(* structures, whose addresses the engine uses as identities.              *)
(***************************************************************************)
EXTENDS Integers, Sequences

CONSTANTS
    LineClients,  \* peers of the TCP line protocol, each with its worker thread
    Conns,        \* civetweb's connection structures
    MaxLines,     \* bound on the lines a client sends
    MaxSessions,  \* bound on the WebSocket sessions of a behaviour
    MaxMessages,  \* bound on the WebSocket messages of a behaviour
    NoSession

ASSUME ServerAssumption ==
    /\ MaxLines \in Nat /\ MaxSessions \in Nat /\ MaxMessages \in Nat
    /\ NoSession \notin 1..MaxSessions

VARIABLES
    queue,      \* Console::tasks_
    batch,      \* what this Drain swapped out of it and has not run yet
    main,       \* main thread: "loop", "drain", "joinweb", "joinline", "exited"
    running,    \* ConsoleServer::running_
    lineRun,    \* Impl::line_run
    quit,       \* ~g_running, or the window was closed
    unbind,     \* Impl::force_unbind
    worker,     \* of each line client: "accepting", "reading", "waiting", "closed"
    sent,       \* number of lines each client has sent
    promise,    \* of each client: the line whose task has set the promise waited for, or 0
    answers,    \* history: what each client was sent back
    executed,   \* history: the tasks the main thread has run, in order
    session,    \* of each connection: the session on it, or NoSession
    sessions,   \* number of sessions opened
    messages,   \* number of WebSocket messages received
    replies     \* history: [from, to] of each result sent to a WebSocket

webVars  == <<session, sessions, messages>>
lineVars == <<worker, sent, answers>>
mainVars == <<main, batch, running, lineRun>>
vars     == <<queue, promise, executed, replies, quit, unbind, webVars, lineVars, mainVars>>

Timeout == 0
Task    == [kind : {"line"}, who : LineClients, n : 1..MaxLines]
             \cup [kind : {"ws"}, who : Conns, n : 1..MaxSessions]

-----------------------------------------------------------------------------
(* Worker thread of a line client: LineClientLoop.                         *)

\* Accepted and authenticated.
LineConnect(c) ==
    /\ lineRun
    /\ worker[c] = "accepting"
    /\ worker' = [worker EXCEPT ![c] = "reading"]
    /\ UNCHANGED <<queue, promise, executed, replies, quit, unbind, sent, answers,
                   webVars, mainVars>>

\* A line is queued with a promise of its own.  (line_run is looked at before recv blocks, so
\* one more line may be taken after it was cleared.)
LineRead(c) ==
    /\ worker[c] = "reading"
    /\ sent[c] < MaxLines
    /\ sent' = [sent EXCEPT ![c] = @ + 1]
    /\ queue' = Append(queue, [kind |-> "line", who |-> c, n |-> sent'[c]])
    /\ promise' = [promise EXCEPT ![c] = 0]
    /\ worker' = [worker EXCEPT ![c] = "waiting"]
    /\ UNCHANGED <<executed, replies, quit, unbind, answers, webVars, mainVars>>

Answer(c, a) ==
    /\ worker[c] = "waiting"
    /\ answers' = [answers EXCEPT ![c] = Append(@, a)]
    /\ worker' = [worker EXCEPT ![c] = IF lineRun THEN "reading" ELSE "closed"]
    /\ UNCHANGED <<queue, promise, executed, replies, quit, unbind, sent, webVars, mainVars>>

LineReply(c) == promise[c] # 0 /\ Answer(c, promise[c])

\* Mutated form of LineTimeout: the worker waits for its promise without a limit.
LineTimeout_Never(c) == FALSE /\ Answer(c, Timeout)

\* Two seconds without a result; the task stays queued.
LineTimeout(c) == promise[c] = 0 /\ Answer(c, Timeout)

\* The peer closes, or the worker notices that the server stops.
LineClose(c) ==
    /\ worker[c] = "reading"
    /\ worker' = [worker EXCEPT ![c] = "closed"]
    /\ UNCHANGED <<queue, promise, executed, replies, quit, unbind, sent, answers,
                   webVars, mainVars>>

-----------------------------------------------------------------------------
(* civetweb's threads.                                                     *)

\* WsConnect accepts, WsReady registers the connection.
WsReady(w) ==
    /\ running
    /\ main # "joinline"
    /\ session[w] = NoSession
    /\ sessions < MaxSessions
    /\ sessions' = sessions + 1
    /\ session' = [session EXCEPT ![w] = sessions']
    /\ UNCHANGED <<queue, promise, executed, replies, quit, unbind, messages,
                   lineVars, mainVars>>

WsData(w) ==
    /\ session[w] # NoSession
    /\ messages < MaxMessages
    /\ messages' = messages + 1
    /\ queue' = Append(queue, [kind |-> "ws", who |-> w, n |-> session[w]])
    /\ UNCHANGED <<promise, executed, replies, quit, unbind, session, sessions,
                   lineVars, mainVars>>

WsClose(w) ==
    /\ session[w] # NoSession
    /\ session' = [session EXCEPT ![w] = NoSession]
    /\ UNCHANGED <<queue, promise, executed, replies, quit, unbind, sessions, messages,
                   lineVars, mainVars>>

\* HandleLogin counted twenty failures.
RequestUnbind ==
    /\ running
    /\ unbind' = TRUE
    /\ UNCHANGED <<queue, promise, executed, replies, quit, webVars, lineVars, mainVars>>

-----------------------------------------------------------------------------
(* Main thread.                                                            *)

\* The window is closed, or a key runs `quit'.
RequestQuit ==
    /\ main = "loop"
    /\ quit' = TRUE
    /\ UNCHANGED <<queue, promise, executed, replies, unbind, webVars, lineVars, mainVars>>

\* Mutated form of Undrained: Drain copies the queue but does not empty it.
Undrained_Copied(q) == q

\* What Drain leaves in tasks_: the batch is swapped out of it.
Undrained(q) == <<>>

\* Top of the frame: the batch is taken under the lock.
BeginDrain ==
    /\ main = "loop"
    /\ ~quit
    /\ batch' = queue
    /\ queue' = Undrained(queue)
    /\ main' = "drain"
    /\ UNCHANGED <<promise, executed, replies, quit, unbind, running, lineRun,
                   webVars, lineVars>>

\* Mutated form of Fulfilled: the task sets the promise of whatever its client waits for now.
Fulfilled_Latest(t) == IF worker[t.who] = "waiting" THEN t.n ELSE promise[t.who]

\* The task owns the promise of its line; the worker only looks at its latest one.
Fulfilled(t) ==
    IF worker[t.who] = "waiting" /\ sent[t.who] = t.n THEN t.n ELSE promise[t.who]

\* A line is executed and its promise set.  The line may be `quit'.
RunLine ==
    LET t == Head(batch)
    IN  /\ main = "drain"
        /\ batch # <<>>
        /\ t.kind = "line"
        /\ executed' = Append(executed, t)
        /\ promise' = [promise EXCEPT ![t.who] = Fulfilled(t)]
        /\ quit' \in {quit, TRUE}
        /\ batch' = Tail(batch)
        /\ UNCHANGED <<queue, replies, unbind, main, running, lineRun, webVars, lineVars>>

\* HandleMessage, then SendWs: the reply goes out if the connection is registered.
RunMessage ==
    LET t == Head(batch)
    IN  /\ main = "drain"
        /\ batch # <<>>
        /\ t.kind = "ws"
        /\ replies' = IF session[t.who] = NoSession THEN replies
                      ELSE replies \cup {[from |-> t.n, to |-> session[t.who]]}
        /\ executed' = Append(executed, t)
        /\ quit' \in {quit, TRUE}
        /\ batch' = Tail(batch)
        /\ UNCHANGED <<queue, promise, unbind, main, running, lineRun,
                       webVars, lineVars>>

\* After the batch the loop stops the server if asked, else renders and goes round.
EndDrain ==
    /\ main = "drain"
    /\ batch = <<>>
    /\ main' = IF unbind /\ running THEN "joinweb" ELSE "loop"
    /\ UNCHANGED <<queue, batch, promise, executed, replies, quit, unbind, running, lineRun,
                   webVars, lineVars>>

\* The loop ends; main shuts the subsystems down and calls Stop, a no-op when not running.
LeaveLoop ==
    /\ main = "loop"
    /\ quit
    /\ main' = IF running THEN "joinweb" ELSE "exited"
    /\ UNCHANGED <<queue, batch, promise, executed, replies, quit, unbind, running, lineRun,
                   webVars, lineVars>>

\* Stop: mg_stop returns once civetweb's threads have closed every connection; then the line
\* server is told to end.
StopWeb ==
    /\ main = "joinweb"
    /\ session' = [w \in Conns |-> NoSession]
    /\ lineRun' = FALSE
    /\ main' = "joinline"
    /\ UNCHANGED <<queue, batch, promise, executed, replies, quit, unbind, running,
                   sessions, messages, lineVars>>

\* Every worker has been joined (a client that never connected has none).
StopLines ==
    /\ main = "joinline"
    /\ \A c \in LineClients : worker[c] \in {"accepting", "closed"}
    /\ running' = FALSE
    /\ main' = IF quit THEN "exited" ELSE "loop"
    /\ UNCHANGED <<queue, batch, promise, executed, replies, quit, unbind, lineRun,
                   webVars, lineVars>>

-----------------------------------------------------------------------------
Init ==
    /\ queue = <<>>
    /\ batch = <<>>
    /\ main = "loop"
    /\ running = TRUE
    /\ lineRun = TRUE
    /\ quit = FALSE
    /\ unbind = FALSE
    /\ worker = [c \in LineClients |-> "accepting"]
    /\ sent = [c \in LineClients |-> 0]
    /\ promise = [c \in LineClients |-> 0]
    /\ answers = [c \in LineClients |-> <<>>]
    /\ executed = <<>>
    /\ session = [w \in Conns |-> NoSession]
    /\ sessions = 0
    /\ messages = 0
    /\ replies = {}

MainThread ==
    \/ BeginDrain
    \/ RunLine
    \/ RunMessage
    \/ EndDrain
    \/ LeaveLoop
    \/ StopWeb
    \/ StopLines

Next ==
    \/ MainThread
    \/ RequestQuit
    \/ RequestUnbind
    \/ \E c \in LineClients :
          LineConnect(c) \/ LineRead(c) \/ LineReply(c) \/ LineTimeout(c) \/ LineClose(c)
    \/ \E w \in Conns : WsReady(w) \/ WsData(w) \/ WsClose(w)

Spec == Init /\ [][Next]_vars

\* The frame loop runs; a waiting worker gets its result or its timeout; a worker that reads
\* notices within a second (SO_RCVTIMEO) that the server stops.
Fairness ==
    /\ WF_vars(MainThread)
    /\ \A c \in LineClients :
          /\ WF_vars(LineReply(c) \/ LineTimeout(c))
          /\ WF_vars(~lineRun /\ LineClose(c))

FairSpec == Spec /\ Fairness

-----------------------------------------------------------------------------
(***************************************************************************)
(* Properties.                                                             *)
(***************************************************************************)

\* The variables keep their types.
TypeOK ==
    /\ queue \in Seq(Task) /\ batch \in Seq(Task) /\ executed \in Seq(Task)
    /\ main \in {"loop", "drain", "joinweb", "joinline", "exited"}
    /\ running \in BOOLEAN /\ lineRun \in BOOLEAN /\ quit \in BOOLEAN /\ unbind \in BOOLEAN
    /\ worker \in [LineClients -> {"accepting", "reading", "waiting", "closed"}]
    /\ sent \in [LineClients -> 0..MaxLines]
    /\ promise \in [LineClients -> 0..MaxLines]
    /\ answers \in [LineClients -> Seq(0..MaxLines)]
    /\ session \in [Conns -> (1..MaxSessions) \cup {NoSession}]
    /\ sessions \in 0..MaxSessions /\ messages \in 0..MaxMessages

\* Every task there was: run, in the batch, or queued.
Stream == executed \o batch \o queue

Line(c, k) == [kind |-> "line", who |-> c, n |-> k]

\* Lines are executed in the order their client sent them, each at most once, and whatever
\* was sent and not executed is still queued: no line is lost, doubled or overtaken between
\* the worker threads, the queue and the batch.
LinesOncePerOrder ==
    /\ \A c \in LineClients : \A k \in 1..sent[c] : \E j \in DOMAIN Stream : Stream[j] = Line(c, k)
    /\ \A j \in DOMAIN Stream : Stream[j].kind = "line" => Stream[j].n <= sent[Stream[j].who]
    /\ \A i, j \in DOMAIN Stream :
          i < j /\ Stream[i].kind = "line" /\ Stream[j].kind = "line"
             /\ Stream[i].who = Stream[j].who
             => Stream[i].n < Stream[j].n

\* The k-th thing a client is sent back is the result of its k-th line, or a timeout: a late
\* result never answers a later line.
AnswersMatch ==
    \A c \in LineClients : \A k \in 1..Len(answers[c]) : answers[c][k] \in {k, Timeout}

\* "Set after 20 failed auths; the engine loop should Stop() the server": an unbind request,
\* and quitting, stops the server, with workers waiting for a main thread that no longer
\* drains the queue.
StopsWhenAsked == (unbind \/ quit) ~> ~running

\* The reply of a message goes to the session that sent it, or, when that was closed, to
\* nobody ("closed" in SendWs).
RepliesToSender == \A r \in replies : r.from = r.to
=============================================================================
