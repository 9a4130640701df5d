----------------------------- MODULE Lifecycle -----------------------------
(***************************************************************************)
(* A process of the system from its start to its exit, and its RabbitMQ    *)
(* connection: config/rabbitmq.js with the initialize and shutdown of the  *)
(* gateway, the payout worker and the workflow worker.  The broker goes    *)
(* away and comes back; signals and uncaught errors start a shutdown.      *)
(***************************************************************************)
EXTENDS Integers, Sequences, FiniteSets

CONSTANTS
    ProcessKinds,           \* among gateway, payoutWorker, workflowWorker
    MaxReconnectAttempts,   \* maxReconnectAttempts
    Signals,                \* the calls of shutdown, numbered from 1
    MaxBrokerDrops,         \* how often the broker goes away
    MaxLifecycleFaults      \* the calls that fail for another reason

ASSUME LifecycleAssumption ==
    /\ ProcessKinds \subseteq {"gateway", "payoutWorker", "workflowWorker"}
    /\ Signals \subseteq Nat \ {0}
    /\ {MaxReconnectAttempts, MaxBrokerDrops, MaxLifecycleFaults} \subseteq Nat

VARIABLES
    proc,       \* the process: its kind, its phase, and what its consumer holds
    conn,       \* the RabbitMQConnection object
    stopping,   \* stopping[s]: the step a call of shutdown has reached
    broker,     \* is RabbitMQ there, and how often has it gone
    mishaps,    \* the other failures so far
    stuck       \* history: a call of shutdown threw in a worker, or hangs

lifecycleVars == <<proc, conn, stopping, broker, mishaps, stuck>>

LifecycleInit ==
    /\ proc \in [kind : ProcessKinds, phase : {"mongo"}, consumer : {"none"}]
    /\ conn = [link |-> "none", channel |-> "none", healthy |-> FALSE,
               timer |-> FALSE, attempts |-> 0]
    /\ stopping = [s \in Signals |-> "none"]
    /\ broker \in [up : BOOLEAN, drops : {0}]
    /\ mishaps = 0
    /\ stuck = FALSE

Mishap ==
    /\ mishaps < MaxLifecycleFaults
    /\ mishaps' = mishaps + 1

Alive == proc.phase # "exited"
Starting == proc.phase \in {"mongo", "redis", "rabbit"}
Exit == proc' = [proc EXCEPT !.phase = "exited"]

-----------------------------------------------------------------------------
(* The connection.                                                         *)

(* One timer at a time, and maxReconnectAttempts without a success.        *)
ScheduleReconnect(c) ==
    IF c.timer \/ c.attempts >= MaxReconnectAttempts THEN c
    ELSE [c EXCEPT !.timer = TRUE, !.attempts = @ + 1]

(* initialize: MongoDB, Redis, RabbitMQ.  The first two connect or the     *)
(* process ends: later errors are left to the drivers.                     *)
ConnectMongo ==
    /\ proc.phase = "mongo"
    /\ \/ proc' = [proc EXCEPT !.phase = "redis"] /\ UNCHANGED mishaps
       \/ Mishap /\ Exit
    /\ UNCHANGED <<conn, stopping, broker, stuck>>

ConnectRedis ==
    /\ proc.phase = "redis"
    /\ \/ /\ proc' = [proc EXCEPT !.phase = "rabbit"]
          /\ conn' = [conn EXCEPT !.link = "connecting"]
          /\ UNCHANGED mishaps
       \/ Mishap /\ Exit /\ UNCHANGED conn
    /\ UNCHANGED <<stopping, broker, stuck>>

StartStep == ConnectMongo \/ ConnectRedis

(* connect throws: the first time initialize and the process end with it;  *)
(* later the timer's catch drops the error.                                *)
ConnectFailed ==
    /\ conn' = ScheduleReconnect([conn EXCEPT !.link = "closed", !.healthy = FALSE])
    /\ IF proc.phase = "rabbit" THEN Exit ELSE UNCHANGED proc

(* amqp.connect.  The counter is reset before there is a channel, and the  *)
(* old channel, dead, counts as a healthy one until there is a new one.    *)
ConnectAnswered ==
    /\ Alive /\ conn.link = "connecting"
    /\ \/ /\ broker.up
          /\ conn' = [conn EXCEPT !.link = "opening", !.healthy = TRUE, !.attempts = 0]
          /\ UNCHANGED proc
       \/ ~broker.up /\ ConnectFailed
    /\ UNCHANGED <<stopping, broker, mishaps, stuck>>

ChannelCreated ==
    /\ Alive /\ conn.link = "opening"
    /\ \/ /\ broker.up
          /\ conn' = [conn EXCEPT !.link = "setup", !.channel = "live"]
          /\ UNCHANGED proc
       \/ ~broker.up /\ ConnectFailed
    /\ UNCHANGED <<stopping, broker, mishaps, stuck>>

(* _setupQueues, then the listeners.  Only now is the process up.  A queue *)
(* that exists with other arguments fails the whole connect.               *)
QueuesReady ==
    /\ Alive /\ conn.link = "setup"
    /\ \/ /\ broker.up
          /\ conn' = [conn EXCEPT !.link = "open"]
          /\ proc' = IF proc.phase = "rabbit"
                     THEN [proc EXCEPT !.phase = "running", !.consumer = "live"]
                     ELSE proc
          /\ UNCHANGED mishaps
       \/ ~broker.up /\ ConnectFailed /\ UNCHANGED mishaps
       \/ /\ Mishap
          /\ conn' = ScheduleReconnect(
               [conn EXCEPT !.link = "closed", !.channel = "dead", !.healthy = FALSE])
          /\ IF proc.phase = "rabbit" THEN Exit ELSE UNCHANGED proc
    /\ UNCHANGED <<stopping, broker, stuck>>

(* Mutant: the callback leaves the timer's handle in place.                *)
ReconnectTimerMutant ==
    /\ Alive /\ conn.timer
    /\ conn' = [conn EXCEPT !.link = "connecting"]
    /\ UNCHANGED <<proc, stopping, broker, mishaps, stuck>>

ReconnectTimer ==
    /\ Alive /\ conn.timer
    /\ conn' = [conn EXCEPT !.timer = FALSE, !.link = "connecting"]
    /\ UNCHANGED <<proc, stopping, broker, mishaps, stuck>>

(* The broker goes away.  Of an open connection the close event tells; one *)
(* in setup has no listener yet, and finds out by its next call.           *)
BrokerDown ==
    /\ broker.up
    /\ broker.drops < MaxBrokerDrops
    /\ broker' = [up |-> FALSE, drops |-> broker.drops + 1]
    /\ LET lost == [conn EXCEPT !.channel = IF @ = "none" THEN @ ELSE "dead"] IN
       conn' = IF conn.link = "open"
               THEN ScheduleReconnect([lost EXCEPT !.link = "closed", !.healthy = FALSE])
               ELSE lost
    /\ proc' = [proc EXCEPT !.consumer = IF @ = "none" THEN @ ELSE "dead"]
    /\ UNCHANGED <<stopping, mishaps, stuck>>

BrokerUp ==
    /\ ~broker.up
    /\ broker' = [broker EXCEPT !.up = TRUE]
    /\ UNCHANGED <<proc, conn, stopping, mishaps, stuck>>

-----------------------------------------------------------------------------
(* The shutdown.                                                           *)

Steps == [gateway |-> <<"sockets", "server", "channel", "channelClosing",
                        "connection", "redis", "mongo", "exit">>,
          payoutWorker |-> <<"cancel", "wait", "channel", "channelClosing",
                             "connection", "redis", "mongo", "exit">>,
          workflowWorker |-> <<"wait", "channel", "channelClosing",
                               "connection", "redis", "mongo", "exit">>]

After(step) ==
    LET steps == Steps[proc.kind] IN
    steps[1 + CHOOSE i \in DOMAIN steps : steps[i] = step]

Continue(s) == stopping' = [stopping EXCEPT ![s] = After(stopping[s])]

(* A worker's second shutdown returns at once; the gateway has no flag, and*)
(* runs it beside the first.                                               *)
Shutdown(s) ==
    /\ Alive /\ stopping[s] = "none"
    /\ \A r \in Signals : r < s => stopping[r] # "none"
    /\ stopping' = [stopping EXCEPT ![s] =
         IF proc.kind # "gateway" /\ s # 1 THEN "ignored"
         ELSE Steps[proc.kind][1]]
    /\ UNCHANGED <<proc, conn, broker, mishaps, stuck>>

(* shutdown throws.  The gateway's handler exits with 1.  In a worker the  *)
(* rejection is unhandled, and its handler calls shutdown, which returns.  *)
Throws(s) ==
    IF proc.kind = "gateway"
    THEN Exit /\ UNCHANGED <<stopping, stuck>>
    ELSE /\ stopping' = [stopping EXCEPT ![s] = "threw"]
         /\ stuck' = TRUE
         /\ UNCHANGED proc

(* websocketServer.close and server.close, if there are any yet: the       *)
(* server waits for the connections that are open, as long as they are.    *)
CloseServer(s) ==
    /\ Alive /\ stopping[s] \in {"sockets", "server"}
    /\ \/ Continue(s) /\ UNCHANGED <<mishaps, stuck>>
       \/ /\ proc.phase = "running" /\ stopping[s] = "server"
          /\ Mishap
          /\ stopping' = [stopping EXCEPT ![s] = "hung"]
          /\ stuck' = TRUE
    /\ UNCHANGED <<proc, conn, broker>>

(* stopConsuming holds the channel of the start, and throws if it is dead. *)
StopConsuming(s) ==
    /\ Alive /\ stopping[s] = "cancel"
    /\ IF proc.consumer = "dead" THEN Throws(s)
       ELSE Continue(s) /\ UNCHANGED <<proc, stuck>>
    /\ UNCHANGED <<conn, broker, mishaps>>

WaitForJobs(s) ==
    /\ Alive /\ stopping[s] = "wait"
    /\ Continue(s)
    /\ UNCHANGED <<proc, conn, broker, mishaps, stuck>>

(* disconnect: the pending timer goes; a channel that is closed, or being  *)
(* closed by another call, throws.                                         *)
CloseChannel(s) ==
    /\ Alive /\ stopping[s] = "channel"
    /\ LET c == [conn EXCEPT !.timer = FALSE] IN
       \/ /\ conn.channel \in {"none", "live"}
          /\ conn' = [c EXCEPT !.channel = IF @ = "live" THEN "closing" ELSE @]
          /\ Continue(s)
          /\ UNCHANGED <<proc, stuck>>
       \/ conn.channel \in {"dead", "closing"} /\ conn' = c /\ Throws(s)
    /\ UNCHANGED <<broker, mishaps>>

ChannelClosed(s) ==
    /\ Alive /\ stopping[s] = "channelClosing"
    /\ IF conn.channel = "dead" THEN Throws(s) /\ UNCHANGED conn
       ELSE /\ conn' = [conn EXCEPT !.channel = "none"]
            /\ Continue(s)
            /\ UNCHANGED <<proc, stuck>>
    /\ UNCHANGED <<broker, mishaps>>

(* Closing an open connection emits close, whose listener sets a timer that*)
(* nothing clears any more.                                                *)
CloseConnection(s) ==
    /\ Alive /\ stopping[s] = "connection"
    /\ CASE conn.link = "closed" -> Throws(s) /\ UNCHANGED conn
         [] conn.link = "open" ->
              /\ conn' = ScheduleReconnect(
                   [conn EXCEPT !.link = "closed", !.healthy = FALSE])
              /\ Continue(s)
              /\ UNCHANGED <<proc, stuck>>
         [] OTHER -> conn' = [conn EXCEPT !.healthy = FALSE] /\ Continue(s)
                       /\ UNCHANGED <<proc, stuck>>
    /\ UNCHANGED <<broker, mishaps>>

(* redis.quit, which a Redis that is away fails, and mongoose.disconnect.  *)
CloseStores(s) ==
    /\ Alive /\ stopping[s] \in {"redis", "mongo"}
    /\ \/ Continue(s) /\ UNCHANGED <<proc, mishaps, stuck>>
       \/ Mishap /\ Throws(s)
    /\ UNCHANGED <<conn, broker>>

(* Mutant: the process is left to end by itself.                           *)
ExitProcessMutant(s) ==
    /\ Alive /\ stopping[s] = "exit"
    /\ stopping' = [stopping EXCEPT ![s] = "over"]
    /\ UNCHANGED <<proc, conn, broker, mishaps, stuck>>

ExitProcess(s) ==
    /\ Alive /\ stopping[s] = "exit"
    /\ Exit
    /\ UNCHANGED <<conn, stopping, broker, mishaps, stuck>>

ShutdownStep(s) ==
    \/ CloseServer(s) \/ StopConsuming(s) \/ WaitForJobs(s)
    \/ CloseChannel(s) \/ ChannelClosed(s) \/ CloseConnection(s)
    \/ CloseStores(s) \/ ExitProcess(s)

ConnectionStep ==
    ConnectAnswered \/ ChannelCreated \/ QueuesReady \/ ReconnectTimer

LifecycleNext ==
    \/ StartStep \/ ConnectionStep \/ BrokerDown \/ BrokerUp
    \/ \E s \in Signals : Shutdown(s) \/ ShutdownStep(s)

(* Calls are answered and timers fire; nothing says when the broker is     *)
(* back, or that anybody asks for a shutdown.                              *)
LifecycleFairness ==
    /\ WF_lifecycleVars(StartStep)
    /\ WF_lifecycleVars(ConnectionStep)
    /\ \A s \in Signals : WF_lifecycleVars(ShutdownStep(s))

LifecycleSpec == LifecycleInit /\ [][LifecycleNext]_lifecycleVars /\ LifecycleFairness

-----------------------------------------------------------------------------
(* Properties.                                                             *)

(* A process that lost its connection, and is not asked to stop, connects  *)
(* again or has used up its attempts: no failure of connect, wherever in it*)
(* the broker goes away, leaves it without a timer or a call under way.    *)
ReconnectAlive ==
    (proc.phase = "running" /\ conn.link = "closed") ~>
        \/ conn.link = "open"
        \/ conn.attempts >= MaxReconnectAttempts
        \/ stopping # [s \in Signals |-> "none"]

(* A process asked to stop exits, unless a worker could not close what it  *)
(* had lost, or open requests keep the gateway's server.                   *)
ShutdownEnds ==
    (stopping # [s \in Signals |-> "none"]) ~> (proc.phase = "exited" \/ stuck)
=============================================================================
