----------------------------- MODULE MCServices -----------------------------
(***************************************************************************)
(* The components that share no state with one another, checked in one     *)
(* run: the first state chooses one of them, and the rest stays as it is.  *)
(***************************************************************************)
EXTENDS MemoryQueue, McpSessionPool, SandboxPool, Subagents, ActionStore, StreamBridge, Channels

VARIABLE focus

Only(services) == focus \in services /\ UNCHANGED focus

OthersThanQueue    == UNCHANGED <<poolVars, sandboxVars, subagentVars, actionVars, streamVars, channelVars>>
OthersThanPool     == UNCHANGED <<queueVars, sandboxVars, subagentVars, actionVars, streamVars, channelVars>>
OthersThanSandbox  == UNCHANGED <<queueVars, poolVars, subagentVars, actionVars, streamVars, channelVars>>
OthersThanSubagent == UNCHANGED <<queueVars, poolVars, sandboxVars, actionVars, streamVars, channelVars>>
OthersThanAction   == UNCHANGED <<queueVars, poolVars, sandboxVars, subagentVars, streamVars, channelVars>>
OthersThanStream   == UNCHANGED <<queueVars, poolVars, sandboxVars, subagentVars, actionVars, channelVars>>
OthersThanChannels == UNCHANGED <<queueVars, poolVars, sandboxVars, subagentVars, actionVars, streamVars>>

\* Threads, keys and loops are alike: at most one container is there to adopt, that of one
\* thread, and of the calls of get_session only those are followed whose first one has
\* this key and this loop.  (A CONSTRAINT; no fairness condition is about a new call.)
One(S) == CHOOSE x \in S : TRUE
FirstCall == call[1].key \in {Unset, One(Keys)} /\ call[1].loop \in {Unset, One(Loops)}

\* The ids of three messages: a redelivery and another chat, two chats and /new (3), and
\* two redeliveries.
Arrivals == {<<1, 2, 1>>, <<1, 3, 1>>}
Chosen   == IF focus = "channels" THEN Arrivals ELSE {<<1, 1, 1>>}

ServicesInit ==
    /\ focus \in {"queue", "pool", "sandbox", "subagent", "action", "stream", "channels"}
    /\ QueueInit /\ PoolInit /\ SandboxInit /\ SubagentInit /\ ActionInit /\ BridgeInit /\ ChannelsInit
    /\ made = 1 => focus = "sandbox" /\ container = [t \in Threads |-> IF t = One(Threads) THEN 1 ELSE 0]
    /\ \E c \in Chats, ids \in Chosen : message = [h \in Handlers |-> <<c, ids[h]>>]

ServicesNext ==
    \/ Only({"queue"}) /\ QueueNext /\ OthersThanQueue
    \/ Only({"pool"}) /\ PoolNext /\ OthersThanPool
    \/ Only({"sandbox"}) /\ SandboxNext /\ OthersThanSandbox
    \/ Only({"subagent"}) /\ SubagentNext /\ OthersThanSubagent
    \/ Only({"action"}) /\ ActionNext /\ OthersThanAction
    \/ Only({"stream"}) /\ BridgeNext /\ OthersThanStream
    \/ Only({"channels"}) /\ ChannelsNext /\ OthersThanChannels

servicesVars == <<focus, queueVars, poolVars, sandboxVars, subagentVars, actionVars, streamVars, channelVars>>

\* That a service is chosen is only repeated because TLC need not look further then.
On(service, A) == focus = service /\ A

\* Timers fire, threads that wait for the lock get it, and an update ends: the model call
\* has a timeout.  Nothing is assumed of the callers.
QueueFairness ==
    /\ WF_queueVars(On("queue", DeadlineComes)) /\ WF_queueVars(On("queue", TimerFires))
    /\ WF_queueVars(On("queue", FlushProcesses)) /\ WF_queueVars(On("queue", \E g \in callbacks : CallbackRuns(g)))
    /\ WF_queueVars(On("queue", WorkerStep))

\* Event loops run what is ready.  A server may never answer initialize: Initializes is
\* not fair.
PoolFairness ==
    /\ \A c \in Calls : WF_poolVars(On("pool", CallStep(c))) /\ WF_poolVars(On("pool", OwnerStep(c)))
    /\ \A o \in Calls : WF_poolVars(On("pool", \E kind \in Kinds : Delivered(o, kind) \/ CloserTells(o, kind)))

\* The pool runs what is queued, an execution that does not end times out, and the tool
\* call polls.  Nothing is assumed of the agent: BodyStep is not fair.
SubagentFairness ==
    \A t \in Tasks : WF_subagentVars(On("subagent", SchedulerStep(t))) /\ WF_subagentVars(On("subagent", Polls(t)))

\* As BridgeFairness.
StreamFairness ==
    /\ WF_streamVars(On("stream", PublishEnd)) /\ WF_streamVars(On("stream", Cleanup))
    /\ \A c \in Clients : WF_streamVars(On("stream", Delivers(c) \/ DeliversEnd(c)))

\* The loop runs what is ready, calls of the Gateway end (the client has timeouts), and a
\* stop goes on.
ChannelsFairness ==
    /\ \A h \in Handlers : WF_channelVars(On("channels", HandlerGoes(h)))
    /\ WF_channelVars(On("channels", CancelsHandlers \/ Drained))

ServicesFairness == QueueFairness /\ PoolFairness /\ SubagentFairness /\ StreamFairness /\ ChannelsFairness

ServicesSpec == ServicesInit /\ [][ServicesNext]_servicesVars /\ ServicesFairness

ServicesTypeOK == /\ QueueTypeOK /\ PoolTypeOK /\ SandboxTypeOK /\ SubagentTypeOK /\ ActionTypeOK
                  /\ BridgeTypeOK /\ ChannelsTypeOK
=============================================================================
