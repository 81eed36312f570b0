-------------------------- MODULE ServerLifespan --------------------------
(*************************************************************************)
(* The lifespan of the server process around the URL checks of its        *)
(* conversations: the steps of the start, each of which may fail, in the  *)
(* order of the code; the time it serves, ready or degraded; and the      *)
(* shutdown, whose last part runs whatever the first part raised.         *)
(*                                                                        *)
(* What the steps set up beyond the state below is left out.              *)
(*************************************************************************)
EXTENDS UrlChecks

CONSTANT Configs  \* of the environment: identity oidc, anonymous or missing; speech on
ASSUME ConfigAssumption ==
    Configs \subseteq [identity : {"oidc", "anonymous", "missing"}, speech : BOOLEAN]

VARIABLES
    config,    \* what the environment asks for, less the speech that turned out unavailable
    phase,     \* starting, serving, stopping, cleaning, stopped, crashed
    at,        \* the step of that phase that is next
    readiness, \* readiness_error: none, or the code the routes answer with
    verifier,  \* whether a token verifier is configured
    engine,    \* database engine: none, open, disposed
    manager,   \* conversation manager: none, open, closed
    tasks,     \* registry of speech tasks: none, open, closed
    sweeper,   \* speech sweeper: none, made, running, closed
    slots,     \* whether the speech slots were reconciled with the settings
    gate       \* whether the speech admission gate is open

speech == <<tasks, sweeper, slots, gate>>
serverVars == <<config, phase, at, readiness, verifier, engine, manager, speech>>
vars == <<urlVars, serverVars>>

StartSteps == <<"identity", "engine", "schema", "media", "verifier", "settings",
                "manager", "slots", "sweeper", "gate", "preflight">>
StopSteps == <<"gate", "tasks", "sweeper", "provider", "manager">>
CleanSteps == <<"verifier", "release", "client", "pool", "engine">>

\* The error each step of the start can end with; other: one the handlers pass on.
Raises ==
    [identity |-> {"identity_unavailable", "other"}, engine |-> {"other"},
     schema |-> {"schema_out_of_date", "database_unavailable", "other"},
     media |-> {"runtime_unavailable", "database_unavailable", "other"},
     verifier |-> {"database_unavailable", "other"},
     settings |-> {"runtime_unavailable", "other"}, manager |-> {"other"},
     slots |-> {"runtime_unavailable", "database_unavailable", "other"},
     sweeper |-> {"database_unavailable", "other"}, gate |-> {},
     preflight |-> {"runtime_contract_unavailable", "other"}]

Init ==
    /\ UrlInit
    /\ config \in Configs
    /\ phase = "starting" /\ at = 1
    /\ readiness = "none" /\ verifier = FALSE /\ engine = "none" /\ manager = "none"
    /\ tasks = "none" /\ sweeper = "none" /\ slots = FALSE /\ gate = FALSE
-----------------------------------------------------------------------------
(* The start *)

Starting(step) == phase = "starting" /\ StartSteps[at] = step
NextStep ==
    /\ at' = IF at = Len(StartSteps) THEN 1 ELSE at + 1
    /\ phase' = IF at = Len(StartSteps) THEN "serving" ELSE phase

\* With no identity at all the start goes on, and the routes refuse.
LoadIdentity ==
    /\ Starting("identity") /\ NextStep
    /\ readiness' = IF config.identity = "missing" THEN "identity_unavailable" ELSE readiness
    /\ UNCHANGED <<urlVars, config, verifier, engine, manager, speech>>

CreateEngine ==
    /\ Starting("engine") /\ NextStep /\ engine' = "open"
    /\ UNCHANGED <<urlVars, config, readiness, verifier, manager, speech>>

CheckOnly ==
    /\ Starting("schema") \/ Starting("settings") \/ Starting("preflight")
    /\ NextStep
    /\ UNCHANGED <<urlVars, config, readiness, verifier, engine, manager, speech>>

\* Speech that lacks what it needs is turned off here.
ComposeMedia ==
    /\ Starting("media") /\ NextStep
    /\ config' \in {config, [config EXCEPT !.speech = FALSE]}
    /\ UNCHANGED <<urlVars, readiness, verifier, engine, manager, speech>>

ConfigureVerifier ==
    /\ Starting("verifier") /\ NextStep /\ verifier' = (config.identity = "oidc")
    /\ UNCHANGED <<urlVars, config, readiness, engine, manager, speech>>

BuildManager ==
    /\ Starting("manager") /\ NextStep /\ Provide /\ manager' = "open"
    /\ UNCHANGED <<config, readiness, verifier, engine, speech>>

SkipSpeech ==
    /\ Starting("slots") \/ Starting("sweeper") \/ Starting("gate")
    /\ ~config.speech /\ NextStep
    /\ UNCHANGED <<urlVars, config, readiness, verifier, engine, manager, speech>>

ReconcileAndOpen ==                                                   \* mutant
    /\ Starting("slots") /\ config.speech /\ NextStep
    /\ slots' = TRUE /\ tasks' = "open" /\ sweeper' = "made" /\ gate' = TRUE
    /\ UNCHANGED <<urlVars, config, readiness, verifier, engine, manager>>
ReconcileSlots ==
    /\ Starting("slots") /\ config.speech /\ NextStep
    /\ slots' = TRUE /\ tasks' = "open" /\ sweeper' = "made"
    /\ UNCHANGED <<urlVars, config, readiness, verifier, engine, manager, gate>>

\* Recovers once before its task is started.
StartSweeper ==
    /\ Starting("sweeper") /\ config.speech /\ NextStep /\ sweeper' = "running"
    /\ UNCHANGED <<urlVars, config, readiness, verifier, engine, manager, tasks, slots, gate>>

OpenGate ==
    /\ Starting("gate") /\ config.speech /\ NextStep /\ gate' = TRUE
    /\ UNCHANGED <<urlVars, config, readiness, verifier, engine, manager, tasks, sweeper, slots>>

Skipped(step) == step \in {"slots", "sweeper"} /\ ~config.speech

\* A known error: the server serves, not ready. What was set up stays.
StartDegraded(error) ==
    /\ readiness' = error /\ phase' = "serving" /\ at' = 1
    /\ verifier' = (verifier /\ error \notin {"identity_unavailable", "runtime_unavailable"})

\* Any other error leaves the lifespan at once: the process ends with nothing closed.
StartFails ==
    /\ phase = "starting" /\ ~Skipped(StartSteps[at])
    /\ \E error \in Raises[StartSteps[at]] :
          IF error = "other"
          THEN phase' = "crashed" /\ UNCHANGED <<at, readiness, verifier>>
          ELSE StartDegraded(error)
    /\ engine' = IF StartSteps[at] = "schema" THEN "open" ELSE engine
    /\ UNCHANGED <<urlVars, config, manager, speech>>

Startup ==
    \/ LoadIdentity \/ CreateEngine \/ CheckOnly \/ ComposeMedia \/ ConfigureVerifier
    \/ BuildManager \/ SkipSpeech \/ ReconcileSlots \/ StartSweeper \/ OpenGate \/ StartFails
-----------------------------------------------------------------------------
(* Serving, and the shutdown *)

\* Conversations, and with them the calls of their tools, exist once there is a manager
\* and the routes are ready; a call may outlast the server's wish to stop.
Converse ==
    /\ manager # "none" /\ readiness = "none" /\ phase \notin {"starting", "crashed"}
    /\ \/ \E c \in Calls : Call(c)
       \/ \E x \in Executors : phase = "serving" /\ (InterruptExecutor(x) \/ CloseExecutor(x))
    /\ UNCHANGED serverVars

Work ==
    /\ \/ \E c \in Calls : CallGoesOn(c) \/ Fetch(c)
       \/ \E x \in Executors : Signal(x)
    /\ UNCHANGED serverVars

BeginStop ==
    /\ phase = "serving" /\ phase' = "stopping" /\ at' = 1
    /\ UNCHANGED <<urlVars, config, readiness, verifier, engine, manager, speech>>

Stopping(step) == phase = "stopping" /\ StopSteps[at] = step
Cleaning(step) == phase = "cleaning" /\ CleanSteps[at] = step
NextStop ==
    IF at = Len(StopSteps) THEN phase' = "cleaning" /\ at' = 1
                           ELSE phase' = phase /\ at' = at + 1
NextClean ==
    IF at = Len(CleanSteps) THEN phase' = "stopped" /\ at' = 1
                            ELSE phase' = phase /\ at' = at + 1

CloseGate ==
    /\ Stopping("gate") /\ NextStop /\ gate' = FALSE
    /\ UNCHANGED <<urlVars, config, readiness, verifier, engine, manager, tasks, sweeper, slots>>

\* Its fence recovers once; an error of it is swallowed.
CloseTasks ==
    /\ Stopping("tasks") /\ NextStop /\ gate' = FALSE
    /\ tasks' = IF tasks = "open" THEN "closed" ELSE tasks
    /\ UNCHANGED <<urlVars, config, readiness, verifier, engine, manager, sweeper, slots>>

CloseSweeper ==
    /\ Stopping("sweeper") /\ NextStop
    /\ sweeper' = IF sweeper = "none" THEN "none" ELSE "closed"
    /\ UNCHANGED <<urlVars, config, readiness, verifier, engine, manager, tasks, slots, gate>>

CloseProvider ==
    /\ Stopping("provider") /\ NextStop
    /\ UNCHANGED <<urlVars, config, readiness, verifier, engine, manager, speech>>

\* close_all: first an interrupt of what runs, then one conversation after the other.
InterruptAll ==
    /\ Stopping("manager") /\ manager = "open" /\ shut # Executors
    /\ \E x \in Executors : InterruptExecutor(x)
    /\ UNCHANGED serverVars
CloseConversation ==
    /\ Stopping("manager") /\ manager = "open"
    /\ \E x \in Executors : CloseExecutor(x)
    /\ UNCHANGED serverVars
CloseManager ==
    /\ Stopping("manager") /\ NextStop
    /\ manager = "open" => shut = Executors
    /\ manager' = IF manager = "open" THEN "closed" ELSE manager
    /\ UNCHANGED <<urlVars, config, readiness, verifier, engine, speech>>

StopRaisesOut ==                                                      \* mutant
    /\ \/ Stopping("provider") /\ config.speech
       \/ Stopping("manager") /\ manager = "open"
    /\ phase' = "stopped" /\ at' = 1
    /\ UNCHANGED <<urlVars, config, readiness, verifier, engine, manager, speech>>
\* An error skips what is left of the first part, never the second.
StopRaises ==
    /\ \/ Stopping("provider") /\ config.speech
       \/ Stopping("manager") /\ manager = "open"
    /\ phase' = "cleaning" /\ at' = 1
    /\ UNCHANGED <<urlVars, config, readiness, verifier, engine, manager, speech>>

ResetVerifier ==
    /\ Cleaning("verifier") /\ NextClean /\ verifier' = FALSE
    /\ UNCHANGED <<urlVars, config, readiness, engine, manager, speech>>

\* The registry forgets its providers first, and closes what it had after.
ReleaseProviders ==
    /\ Cleaning("release") /\ NextClean /\ Withdraw
    /\ UNCHANGED <<config, readiness, verifier, engine, manager, speech>>
ReleaseClient ==
    /\ Cleaning("client") /\ NextClean /\ CloseClient
    /\ UNCHANGED <<config, readiness, verifier, engine, manager, speech>>
ReleasePool ==
    /\ Cleaning("pool") /\ NextClean /\ ClosePool
    /\ UNCHANGED <<config, readiness, verifier, engine, manager, speech>>

DisposeEngine ==
    /\ Cleaning("engine") /\ NextClean
    /\ engine' = IF engine = "open" THEN "disposed" ELSE engine
    /\ UNCHANGED <<urlVars, config, readiness, verifier, manager, speech>>

Shutdown ==
    \/ BeginStop \/ CloseGate \/ CloseTasks \/ CloseSweeper \/ CloseProvider
    \/ InterruptAll \/ CloseConversation \/ CloseManager \/ StopRaises
    \/ ResetVerifier \/ ReleaseProviders \/ ReleaseClient \/ ReleasePool \/ DisposeEngine

Next == Startup \/ Converse \/ Work \/ Shutdown
Spec == Init /\ [][Next]_vars

\* A thread that runs a tool goes on by itself; a fetch, or a site, need never end.
LiveSpec ==
    /\ Spec
    /\ \A c \in Calls : WF_vars(CallGoesOn(c) /\ UNCHANGED serverVars)
-----------------------------------------------------------------------------
(* Properties *)

TypeOK ==
    /\ UrlTypeOK
    /\ config \in [identity : {"oidc", "anonymous", "missing"}, speech : BOOLEAN]
    /\ phase \in {"starting", "serving", "stopping", "cleaning", "stopped", "crashed"}
    /\ at \in 1..Len(StartSteps)
    /\ engine \in {"none", "open", "disposed"} /\ manager \in {"none", "open", "closed"}
    /\ tasks \in {"none", "open", "closed"} /\ sweeper \in {"none", "made", "running", "closed"}
    /\ {verifier, slots, gate} \subseteq BOOLEAN

\* A server that says it is ready has everything its routes use, and keeps it while
\* single conversations are closed under it (lifespan, UrlEvidenceVerificationExecutor.close).
ReadyMeansWhole ==
    phase = "serving" /\ readiness = "none" =>
        /\ engine = "open" /\ manager = "open"
        /\ client = "open" /\ fetcher /\ provided # NoPool /\ ~pools[provided].closed
        /\ verifier = (config.identity = "oidc")
        /\ gate = config.speech

\* Speech is only admitted over reconciled slots, with the sweeper running and the task
\* registry open, also when a later step of the start fails (lifespan).
GateIsBacked ==
    gate /\ phase = "serving" => slots /\ sweeper = "running" /\ tasks = "open"

\* What the server offers is there behind the offer, in general and for speech.
OffersAreBacked == ReadyMeansWhole /\ GateIsBacked

\* Whatever the shutdown raised, nothing of the identity, the database or the shared I/O
\* of URL checks is left open behind it; a pool made after the release is not part of it.
StoppedIsClean ==
    phase = "stopped" =>
        /\ ~gate /\ ~verifier /\ engine # "open" /\ client # "open" /\ ~fetcher
        /\ closing # NoPool => pools[closing].closed

\* A check of a URL answers its agent, also when its fetch hangs for ever, its executor
\* is closed, or the server stops (_fetch_with_deadline).
CallsEnd == \A c \in Calls : pc[c] = "evidence" ~> pc[c] = "done"

\* Checks of URLs come to their end, and none begins to fetch for a closed conversation.
ChecksEnd == ClosedFetchesStop /\ CallsEnd
=============================================================================
