---------------------------- MODULE Integrations ----------------------------
(***************************************************************************)
(* The connections of one workspace to providers, lib/integrations:        *)
(* connecting and disconnecting (IntegrationManagementService), operators  *)
(* (platformIntegrationService), an outbound capability with its retries   *)
(* (executeCapabilityWithRetry, executeCapability) and the pipeline of     *)
(* inbound webhooks (processInboundWebhook) up to the automation engine.   *)
(* Each request runs one call; a step is one statement or one transaction. *)
(* All connections advertise one capability that is exclusive.             *)
(***************************************************************************)
EXTENDS Naturals, FiniteSets

CONSTANTS
  Requests,     \* calls that run at the same time
  Connections,
  Events,       \* events of providers, delivered any number of times
  Servers,      \* processes that keep a deduplication cache in memory
  MaxAttempts,  \* options.maxAttempts
  MaxOperations,  \* bound on outbound operations, for model checking
  Nothing

ASSUME IntegrationAssumption ==
  /\ MaxAttempts \in Nat \ {0} /\ MaxOperations \in Nat
  /\ Nothing \notin Connections \cup Events \cup Servers

VARIABLES
  status,       \* IntegrationConnection.status, Nothing when there is no row
  credential,   \* status of version 1 of its credential, Nothing when there is none
  owner,        \* WorkspaceActiveExclusiveCapability.connectionId
  inbox,        \* IntegrationWebhookEvent.status, Nothing when there is no row
  remembered,   \* events in dedupeCache of each server
  recent,       \* events with an AutomationExecution of the last five minutes
  dispatched,   \* times each event was handed to the automation rules
  stage,        \* where each request is
  on,           \* the connection it works on
  copy,         \* the status of that connection as it read it
  event,        \* the event it delivers
  server,       \* the process that serves it
  hint,         \* options.providerHint
  attempt,      \* the attempt it makes
  result,       \* the answer it has to record
  ledger,       \* IntegrationExecution.status of each attempt, its failureCode when it
                \* FAILED, Nothing without a row
  acted,        \* attempts the provider has carried out
  home,         \* the connection each event arrives at; never changes
  nature,       \* what the adapter makes of each event; never changes
  overlapped,   \* history: events that two requests delivered at once
  rolledBack,   \* history: events whose dispatch was rolled back after the cache took it
  operated      \* history: connections an operator has changed

rows == <<status, credential, owner>>
inboundRows == <<inbox, remembered, recent, dispatched, overlapped, rolledBack>>
outboundRows == <<attempt, ledger, acted>>
fixed == <<home, nature>>
request == <<stage, on, copy, event, server, hint, result>>
integrationVars == <<rows, inboundRows, outboundRows, fixed, request, operated>>

ConnectionStatuses == {"DISCONNECTED", "CONNECTING", "CONNECTED", "ERROR", "SUSPENDED_ENTITLEMENT"}
InboxStatuses == {"RECEIVED", "PROCESSED", "IGNORED"}
Outcomes == {"COMPLETED", "retryable", "fatal", "rejected", "TIMED_OUT"}
LedgerStatuses == {"PENDING", "RUNNING"} \cup Outcomes
Attempts == 1..MaxAttempts
Inbound == {"received", "checked", "looked", "persisted"}
Outbound == {"resolved", "prepared", "recorded", "running", "answered", "waiting",
             "refused", "blaming"}
Natures == {"dated", "undated", "declined"}  \* with a time of its own, without, unwanted
Managing == {"found", "handshake", "severing", "released"}
Stages == {"idle", "done"} \cup Inbound \cup Outbound \cup Managing

ASSUME NothingIsNoStatus ==
  Nothing \notin ConnectionStatuses \cup InboxStatuses \cup LedgerStatuses \cup {"ACTIVE"}

\* No connection, or one that connected before and owns the capability.
IntegrationInit ==
  /\ \E C \in SUBSET Connections :
       /\ status = [c \in Connections |-> IF c \in C THEN "CONNECTED" ELSE Nothing]
       /\ credential = [c \in Connections |-> IF c \in C THEN "ACTIVE" ELSE Nothing]
       /\ owner \in IF C = {} THEN {Nothing} ELSE C
  /\ inbox = [e \in Events |-> Nothing] /\ recent = {}
  /\ remembered = [s \in Servers |-> {}]
  /\ dispatched = [e \in Events |-> 0]
  /\ stage = [r \in Requests |-> "idle"]
  /\ on = [r \in Requests |-> Nothing] /\ copy = [r \in Requests |-> Nothing]
  /\ event = [r \in Requests |-> Nothing] /\ server = [r \in Requests |-> Nothing]
  /\ hint = [r \in Requests |-> Nothing] /\ attempt = [r \in Requests |-> 0]
  /\ result = [r \in Requests |-> Nothing]
  /\ ledger = [r \in Requests |-> [a \in Attempts |-> Nothing]]
  /\ acted = [r \in Requests |-> {}]
  /\ home \in [Events -> Connections] /\ nature \in [Events -> Natures]
  /\ overlapped = {} /\ rolledBack = {} /\ operated = {}

Go(r, s) == stage' = [stage EXCEPT ![r] = s]

\* r returns or throws, or its process dies: what it had read is gone.
EndRequest(r) ==
  /\ Go(r, "done")
  /\ on' = [on EXCEPT ![r] = Nothing] /\ copy' = [copy EXCEPT ![r] = Nothing]
  /\ event' = [event EXCEPT ![r] = Nothing] /\ server' = [server EXCEPT ![r] = Nothing]
  /\ hint' = [hint EXCEPT ![r] = Nothing] /\ result' = [result EXCEPT ![r] = Nothing]

\* r goes to stage s and has nothing new in hand.
Step(r, s) == Go(r, s) /\ UNCHANGED <<on, copy, event, server, hint, result>>

\* It takes connection c in hand.
Take(r, s, c) == /\ Go(r, s) /\ on' = [on EXCEPT ![r] = c]
                 /\ UNCHANGED <<event, server, result>>

SetStatus(c, s) == status' = [status EXCEPT ![c] = s] /\ UNCHANGED <<credential, owner>>

-----------------------------------------------------------------------------
(* Management of a connection. *)

ManagementOnly == UNCHANGED <<inboundRows, outboundRows, fixed, operated>>

\* connectIntegration looks for the connection.
Connect(r, c) ==
  /\ stage[r] = "idle"
  /\ Take(r, "found", c) /\ copy' = [copy EXCEPT ![r] = status[c]]
  /\ UNCHANGED <<hint, rows>> /\ ManagementOnly

\* It creates the row or writes CONNECTING over the status it has; a row created
\* meanwhile makes the creation fail.
MarkConnecting(r) ==
  /\ stage[r] = "found"
  /\ IF copy[r] = Nothing /\ status[on[r]] # Nothing
     THEN EndRequest(r) /\ UNCHANGED rows
     ELSE Step(r, "handshake") /\ SetStatus(on[r], "CONNECTING")
  /\ ManagementOnly

\* The adapter's handshake fails.
FailHandshake(r) ==
  /\ stage[r] = "handshake"
  /\ SetStatus(on[r], "ERROR") /\ EndRequest(r)
  /\ ManagementOnly

\* Slip: the credential that cannot be inserted does not fail the transaction.
StoreConnectionAnyway(r) ==
  /\ stage[r] = "handshake" /\ EndRequest(r)
  /\ status' = [status EXCEPT ![on[r]] = "CONNECTED"]
  /\ credential' =
       [credential EXCEPT ![on[r]] = IF @ = Nothing THEN "ACTIVE" ELSE "SUPERSEDED"]
  /\ owner' = on[r]
  /\ ManagementOnly

\* The handshake succeeds.  One transaction supersedes the credential, inserts one of
\* version 1, writes CONNECTED and takes the capability; (connection, version) is
\* unique, so where there is a credential already nothing is changed.
StoreConnection(r) ==
  /\ stage[r] = "handshake" /\ EndRequest(r)
  /\ IF credential[on[r]] = Nothing
     THEN /\ status' = [status EXCEPT ![on[r]] = "CONNECTED"]
          /\ credential' = [credential EXCEPT ![on[r]] = "ACTIVE"]
          /\ owner' = on[r]
     ELSE UNCHANGED rows
  /\ ManagementOnly

\* disconnectIntegration finds the connection and tells the provider.
Disconnect(r, c) ==
  /\ stage[r] = "idle" /\ status[c] # Nothing
  /\ Take(r, "severing", c)
  /\ UNCHANGED <<copy, hint, rows>> /\ ManagementOnly

\* Its transaction deletes the capability row, whose lock keeps others away until the
\* status is written too; without a row nothing is locked yet.
Release(r) ==
  /\ stage[r] = "severing"
  /\ IF owner = on[r]
     THEN /\ owner' = Nothing /\ status' = [status EXCEPT ![on[r]] = "DISCONNECTED"]
          /\ UNCHANGED credential /\ EndRequest(r)
     ELSE Step(r, "released") /\ UNCHANGED rows
  /\ ManagementOnly

Sever(r) ==
  /\ stage[r] = "released"
  /\ SetStatus(on[r], "DISCONNECTED") /\ EndRequest(r)
  /\ ManagementOnly

\* updatePlatformIntegrationConnectionStatus: to any other status.
Operate(r, c, s) ==
  /\ stage[r] = "idle" /\ status[c] \notin {Nothing, s}
  /\ SetStatus(c, s) /\ operated' = operated \cup {c}
  /\ EndRequest(r) /\ UNCHANGED <<inboundRows, outboundRows, fixed>>

\* revokePlatformIntegrationCredential.
Revoke(r, c) ==
  /\ stage[r] = "idle" /\ credential[c] \notin {Nothing, "REVOKED"}
  /\ credential' = [credential EXCEPT ![c] = "REVOKED"]
  /\ operated' = operated \cup {c}
  /\ EndRequest(r) /\ UNCHANGED <<status, owner, inboundRows, outboundRows, fixed>>

Manage(r) ==
  \/ \E c \in Connections : Connect(r, c) \/ Disconnect(r, c) \/ Revoke(r, c)
  \/ \E c \in Connections, s \in ConnectionStatuses : Operate(r, c, s)
  \/ MarkConnecting(r) \/ FailHandshake(r) \/ StoreConnection(r)
  \/ Release(r) \/ Sever(r)

-----------------------------------------------------------------------------
(* An outbound operation. *)

OutboundOnly == UNCHANGED <<rows, inboundRows, fixed, operated>>

\* resolveCapabilityConnection: the connection hinted at, or the one there is.
Resolved(h) ==
  LET connected == {c \in Connections : status[c] = "CONNECTED"} IN
  IF h # Nothing THEN connected \cap {h}
  ELSE IF Cardinality(connected) = 1 THEN connected ELSE {}

\* An attempt, the first or the next, begins with the resolution.
Resolve(r, h, c) ==
  /\ \/ stage[r] = "idle" /\ Cardinality({q \in Requests : attempt[q] > 0}) < MaxOperations
     \/ stage[r] = "waiting" /\ h = hint[r]
  /\ c \in Resolved(h)
  /\ Take(r, "resolved", c) /\ hint' = [hint EXCEPT ![r] = h]
  /\ attempt' = [attempt EXCEPT ![r] = @ + 1]
  /\ UNCHANGED <<copy, ledger, acted>> /\ OutboundOnly

\* No connection to be found at a retry: the call throws.
FailToResolve(r) ==
  /\ stage[r] = "waiting" /\ Resolved(hint[r]) = {}
  /\ EndRequest(r) /\ UNCHANGED outboundRows /\ OutboundOnly

\* resolveAndDecryptCredential: without an ACTIVE credential the call throws.
Prepare(r) ==
  /\ stage[r] = "resolved"
  /\ IF credential[on[r]] = "ACTIVE" THEN Step(r, "prepared") ELSE EndRequest(r)
  /\ UNCHANGED outboundRows /\ OutboundOnly

\* The row of the attempt, PENDING and then RUNNING.
Record(r) ==
  /\ stage[r] = "prepared" /\ Step(r, "recorded")
  /\ ledger' = [ledger EXCEPT ![r][attempt[r]] = "PENDING"]
  /\ UNCHANGED <<attempt, acted>> /\ OutboundOnly

Run(r) ==
  /\ stage[r] = "recorded" /\ Step(r, "running")
  /\ ledger' = [ledger EXCEPT ![r][attempt[r]] = "RUNNING"]
  /\ UNCHANGED <<attempt, acted>> /\ OutboundOnly

\* The provider carries an attempt out: while the manager waits for it, or after it
\* gave up, as nothing aborts the call.
Act(r, a) ==
  /\ a \notin acted[r]
  /\ \/ ledger[r][a] = "TIMED_OUT"
     \/ a = attempt[r] /\ stage[r] = "running"
  /\ acted' = [acted EXCEPT ![r] = @ \cup {a}]
  /\ UNCHANGED <<attempt, ledger, request>> /\ OutboundOnly

\* The adapter's answer, or its exception, which is fatal.  Any error but a refusal of
\* the credential can hide a success.
Answer(r, outcome) ==
  /\ stage[r] = "running"
  /\ outcome = "COMPLETED" => attempt[r] \in acted[r]
  /\ outcome = "rejected" => attempt[r] \notin acted[r]
  /\ result' = [result EXCEPT ![r] = outcome] /\ Go(r, "answered")
  /\ UNCHANGED <<on, copy, event, server, hint, outboundRows>> /\ OutboundOnly

\* Slip: the attempts are not counted.
ContinueUncounted(r) ==
  IF result[r] \in {"retryable", "TIMED_OUT"} THEN Step(r, "waiting") ELSE EndRequest(r)

\* Slip: every attempt is followed by another.
ContinueAlways(r) ==
  IF attempt[r] < MaxAttempts THEN Step(r, "waiting") ELSE EndRequest(r)

\* What the loop makes of an answer.
Continue(r) ==
  CASE result[r] = "rejected" -> Step(r, "refused")
    [] result[r] \in {"retryable", "TIMED_OUT"} /\ attempt[r] < MaxAttempts -> Step(r, "waiting")
    [] OTHER -> EndRequest(r)

\* The row of the attempt is closed.
Close(r) ==
  /\ stage[r] = "answered"
  /\ ledger' = [ledger EXCEPT ![r][attempt[r]] = result[r]]
  /\ Continue(r)
  /\ UNCHANGED <<attempt, acted>> /\ OutboundOnly

\* handleAuthenticationFailureTransition resolves again, swallows a failure to, and
\* then writes ERROR by id.
FindRefused(r) ==
  /\ stage[r] = "refused"
  /\ \/ \E c \in Resolved(hint[r]) :
          Take(r, "blaming", c) /\ UNCHANGED <<copy, hint>>
     \/ Resolved(hint[r]) = {} /\ EndRequest(r)
  /\ UNCHANGED outboundRows /\ OutboundOnly

Blame(r) ==
  /\ stage[r] = "blaming"
  /\ SetStatus(on[r], "ERROR") /\ EndRequest(r)
  /\ UNCHANGED <<inboundRows, outboundRows, fixed, operated>>

Execute(r) ==
  \/ \E h \in Connections \cup {Nothing}, c \in Connections : Resolve(r, h, c)
  \/ FailToResolve(r) \/ Prepare(r) \/ Record(r) \/ Run(r)
  \/ \E a \in Attempts : Act(r, a)
  \/ \E outcome \in Outcomes : Answer(r, outcome)
  \/ Close(r) \/ FindRefused(r) \/ Blame(r)

-----------------------------------------------------------------------------
(* The delivery of an inbound event. *)

InboundOnly == UNCHANGED <<rows, outboundRows, fixed, operated>>

\* A provider signs with the secret of the ACTIVE credential; one that was superseded
\* never gets into the table.
SignatureMatches(e) == credential[home[e]] = "ACTIVE"

\* The endpoint's connection and credentials are read and the signature checked.
Receive(r, e, s) ==
  /\ stage[r] = "idle" /\ SignatureMatches(e)
  /\ event' = [event EXCEPT ![r] = e] /\ server' = [server EXCEPT ![r] = s]
  /\ copy' = [copy EXCEPT ![r] = status[home[e]]]
  /\ Go(r, "received") /\ UNCHANGED <<on, hint, result>>
  /\ overlapped' = overlapped \cup {x \in {e} : \E q \in Requests : event[q] = x}
  /\ UNCHANGED <<inbox, remembered, recent, dispatched, rolledBack>> /\ InboundOnly

\* The replay check, and then the guard on the status read before: anything but
\* CONNECTED is refused.
CheckReplay(r) ==
  /\ stage[r] = "received"
  /\ IF inbox[event[r]] # "PROCESSED" /\ copy[r] = "CONNECTED"
     THEN Step(r, "checked") ELSE EndRequest(r)
  /\ UNCHANGED inboundRows /\ InboundOnly

\* The check whether the event is done with, which the ten minutes do not limit.
LookUp(r) ==
  /\ stage[r] = "checked"
  /\ IF inbox[event[r]] # "PROCESSED" THEN Step(r, "looked") ELSE EndRequest(r)
  /\ UNCHANGED inboundRows /\ InboundOnly

\* The upsert leaves the status of a row there is.
Persist(r) ==
  /\ stage[r] = "looked" /\ Step(r, "persisted")
  /\ inbox' = [inbox EXCEPT ![event[r]] = IF @ = Nothing THEN "RECEIVED" ELSE @]
  /\ UNCHANGED <<remembered, recent, dispatched, overlapped, rolledBack>> /\ InboundOnly

\* The adapter does not want the event.
Ignore(r) ==
  /\ stage[r] = "persisted" /\ nature[event[r]] = "declined"
  /\ inbox' = [inbox EXCEPT ![event[r]] = "IGNORED"]
  /\ EndRequest(r)
  /\ UNCHANGED <<remembered, recent, dispatched, overlapped, rolledBack>> /\ InboundOnly

Dated == {e \in Events : nature[e] = "dated"}

\* Slip: only the cache of the server is asked.
IsDuplicateHere(r) == event[r] \in Dated \cap remembered[server[r]]

\* ingestAutomationEvent: the hash includes the time of the event, which adapters take
\* from the clock where the provider sends none.
IsDuplicate(r) == event[r] \in Dated \cap (remembered[server[r]] \cup recent)
Remember(r) ==
  remembered' = [remembered EXCEPT ![server[r]] = @ \cup ({event[r]} \cap Dated)]

\* Slip: the inbox row is finished before the transaction that dispatches.
DispatchApart(r) ==
  LET e == event[r] IN
  /\ stage[r] = "persisted" /\ nature[e] # "declined"
  /\ inbox' = [inbox EXCEPT ![e] = "PROCESSED"]
  /\ \/ dispatched' = [dispatched EXCEPT ![e] = @ + 1] /\ Remember(r)
     \/ UNCHANGED <<dispatched, remembered>>
  /\ EndRequest(r)
  /\ UNCHANGED <<recent, overlapped, rolledBack>> /\ InboundOnly

\* One transaction writes PROCESSED, by id, and hands the event to the rules, at least
\* one of which matches.  The lock of the inbox row admits one transaction at a time.
Dispatch(r) ==
  LET e == event[r] IN
  /\ stage[r] = "persisted" /\ nature[e] # "declined"
  /\ inbox' = [inbox EXCEPT ![e] = "PROCESSED"]
  /\ Remember(r)
  /\ IF IsDuplicate(r) THEN UNCHANGED <<recent, dispatched>>
     ELSE /\ recent' = recent \cup ({e} \cap Dated)
          /\ dispatched' = [dispatched EXCEPT ![e] = @ + 1]
  /\ EndRequest(r)
  /\ UNCHANGED <<overlapped, rolledBack>> /\ InboundOnly

\* The transaction fails after the cache took the event.
RollBack(r) ==
  /\ stage[r] = "persisted" /\ nature[event[r]] # "declined"
  /\ Remember(r)
  /\ rolledBack' = rolledBack \cup {event[r]}
  /\ EndRequest(r)
  /\ UNCHANGED <<inbox, recent, dispatched, overlapped>> /\ InboundOnly

Deliver(r) ==
  \/ \E e \in Events, s \in Servers : Receive(r, e, s)
  \/ CheckReplay(r) \/ LookUp(r) \/ Persist(r) \/ Ignore(r) \/ Dispatch(r) \/ RollBack(r)

-----------------------------------------------------------------------------
\* A process dies with the request it serves, or a statement throws.
Crash(r) ==
  /\ stage[r] \notin {"idle", "done"}
  /\ EndRequest(r)
  /\ UNCHANGED <<rows, inboundRows, outboundRows, fixed, operated>>

\* The five minutes of an event pass, which is longer than a request lasts, or a server
\* that serves no delivery starts again.
Forget(e) ==
  /\ \A r \in Requests : event[r] # e
  /\ \/ \E s \in Servers : /\ e \in remembered[s]
                           /\ remembered' = [remembered EXCEPT ![s] = @ \ {e}]
                           /\ UNCHANGED recent
     \/ e \in recent /\ recent' = recent \ {e} /\ UNCHANGED remembered
  /\ UNCHANGED <<rows, outboundRows, fixed, request, operated, inbox, dispatched,
                 overlapped, rolledBack>>

IntegrationNext ==
  \/ \E r \in Requests : Manage(r) \/ Execute(r) \/ Deliver(r) \/ Crash(r)
  \/ \E e \in Events : Forget(e)

IntegrationSpec == IntegrationInit /\ [][IntegrationNext]_integrationVars

-----------------------------------------------------------------------------
\* Every row and every request is in one of its shapes.
IntegrationTypeOK ==
  /\ status \in [Connections -> ConnectionStatuses \cup {Nothing}]
  /\ credential \in [Connections -> {Nothing, "ACTIVE", "REVOKED"}]
  /\ owner \in Connections \cup {Nothing}
  /\ inbox \in [Events -> InboxStatuses \cup {Nothing}]
  /\ remembered \in [Servers -> SUBSET Events] /\ recent \subseteq Events
  /\ dispatched \in [Events -> Nat]
  /\ stage \in [Requests -> Stages]
  /\ on \in [Requests -> Connections \cup {Nothing}]
  /\ copy \in [Requests -> ConnectionStatuses \cup {Nothing}]
  /\ event \in [Requests -> Events \cup {Nothing}]
  /\ server \in [Requests -> Servers \cup {Nothing}]
  /\ hint \in [Requests -> Connections \cup {Nothing}]
  /\ attempt \in [Requests -> 0..MaxAttempts]
  /\ result \in [Requests -> Outcomes \cup {Nothing}]
  /\ ledger \in [Requests -> [Attempts -> LedgerStatuses \cup {Nothing}]]
  /\ acted \in [Requests -> SUBSET Attempts]
  /\ home \in [Events -> Connections] /\ nature \in [Events -> Natures]
  /\ overlapped \subseteq Events /\ rolledBack \subseteq Events
  /\ operated \subseteq Connections

\* A connection shown as CONNECTED can be used: it has an ACTIVE credential, however
\* connecting, disconnecting, a refused call and a reconnect that fails in its
\* transaction cross each other; only an operator can break it
\* (IntegrationManagementService, revokePlatformIntegrationCredential).
ConnectedHasCredential ==
  \A c \in Connections : status[c] = "CONNECTED" /\ c \notin operated => credential[c] = "ACTIVE"

\* An operation that the provider has carried out is tried again only where the ledger
\* left open what became of it: never after it is known to have succeeded, nor after an
\* error that is not to be retried, as an adapter's exception is, although the provider
\* may have acted before it (executeCapabilityWithRetry).
RepeatsOnlyUnknown ==
  \A r \in Requests : \A a \in acted[r], b \in Attempts :
    a < b /\ ledger[r][b] # Nothing => ledger[r][a] \in {"retryable", "TIMED_OUT"}

\* The rules see an event once, on however many servers it is delivered at once; an
\* event without a time of its own is seen again only if deliveries of it overlapped
\* (processInboundWebhook, ingestAutomationEvent).
OneDispatch ==
  \A e \in Events : dispatched[e] > 1 => nature[e] = "undated" /\ e \in overlapped

\* An event that is PROCESSED, and so will never be looked at again, has reached the
\* rules; unless its dispatch was rolled back and the cache remembered it all the same
\* (processInboundWebhook stage 8, checkAndRecordIngestionDedupe).
ProcessedWasDispatched ==
  \A e \in Events : inbox[e] = "PROCESSED" /\ dispatched[e] = 0 => e \in Dated \cap rolledBack
=============================================================================
