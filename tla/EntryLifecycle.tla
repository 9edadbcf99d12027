--------------------------- MODULE EntryLifecycle ---------------------------
(***************************************************************************)
(* The life of config entries: the config flow that signs in, probes the   *)
(* channel and saves an entry (config_flow.py), the setup, unload and      *)
(* removal of an entry (__init__.py, coordinator.async_start and           *)
(* async_shutdown), the reauth a rejected credential asks for, and the     *)
(* threads of the backends that a probe or an entry starts and stops       *)
(* (CloudBackend.start, stop and probe), which may outlive the join of     *)
(* their stop.                                                             *)
(*                                                                         *)
(* Sign-ins are numbered: the number stands for the tokens Cognito gave,   *)
(* and for the device uuid minted with them.  What a thread does between   *)
(* two looks at its stop flag is one step; StreamLiveness has the details. *)
(*                                                                         *)
(* Home Assistant (one setup or unload of an entry at a time, one reauth   *)
(* flow per entry, reloads), Cognito and SPAN are external.                *)
(***************************************************************************)
EXTENDS Integers, FiniteSets

CONSTANTS
    Accounts,     \* SPAN user ids, the entries' unique ids
    Entries,      \* slots for config entries
    UserFlows,    \* config flows users may have open at once
    MaxSignIns,   \* bound: successful sign-ins
    MaxBackends,  \* bound: backends with a thread at one time
    MaxRestarts   \* bound: Home Assistant's restarts

ASSUME LifecycleAssumption ==
    /\ Entries \cap UserFlows = {}
    /\ IsFiniteSet(Entries) /\ IsFiniteSet(Accounts)
    /\ MaxSignIns \in Nat /\ MaxBackends \in Nat \ {0} /\ MaxRestarts \in Nat

VARIABLES
    entry,     \* each entry's data; the object of a removed one keeps its last
    state,     \* Home Assistant's state of each entry
    reload,    \* a reload of the entry is scheduled
    store,     \* the sign-in in each entry's token file, 0 without a file
    feed,      \* the backend of each entry's coordinator, 0 without one
    flow,      \* the config flows; an entry's reauth flow has the entry's name, a
               \* user may always open another
    backend,   \* the backends whose thread runs
    signIns,   \* successful sign-ins so far
    dead,      \* external: sign-ins whose refresh token Cognito refuses
    proven,    \* sign-ins whose probe has seen telemetry (history)
    restarts

lives == <<entry, state, reload, store, feed>>
world == <<signIns, dead, proven, restarts>>
vars  == <<lives, flow, backend, world>>

Flows == UserFlows \cup Entries
SignInNumbers == 1..MaxSignIns

\* Entry data: CONF_USER_ID, CONF_DEVICE_UUID, CONF_TOKENS.
EntryData == [account : Accounts, uuid : SignInNumbers, tokens : SignInNumbers]
NoEntry   == [account |-> "none", uuid |-> 0, tokens |-> 0]

\* A flow between two steps of async_step_user.  `data` is the entry's data a reauth
\* flow was opened with, and after a sign-in the data to be saved.
FlowStates == [at : {"none", "form", "authenticated", "probing", "closing"},
               data : EntryData \cup {NoEntry}, probe : 0..MaxBackends, heard : BOOLEAN]
NoFlow == [at |-> "none", data |-> NoEntry, probe |-> 0, heard |-> FALSE]
Form   == [NoFlow EXCEPT !.at = "form"]
Closed(f) == IF f \in Entries THEN NoFlow ELSE Form

\* `thread` is where _run is.
Running == [thread : {"booting", "streaming"}, of : Flows, probe : BOOLEAN,
            stop : BOOLEAN, reported : BOOLEAN]
NoBackend == [thread |-> "none", of |-> "none", probe |-> FALSE,
              stop |-> FALSE, reported |-> FALSE]

States == {"absent", "not_loaded", "proving", "starting", "loaded", "unloading",
           "stopping", "setup_error", "setup_retry", "failed_unload", "removed", "orphaned"}

\* The entries Home Assistant knows.
Live == {e \in Entries : state[e] \notin {"absent", "removed", "orphaned"}}

-----------------------------------------------------------------------------
Init ==
    /\ entry = [e \in Entries |-> NoEntry]
    /\ state = [e \in Entries |-> "absent"]
    /\ reload = [e \in Entries |-> FALSE]
    /\ store = [e \in Entries |-> 0]
    /\ feed = [e \in Entries |-> 0]
    /\ flow = [f \in Flows |-> Closed(f)]
    /\ backend = [b \in 1..MaxBackends |-> NoBackend]
    /\ signIns = 0 /\ dead = {} /\ proven = {} /\ restarts = 0

Goes(e, next) == state' = [state EXCEPT ![e] = next]

\* The first slot no thread uses.
IsNew(b) == /\ backend[b] = NoBackend
            /\ \A i \in 1..(b - 1) : backend[i] # NoBackend

\* CloudBackend.start
Started(owner, probe) ==
    [NoBackend EXCEPT !.thread = "booting", !.of = owner, !.probe = probe]

\* async_start_reauth: a no-op when a flow is open for the entry.  A flow keeps the
\* entry's data as it is now.
Reauth(e) ==
    flow' = IF flow[e].at # "none" THEN flow
            ELSE [flow EXCEPT ![e] = [Form EXCEPT !.data = entry[e]]]

(* The config flow *)

\* The form with an error; a reauth flow keeps its channel id.
Reopened(f) == [Form EXCEPT !.data = IF f \in Entries THEN flow[f].data ELSE NoEntry]

\* The user leaves a prompt unanswered for good.
Dismiss(e) ==
    /\ flow[e].at = "form"
    /\ flow' = [flow EXCEPT ![e] = NoFlow]
    /\ UNCHANGED <<lives, backend, world>>

\* _new_device_uuid
NewDeviceUuid == signIns + 1

\* Mutant: every sign-in mints a channel id.
MintedDeviceUuid(f) == NewDeviceUuid

\* The channel id of a sign-in: the entry's own on reauth, a new one otherwise.
DeviceUuid(f) == IF f \in Entries THEN flow[f].data.uuid ELSE NewDeviceUuid

\* async_step_user: Cognito takes email and password.  Errors leave the form open.
Authenticate(f, account) ==
    /\ flow[f].at = "form"
    /\ signIns < MaxSignIns
    /\ signIns' = signIns + 1
    /\ flow' = [flow EXCEPT ![f] =
         [Form EXCEPT !.at = "authenticated",
                      !.data = [account |-> account, uuid |-> DeviceUuid(f),
                                tokens |-> signIns + 1]]]
    /\ UNCHANGED <<lives, backend, dead, proven, restarts>>

\* _probe: a backend of its own bootstraps and is started.
StartProbe(f) ==
    /\ flow[f].at = "authenticated"
    /\ \E b \in 1..MaxBackends :
         /\ IsNew(b)
         /\ backend' = [backend EXCEPT ![b] = Started(f, TRUE)]
         /\ flow' = [flow EXCEPT ![f].at = "probing", ![f].probe = b]
    /\ UNCHANGED <<lives, world>>

\* Anything else raised by the bootstrap: the form again, with an error.
BootstrapFails(f) ==
    /\ flow[f].at = "authenticated"
    /\ flow' = [flow EXCEPT ![f] = Reopened(f)]
    /\ UNCHANGED <<lives, backend, world>>

\* Mutant: a probe that timed out is left running.
ProbeEndsUnstopped(f) ==
    /\ flow[f].at = "probing"
    /\ flow' = [flow EXCEPT ![f].at = "closing"]
    /\ backend' = IF flow[f].heard
                  THEN [backend EXCEPT ![flow[f].probe].stop = TRUE]
                  ELSE backend
    /\ UNCHANGED <<lives, world>>

\* probe: got.wait ends, with a schema or by its timeout; then stop().
ProbeEnds(f) ==
    /\ flow[f].at = "probing"
    /\ flow' = [flow EXCEPT ![f].at = "closing"]
    /\ backend' = [backend EXCEPT ![flow[f].probe].stop = TRUE]
    /\ UNCHANGED <<lives, world>>

\* Mutant: the timeout of the probe is swallowed.
HeardOrNot(f) == TRUE

\* A schema was captured.
Heard(f) == flow[f].heard

\* The join of the probe's stop is over, one way or the other; no schema, no entry.
ProbeFailed(f) ==
    /\ flow[f].at = "closing"
    /\ ~Heard(f)
    /\ flow' = [flow EXCEPT ![f] = Reopened(f)]
    /\ UNCHANGED <<lives, backend, world>>

\* The unique id: the user id in the access token.
UserId(f) == flow[f].data.account

\* Mutant: only loaded entries count.
LoadedAs(account) == \E e \in Entries : state[e] = "loaded" /\ entry[e].account = account

Configured(account) == \E e \in Live : entry[e].account = account

\* _abort_if_unique_id_configured, then async_create_entry.
CreateEntry(f) ==
    /\ f \in UserFlows
    /\ flow[f].at = "closing" /\ Heard(f)
    /\ flow' = [flow EXCEPT ![f] = Closed(f)]
    /\ IF Configured(UserId(f))
       THEN UNCHANGED lives
       ELSE LET e == CHOOSE x \in Entries : state[x] = "absent" IN
              /\ \E x \in Entries : state[x] = "absent"
              /\ entry' = [entry EXCEPT ![e] = flow[f].data]
              /\ Goes(e, "not_loaded")
              /\ UNCHANGED <<reload, store, feed>>
    /\ UNCHANGED <<backend, world>>

\* _get_reauth_entry, which raises once the entry has been removed, and
\* _abort_if_unique_id_mismatch.
Matches(f) == f \in Live /\ UserId(f) = entry[f].account

\* ... then async_update_reload_and_abort.
UpdateEntry(f) ==
    /\ f \in Entries
    /\ flow[f].at = "closing" /\ Heard(f)
    /\ flow' = [flow EXCEPT ![f] = Closed(f)]
    /\ IF Matches(f)
       THEN /\ entry' = [entry EXCEPT ![f] = flow[f].data]
            /\ reload' = [reload EXCEPT ![f] = TRUE]
            /\ UNCHANGED <<state, store, feed>>
       ELSE UNCHANGED lives
    /\ UNCHANGED <<backend, world>>

(* Setup and unload *)

\* Mutant: a token file that exists is kept.
WriteIfAbsent(e) ==
    /\ state[e] = "not_loaded"
    /\ Goes(e, "proving")
    /\ store' = IF store[e] = 0 THEN [store EXCEPT ![e] = entry[e].tokens] ELSE store
    /\ UNCHANGED <<entry, reload, feed, flow, backend, world>>

\* async_setup_entry: the entry's tokens are written over whatever file there is ...
WriteTokenFile(e) ==
    /\ state[e] = "not_loaded"
    /\ Goes(e, "proving")
    /\ store' = [store EXCEPT ![e] = entry[e].tokens]
    /\ UNCHANGED <<entry, reload, feed, flow, backend, world>>

\* access_token_from_store finds no file, or a refresh token that is refused.
Rejects(e) == store[e] \in {0} \cup dead

\* A probe reports to nobody.
IsTold(b) == ~backend[b].probe /\ Rejects(backend[b].of)

\* ... and proved: a rejection asks the user, any other failure is retried.
Prove(e) ==
    /\ state[e] = "proving"
    /\ \/ Rejects(e) /\ Goes(e, "setup_error") /\ Reauth(e)
       \/ ~Rejects(e) /\ Goes(e, "starting") /\ UNCHANGED flow
       \/ Goes(e, "setup_retry") /\ UNCHANGED flow
    /\ UNCHANGED <<entry, reload, store, feed, backend, world>>

\* The coordinator is built and started, the platforms are set up.
Start(e) ==
    /\ state[e] = "starting"
    /\ Goes(e, "loaded")
    /\ \E b \in 1..MaxBackends :
         /\ IsNew(b)
         /\ backend' = [backend EXCEPT ![b] = Started(e, FALSE)]
         /\ feed' = [feed EXCEPT ![e] = b]
    /\ UNCHANGED <<entry, reload, store, flow, world>>

\* Home Assistant reloads the entry: after a sign-in, on a retry, or for the user.
Reload(e) ==
    /\ \/ state[e] = "loaded" /\ Goes(e, "unloading")
       \/ state[e] \in {"setup_error", "setup_retry"} /\ Goes(e, "not_loaded")
    /\ reload' = [reload EXCEPT ![e] = FALSE]
    /\ UNCHANGED <<entry, store, feed, flow, backend, world>>

\* async_unload_entry: a platform refuses, and nothing else happens ...
PlatformsRefuse(e) ==
    /\ state[e] = "unloading"
    /\ Goes(e, "failed_unload")
    /\ UNCHANGED <<entry, reload, store, feed, flow, backend, world>>

\* ... or async_shutdown stops the backend ...
StopBackend(e) ==
    /\ state[e] = "unloading"
    /\ Goes(e, "stopping")
    /\ backend' = [backend EXCEPT ![feed[e]].stop = TRUE]
    /\ feed' = [feed EXCEPT ![e] = 0]
    /\ UNCHANGED <<entry, reload, store, flow, world>>

\* ... and after a join of at most ten seconds the token file goes.
RemoveTokenFile(e) ==
    /\ state[e] = "stopping"
    /\ Goes(e, "not_loaded")
    /\ store' = [store EXCEPT ![e] = 0]
    /\ UNCHANGED <<entry, reload, feed, flow, backend, world>>

\* async_remove_entry, and Home Assistant around it: a loaded entry is unloaded first,
\* one that would not unload goes with its coordinator running, and one that never
\* loaded is not unloaded.  Its prompt is taken back; a step of it that is under way
\* runs on.
Remove(e) ==
    /\ state[e] \in {"not_loaded", "setup_error", "setup_retry", "failed_unload"}
    /\ Goes(e, IF state[e] = "failed_unload" THEN "orphaned" ELSE "removed")
    /\ reload' = [reload EXCEPT ![e] = FALSE]
    /\ flow' = IF flow[e].at = "form" THEN [flow EXCEPT ![e] = NoFlow] ELSE flow
    /\ UNCHANGED <<entry, store, feed, backend, world>>

(* A backend's thread *)

\* The loop's condition, and the waits that a stop ends: the thread exits.
LoopOn(b, next) == IF backend[b].stop THEN NoBackend ELSE next

\* bootstrap fails for the network, or for a credential nobody is told about.
BootFails(b) ==
    /\ backend[b].thread = "booting"
    /\ backend' = [backend EXCEPT ![b] = LoopOn(b, backend[b])]
    /\ UNCHANGED <<lives, flow, world>>

\* bootstrap finds the credential rejected: the coordinator is told, once.
BootRejected(b) ==
    /\ backend[b].thread = "booting"
    /\ IsTold(b)
    /\ IF backend[b].reported THEN UNCHANGED flow ELSE Reauth(backend[b].of)
    /\ backend' = [backend EXCEPT ![b] = LoopOn(b, [backend[b] EXCEPT !.reported = TRUE])]
    /\ UNCHANGED <<lives, world>>

\* bootstrap succeeds; stop is not looked at before the stream is open.
Boot(b) ==
    /\ backend[b].thread = "booting"
    /\ ~IsTold(b)
    /\ backend' = [backend EXCEPT ![b].thread = "streaming"]
    /\ UNCHANGED <<lives, flow, world>>

\* A content-bearing frame: the schema is captured by the probe that waits for it.
Frame(b) ==
    LET f == backend[b].of IN
    /\ backend[b].thread = "streaming" /\ ~backend[b].stop
    /\ backend[b].probe
    /\ ~flow[f].heard
    /\ flow' = [flow EXCEPT ![f].heard = TRUE]
    /\ proven' = proven \cup {flow[f].data.tokens}
    /\ UNCHANGED <<lives, backend, signIns, dead, restarts>>

\* The stream ends: closed, timed out, or at a line after stop or the watchdog.
StreamEnds(b) ==
    /\ backend[b].thread = "streaming"
    /\ backend' = [backend EXCEPT ![b] = LoopOn(b, [backend[b] EXCEPT !.thread = "booting"])]
    /\ UNCHANGED <<lives, flow, world>>

(* The outside world *)

\* Cognito refuses an entry's refresh token from now on.
Revoke(e) ==
    /\ entry[e] # NoEntry
    /\ entry[e].tokens \notin dead
    /\ dead' = dead \cup {entry[e].tokens}
    /\ UNCHANGED <<lives, flow, backend, signIns, proven, restarts>>

\* Home Assistant dies and comes back: entries and token files survive.
Restart ==
    /\ restarts < MaxRestarts
    /\ restarts' = restarts + 1
    /\ state' = [e \in Entries |-> IF e \in Live THEN "not_loaded"
                                  ELSE IF state[e] = "absent" THEN "absent" ELSE "removed"]
    /\ reload' = [e \in Entries |-> FALSE]
    /\ feed' = [e \in Entries |-> 0]
    /\ flow' = [f \in Flows |-> Closed(f)]
    /\ backend' = [b \in 1..MaxBackends |-> NoBackend]
    /\ UNCHANGED <<entry, store, signIns, dead, proven>>

-----------------------------------------------------------------------------
SetupSteps(e) == WriteTokenFile(e) \/ Prove(e) \/ Start(e)
UnloadSteps(e) == PlatformsRefuse(e) \/ StopBackend(e) \/ RemoveTokenFile(e)
FlowSteps(f) == StartProbe(f) \/ BootstrapFails(f) \/ ProbeEnds(f)
                \/ ProbeFailed(f) \/ CreateEntry(f) \/ UpdateEntry(f)
ThreadSteps(b) == BootFails(b) \/ BootRejected(b) \/ Boot(b) \/ StreamEnds(b)

Next ==
    \/ \E f \in Flows : FlowSteps(f) \/ \E a \in Accounts : Authenticate(f, a)
    \/ \E e \in Entries : SetupSteps(e) \/ Reload(e) \/ UnloadSteps(e) \/ Dismiss(e) \/ Remove(e)
    \/ \E b \in 1..MaxBackends : ThreadSteps(b) \/ Frame(b)
    \/ \E e \in Entries : Revoke(e)
    \/ Restart

Spec == Init /\ [][Next]_vars

-----------------------------------------------------------------------------
(* Properties *)

TypeOK ==
    /\ entry \in [Entries -> EntryData \cup {NoEntry}]
    /\ state \in [Entries -> States]
    /\ \A e \in Entries : state[e] = "absent" <=> entry[e] = NoEntry
    /\ reload \in [Entries -> BOOLEAN]
    /\ store \in [Entries -> 0..MaxSignIns]
    /\ feed \in [Entries -> 0..MaxBackends]
    /\ flow \in [Flows -> FlowStates]
    /\ backend \in [1..MaxBackends -> Running \cup {NoBackend}]
    /\ signIns \in 0..MaxSignIns
    /\ dead \subseteq 1..signIns /\ proven \subseteq 1..signIns
    /\ restarts \in 0..MaxRestarts

\* However flows, retries, removals and reauths interleave, no account ends up with two
\* entries, which would meter and switch the same panel (_abort_if_unique_id_configured).
OneEntryPerAccount ==
    \A e1, e2 \in Live : e1 # e2 => entry[e1].account # entry[e2].account

\* "Setup fails loudly instead of finishing with zero entities" (_probe): tokens are
\* only ever saved after telemetry came in on them, whatever was tried before.
SavedWasProven == \A e \in Entries : entry[e] # NoEntry => entry[e].tokens \in proven

\* A backend that was not stopped is the one its coordinator or its probe waits on:
\* no timeout, failed unload, removal, reload or restart leaves a second stream running.
NoStrayBackend ==
    \A b \in 1..MaxBackends :
        backend[b] # NoBackend /\ ~backend[b].stop =>
            IF backend[b].probe
            THEN flow[backend[b].of].at = "probing" /\ flow[backend[b].of].probe = b
            ELSE feed[backend[b].of] = b

\* A token file that is not of the entry's last sign-in is on its way out: whatever
\* setup, retry, unload or crash the sign-in fell into, the entry does not go on, or
\* give up, with the old tokens.  Only a failed unload keeps them, until a restart.
SignInTakesEffect ==
    \A e \in Live : store[e] # entry[e].tokens =>
        reload[e] \/ state[e] \in {"not_loaded", "unloading", "stopping", "failed_unload"}

\* "It must survive re-authentication" (_existing_device_uuid): whatever a reauth
\* signs in as, the entry keeps its channel and its account.
ChannelSurvives ==
    [][\A e \in Entries : entry[e] # NoEntry =>
         /\ entry'[e].uuid = entry[e].uuid
         /\ entry'[e].account = entry[e].account]_vars
=============================================================================
