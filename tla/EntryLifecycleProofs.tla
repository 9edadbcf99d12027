------------------------ MODULE EntryLifecycleProofs ------------------------
(***************************************************************************)
(* However many accounts, entries, flows, sign-ins and backends there are: *)
(* no account gets two entries, no tokens are saved unproven, no backend   *)
(* is left behind, and a sign-in takes effect.                             *)
(***************************************************************************)
EXTENDS EntryLifecycle, TLAPS

\* A sign-in under way carries the tokens of one, and a flow that has heard telemetry
\* on them has proven them; a reauth stays on its entry's channel.
FlowKnows(f) ==
    /\ flow[f].at \in {"authenticated", "probing", "closing"} =>
         flow[f].data \in EntryData /\ flow[f].data.tokens <= signIns
    /\ flow[f].heard => flow[f].at \in {"probing", "closing"} /\ flow[f].data.tokens \in proven
    /\ f \in Entries /\ flow[f].at # "none" =>
         /\ entry[f] # NoEntry
         /\ flow[f].data \in EntryData /\ flow[f].data.uuid = entry[f].uuid

FlowsKnow == \A f \in Flows : FlowKnows(f)

\* Backend b runs, unstopped, for its owner.
Runs(b, owner, probe) ==
    /\ b \in 1..MaxBackends
    /\ backend[b] # NoBackend /\ ~backend[b].stop
    /\ backend[b].of = owner /\ backend[b].probe = probe

\* What a flow or a coordinator waits on runs, and an entry has a coordinator from
\* its setup to the stop of its backend.
WaitsAreMet ==
    /\ \A f \in Flows : flow[f].at = "probing" => Runs(flow[f].probe, f, TRUE)
    /\ \A e \in Entries :
         /\ feed[e] # 0 <=> state[e] \in {"loaded", "unloading", "failed_unload", "orphaned"}
         /\ feed[e] # 0 => Runs(feed[e], e, FALSE)
    /\ \A b \in 1..MaxBackends :
         backend[b] # NoBackend /\ ~backend[b].probe =>
             backend[b].of \in Entries /\ entry[backend[b].of] # NoEntry

\* A slot without an entry has no token file.
FilesAreOwned == \A e \in Entries : entry[e] = NoEntry => store[e] = 0

IInv ==
    /\ TypeOK
    /\ FlowsKnow
    /\ WaitsAreMet
    /\ FilesAreOwned
    /\ NoStrayBackend
    /\ SavedWasProven
    /\ OneEntryPerAccount
    /\ SignInTakesEffect

-----------------------------------------------------------------------------
(* Types *)

LEMMA NothingIsNoData == NoEntry \notin EntryData /\ NoBackend \notin Running
<1>1. NoEntry.uuid = 0 /\ \A d \in EntryData : d.uuid # 0
    BY DEF NoEntry, EntryData, SignInNumbers
<1>2. NoBackend.thread = "none" /\ \A b \in Running : b.thread # "none"
    BY DEF NoBackend, Running
<1> QED BY <1>1, <1>2

LEMMA FormType ==
    ASSUME NEW d \in EntryData \cup {NoEntry}
    PROVE  /\ [Form EXCEPT !.data = d] \in FlowStates
           /\ [Form EXCEPT !.data = d].at = "form" /\ ~[Form EXCEPT !.data = d].heard
           /\ [Form EXCEPT !.data = d].data = d
<1>1. NoFlow \in FlowStates /\ ~NoFlow.heard
    BY LifecycleAssumption DEF NoFlow, FlowStates
<1>2. Form = [NoFlow EXCEPT !.at = "form"] /\ Form \in FlowStates
    BY <1>1 DEF Form, FlowStates
<1>3. Form.at = "form" /\ ~Form.heard
    BY <1>1, <1>2 DEF FlowStates
<1> QED BY <1>2, <1>3 DEF FlowStates

LEMMA ClosedType ==
    ASSUME NEW f \in Flows
    PROVE  /\ Closed(f) \in FlowStates /\ Closed(f).at \in {"none", "form"} /\ ~Closed(f).heard
           /\ f \in Entries => Closed(f).at = "none"
           /\ NoFlow \in FlowStates /\ NoFlow.at = "none" /\ ~NoFlow.heard
<1>1. NoFlow \in FlowStates /\ ~NoFlow.heard /\ NoFlow.at = "none"
    BY LifecycleAssumption DEF NoFlow, FlowStates
<1>2. Form \in FlowStates /\ Form.at = "form" /\ ~Form.heard
    BY <1>1 DEF Form, FlowStates
<1> QED BY <1>1, <1>2 DEF Closed

LEMMA StartedType ==
    ASSUME NEW f \in Flows, NEW p \in BOOLEAN
    PROVE  /\ Started(f, p) \in Running /\ Started(f, p).of = f
           /\ Started(f, p).probe = p /\ ~Started(f, p).stop
BY DEF Started, NoBackend, Running

LEMMA ReopenedType ==
    ASSUME TypeOK, NEW f \in Flows
    PROVE  /\ Reopened(f) \in FlowStates /\ Reopened(f).at = "form" /\ ~Reopened(f).heard
           /\ f \in Entries => Reopened(f).data = flow[f].data
<1>1. flow[f].data \in EntryData \cup {NoEntry}
    BY DEF TypeOK, FlowStates
<1> QED BY <1>1, FormType DEF Reopened

\* What Reauth makes of the flows.
LEMMA ReauthType ==
    ASSUME TypeOK, NEW e \in Entries, Reauth(e)
    PROVE  /\ flow' \in [Flows -> FlowStates]
           /\ \A f \in Flows : f # e => flow'[f] = flow[f]
           /\ \/ flow'[e] = flow[e] /\ flow[e].at # "none"
              \/ /\ flow[e].at = "none"
                 /\ flow'[e].at = "form" /\ ~flow'[e].heard /\ flow'[e].data = entry[e]
<1>1. entry[e] \in EntryData \cup {NoEntry} /\ e \in Flows
    BY DEF TypeOK, Flows
<1>2. CASE flow[e].at # "none"
    BY <1>2 DEF Reauth, TypeOK
<1>3. CASE flow[e].at = "none"
    BY <1>1, <1>3, FormType DEF Reauth, TypeOK
<1> QED BY <1>2, <1>3

\* A sign-in's data: the account, a channel id and the tokens.
LEMMA SignInType ==
    ASSUME IInv, NEW f \in Flows, NEW a \in Accounts, Authenticate(f, a)
    PROVE  /\ flow[f].at = "form" /\ signIns' = signIns + 1 /\ signIns' \in 1..MaxSignIns
           /\ \E r \in FlowStates :
                /\ flow' = [flow EXCEPT ![f] = r]
                /\ r.at = "authenticated" /\ ~r.heard
                /\ r.data = [account |-> a, uuid |-> DeviceUuid(f), tokens |-> signIns + 1]
                /\ r.data \in EntryData
<1> USE LifecycleAssumption DEF IInv, TypeOK
<1>1. flow[f].at = "form" /\ signIns' = signIns + 1 /\ signIns' \in 1..MaxSignIns
    <2>1. signIns \in 0..MaxSignIns /\ signIns < MaxSignIns
        BY DEF Authenticate
    <2>2. flow[f].at = "form" /\ signIns' = signIns + 1
        BY DEF Authenticate
    <2> QED BY ONLY <2>1, <2>2, LifecycleAssumption
<1>2. DeviceUuid(f) \in SignInNumbers
    BY <1>1 DEF DeviceUuid, NewDeviceUuid, SignInNumbers, FlowsKnow, FlowKnows, EntryData
<1> DEFINE d == [account |-> a, uuid |-> DeviceUuid(f), tokens |-> signIns + 1]
<1>3. d \in EntryData
    BY <1>1, <1>2 DEF EntryData, SignInNumbers
<1>4. flow' = [flow EXCEPT ![f] = [Form EXCEPT !.at = "authenticated", !.data = d]]
    BY DEF Authenticate
<1>5. [Form EXCEPT !.at = "authenticated", !.data = d] \in FlowStates
    <2>1. Form \in FlowStates
        BY ClosedType, FormType DEF Form, FlowStates
    <2> QED BY <1>3, <2>1 DEF FlowStates
<1>6. PICK r \in FlowStates : r = [Form EXCEPT !.at = "authenticated", !.data = d]
    BY <1>5
<1>7. r.at = "authenticated" /\ ~r.heard /\ r.data = d
    <2>1. Form \in FlowStates /\ ~Form.heard
        BY ClosedType DEF Form, FlowStates
    <2> QED BY <1>6, <2>1 DEF FlowStates
<1> QED BY <1>1, <1>3, <1>4, <1>6, <1>7

LEMMA FlowType ==
    ASSUME IInv, NEW f \in Flows, FlowSteps(f) \/ \E a \in Accounts : Authenticate(f, a)
    PROVE  TypeOK'
<1> USE LifecycleAssumption DEF IInv, TypeOK
<1>0. flow[f] \in FlowStates /\ Flows = UserFlows \cup Entries
    BY DEF Flows
<1>1. ASSUME NEW a \in Accounts, Authenticate(f, a)
      PROVE  TypeOK'
    <2>1. signIns' = signIns + 1 /\ signIns' \in 1..MaxSignIns
        BY <1>1, SignInType
    <2>6. flow' \in [Flows -> FlowStates]
        BY <1>1, SignInType
    <2>7. UNCHANGED <<lives, backend, dead, proven, restarts>>
        BY <1>1 DEF Authenticate
    <2>8. 1..signIns \subseteq 1..signIns'
        BY <2>1
    <2> QED BY <2>1, <2>6, <2>7, <2>8 DEF lives
<1>2. CASE StartProbe(f)
    <2>1. PICK b \in 1..MaxBackends :
             /\ backend' = [backend EXCEPT ![b] = Started(f, TRUE)]
             /\ flow' = [flow EXCEPT ![f].at = "probing", ![f].probe = b]
        BY <1>2 DEF StartProbe
    <2>2. backend' \in [1..MaxBackends -> Running \cup {NoBackend}]
        BY <2>1, StartedType
    <2>3. flow' \in [Flows -> FlowStates]
        <3>1. flow' = [flow EXCEPT ![f] = [[flow[f] EXCEPT !.at = "probing"] EXCEPT !.probe = b]]
            BY <2>1
        <3>2. PICK g \in FlowStates : g = [flow[f] EXCEPT !.at = "probing"]
            BY <1>0 DEF FlowStates
        <3>3. [g EXCEPT !.probe = b] \in FlowStates
            <4>1. b \in 0..MaxBackends
                OBVIOUS
            <4> QED BY ONLY <4>1, g \in FlowStates DEF FlowStates
        <3>4. [[flow[f] EXCEPT !.at = "probing"] EXCEPT !.probe = b] \in FlowStates
            BY <3>2, <3>3
        <3> QED BY <3>1, <3>4
    <2> QED BY <1>2, <2>2, <2>3 DEF StartProbe, lives, world
<1>3. CASE BootstrapFails(f) \/ ProbeFailed(f)
    <2>1. flow' = [flow EXCEPT ![f] = Reopened(f)] /\ UNCHANGED <<lives, backend, world>>
        BY <1>3 DEF BootstrapFails, ProbeFailed
    <2>2. flow' \in [Flows -> FlowStates]
        BY <2>1, ReopenedType
    <2> QED BY <2>1, <2>2 DEF lives, world
<1>4. CASE ProbeEnds(f)
    <2>1. Runs(flow[f].probe, f, TRUE)
        BY <1>4 DEF ProbeEnds, WaitsAreMet
    <2>2. backend[flow[f].probe] \in Running
        BY <2>1 DEF Runs
    <2>3. backend' \in [1..MaxBackends -> Running \cup {NoBackend}]
        BY <1>4, <2>1, <2>2 DEF ProbeEnds, Running, Runs
    <2>4. flow' \in [Flows -> FlowStates]
        BY <1>4 DEF ProbeEnds, FlowStates
    <2> QED BY <1>4, <2>3, <2>4 DEF ProbeEnds, lives, world
<1>5. CASE CreateEntry(f)
    <2>1. flow' \in [Flows -> FlowStates] /\ UNCHANGED <<backend, world>>
        BY <1>5, ClosedType DEF CreateEntry
    <2>2. CASE Configured(UserId(f))
        BY <1>5, <2>1, <2>2 DEF CreateEntry, lives, world
    <2>3. CASE ~Configured(UserId(f))
        <3> DEFINE e == CHOOSE x \in Entries : state[x] = "absent"
        <3>1. e \in Entries /\ state[e] = "absent"
            BY <1>5, <2>3 DEF CreateEntry
        <3>2. /\ entry' = [entry EXCEPT ![e] = flow[f].data]
              /\ state' = [state EXCEPT ![e] = "not_loaded"]
              /\ UNCHANGED <<reload, store, feed>>
            BY <1>5, <2>3 DEF CreateEntry, Goes
        <3>3. flow[f].data \in EntryData
            BY <1>5 DEF CreateEntry, FlowsKnow, FlowKnows
        <3> HIDE DEF e
        <3>4. entry' \in [Entries -> EntryData \cup {NoEntry}] /\ state' \in [Entries -> States]
            BY <3>1, <3>2, <3>3 DEF States
        <3>5. \A x \in Entries : state'[x] = "absent" <=> entry'[x] = NoEntry
            BY <3>1, <3>2, <3>3, NothingIsNoData
        <3> QED BY <2>1, <3>2, <3>4, <3>5 DEF world
    <2> QED BY <2>2, <2>3
<1>6. CASE UpdateEntry(f)
    <2>1. flow' \in [Flows -> FlowStates] /\ UNCHANGED <<backend, world>>
        BY <1>6, ClosedType DEF UpdateEntry
    <2>2. f \in Entries /\ flow[f].data \in EntryData /\ entry[f] # NoEntry
        BY <1>6 DEF UpdateEntry, FlowsKnow, FlowKnows
    <2>3. CASE Matches(f)
        <3>1. entry' = [entry EXCEPT ![f] = flow[f].data] /\ reload' = [reload EXCEPT ![f] = TRUE]
              /\ UNCHANGED <<state, store, feed>>
            BY <1>6, <2>3 DEF UpdateEntry
        <3>2. \A x \in Entries : state'[x] = "absent" <=> entry'[x] = NoEntry
            BY <2>2, <3>1, NothingIsNoData
        <3> QED BY <2>1, <2>2, <3>1, <3>2 DEF world
    <2>4. CASE ~Matches(f)
        BY <1>6, <2>1, <2>4 DEF UpdateEntry, lives, world
    <2> QED BY <2>3, <2>4
<1> QED BY <1>1, <1>2, <1>3, <1>4, <1>5, <1>6 DEF FlowSteps

LEMMA EntryType ==
    ASSUME IInv, NEW e \in Entries,
           SetupSteps(e) \/ Reload(e) \/ UnloadSteps(e) \/ Dismiss(e) \/ Remove(e) \/ Revoke(e)
    PROVE  TypeOK'
<1> USE LifecycleAssumption DEF IInv, TypeOK
<1>0. e \in Flows
    BY DEF Flows
<1>1. CASE WriteTokenFile(e)
    <2>1. entry[e].tokens \in 0..MaxSignIns
        BY DEF EntryData, NoEntry, SignInNumbers
    <2> QED BY <1>1, <2>1 DEF WriteTokenFile, Goes, States, world
<1>2. CASE Prove(e)
    <2>1. flow' \in [Flows -> FlowStates]
        BY <1>2, ReauthType DEF Prove
    <2>2. PICK s \in {"setup_error", "starting", "setup_retry"} : state' = [state EXCEPT ![e] = s]
        BY <1>2 DEF Prove, Goes
    <2> QED BY <1>2, <2>1, <2>2 DEF Prove, States, world
<1>3. CASE Start(e)
    <2>1. PICK b \in 1..MaxBackends :
             backend' = [backend EXCEPT ![b] = Started(e, FALSE)] /\ feed' = [feed EXCEPT ![e] = b]
        BY <1>3 DEF Start
    <2>2. backend' \in [1..MaxBackends -> Running \cup {NoBackend}]
        BY <1>0, <2>1, StartedType
    <2>3. state' = [state EXCEPT ![e] = "loaded"] /\ state[e] = "starting"
          /\ UNCHANGED <<entry, reload, store, flow, world>>
        BY <1>3 DEF Start, Goes
    <2>4. feed' \in [Entries -> 0..MaxBackends]
        BY <2>1
    <2> QED BY <2>2, <2>3, <2>4 DEF States, world
<1>4. CASE Reload(e)
    <2>1. PICK s \in {"unloading", "not_loaded"} : state' = [state EXCEPT ![e] = s] /\ state[e] # "absent"
        BY <1>4 DEF Reload, Goes
    <2> QED BY <1>4, <2>1 DEF Reload, States, world
<1>5. CASE PlatformsRefuse(e) \/ RemoveTokenFile(e)
    <2>1. PICK s \in {"failed_unload", "not_loaded"} : state' = [state EXCEPT ![e] = s] /\ state[e] # "absent"
        BY <1>5 DEF PlatformsRefuse, RemoveTokenFile, Goes
    <2>2. store' \in [Entries -> 0..MaxSignIns]
        <3>1. store' = store \/ store' = [store EXCEPT ![e] = 0]
            BY <1>5 DEF PlatformsRefuse, RemoveTokenFile
        <3>2. 0 \in 0..MaxSignIns
            OBVIOUS
        <3>3. CASE store' = [store EXCEPT ![e] = 0]
            BY <3>2, <3>3
        <3> QED BY <3>1, <3>3
    <2> QED BY <1>5, <2>1, <2>2 DEF PlatformsRefuse, RemoveTokenFile, States, world
<1>6. CASE StopBackend(e)
    <2>1. state[e] = "unloading" /\ Runs(feed[e], e, FALSE)
        BY <1>6 DEF StopBackend, WaitsAreMet
    <2>2. backend[feed[e]] \in Running
        BY <2>1 DEF Runs
    <2>3. backend' \in [1..MaxBackends -> Running \cup {NoBackend}]
        BY <1>6, <2>1, <2>2 DEF StopBackend, Running, Runs
    <2> QED BY <1>6, <2>1, <2>3 DEF StopBackend, Goes, States, world
<1>7. CASE Dismiss(e)
    <2>1. flow' \in [Flows -> FlowStates]
        BY <1>0, <1>7, ClosedType DEF Dismiss
    <2> QED BY <1>7, <2>1 DEF Dismiss, lives, world
<1>8. CASE Revoke(e)
    <2>1. entry[e].tokens \in 1..signIns
        BY <1>8 DEF Revoke, SavedWasProven
    <2> QED BY <1>8, <2>1 DEF Revoke, lives
<1>9. CASE Remove(e)
    <2>1. flow' \in [Flows -> FlowStates]
        BY <1>0, <1>9, ClosedType DEF Remove
    <2>2. PICK s \in {"orphaned", "removed"} :
             state' = [state EXCEPT ![e] = s] /\ state[e] # "absent"
        BY <1>9 DEF Remove, Goes
    <2> QED BY <1>9, <2>1, <2>2 DEF Remove, States, world
<1> QED BY <1>1, <1>2, <1>3, <1>4, <1>5, <1>6, <1>7, <1>8, <1>9 DEF SetupSteps, UnloadSteps

LEMMA ThreadType ==
    ASSUME IInv, NEW b \in 1..MaxBackends, ThreadSteps(b) \/ Frame(b)
    PROVE  TypeOK'
<1> USE LifecycleAssumption DEF IInv, TypeOK
<1>1. backend[b] \in Running
    BY DEF ThreadSteps, Frame, BootFails, BootRejected, Boot, StreamEnds, NoBackend
<1>2. CASE BootFails(b) \/ Boot(b) \/ StreamEnds(b)
    <2>1. backend' \in [1..MaxBackends -> Running \cup {NoBackend}]
        <3>1. PICK n \in {backend[b], NoBackend, [backend[b] EXCEPT !.thread = "booting"],
                            [backend[b] EXCEPT !.thread = "streaming"]} :
                  backend' = [backend EXCEPT ![b] = n]
            BY <1>2 DEF BootFails, Boot, StreamEnds, LoopOn
        <3>2. n \in Running \cup {NoBackend}
            BY <1>1, <3>1 DEF Running
        <3> QED BY <3>1, <3>2
    <2> QED BY <1>2, <2>1 DEF BootFails, Boot, StreamEnds, lives, world
<1>3. CASE BootRejected(b)
    <2>1. backend' \in [1..MaxBackends -> Running \cup {NoBackend}]
        BY <1>1, <1>3 DEF BootRejected, LoopOn, Running
    <2>2. backend[b].of \in Entries
        BY <1>1, <1>3, NothingIsNoData DEF BootRejected, IsTold, WaitsAreMet
    <2>3. flow' \in [Flows -> FlowStates]
        BY <1>3, <2>2, ReauthType DEF BootRejected
    <2> QED BY <1>3, <2>1, <2>3 DEF BootRejected, lives, world
<1>4. CASE Frame(b)
    <2> DEFINE f == backend[b].of
    <2>1. f \in Flows /\ flow[f].at = "probing"
        BY <1>1, <1>4, NothingIsNoData DEF Frame, NoStrayBackend, Running
    <2>2. flow' \in [Flows -> FlowStates]
        <3>1. flow' = [flow EXCEPT ![f] = [flow[f] EXCEPT !.heard = TRUE]]
            BY <1>4 DEF Frame
        <3>2. flow[f] \in FlowStates
            BY <2>1
        <3>3. \A g \in FlowStates : [g EXCEPT !.heard = TRUE] \in FlowStates
            BY DEF FlowStates
        <3>4. [flow[f] EXCEPT !.heard = TRUE] \in FlowStates
            BY <3>2, <3>3
        <3> QED BY <3>1, <3>4
    <2>3. flow[f].data.tokens \in 1..signIns
        BY <2>1 DEF FlowsKnow, FlowKnows, EntryData, SignInNumbers
    <2> QED BY <1>4, <2>2, <2>3 DEF Frame, lives
<1> QED BY <1>2, <1>3, <1>4 DEF ThreadSteps

LEMMA NextType == IInv /\ [Next]_vars => TypeOK'
<1> SUFFICES ASSUME IInv, [Next]_vars PROVE TypeOK'
    OBVIOUS
<1>1. CASE Restart
    BY <1>1, ClosedType, LifecycleAssumption DEF Restart, IInv, TypeOK, States, Live
<1>2. CASE UNCHANGED vars
    BY <1>2 DEF vars, lives, world, IInv, TypeOK
<1> QED BY <1>1, <1>2, FlowType, EntryType, ThreadType DEF Next


-----------------------------------------------------------------------------
(* What no step takes back *)

\* Only the end of a flow touches an entry, and it never moves one to another channel
\* or account.
LEMMA EntriesStay ==
    ASSUME IInv, [Next]_vars
    PROVE  \A e \in Entries : entry[e] # NoEntry =>
             /\ entry'[e] # NoEntry
             /\ entry'[e].uuid = entry[e].uuid /\ entry'[e].account = entry[e].account
<1> DEFINE Stays == \A e \in Entries : entry[e] # NoEntry =>
                      /\ entry'[e] # NoEntry
                      /\ entry'[e].uuid = entry[e].uuid /\ entry'[e].account = entry[e].account
<1>1. CASE UNCHANGED entry
    BY <1>1
<1>2. ASSUME NEW f \in Flows, CreateEntry(f)
      PROVE  Stays
    <2>1. CASE Configured(UserId(f))
        BY <1>2, <2>1 DEF CreateEntry, lives
    <2>2. CASE ~Configured(UserId(f))
        <3> DEFINE x == CHOOSE x \in Entries : state[x] = "absent"
        <3>1. x \in Entries /\ state[x] = "absent"
            BY <1>2, <2>2 DEF CreateEntry
        <3>2. entry' = [entry EXCEPT ![x] = flow[f].data]
            BY <1>2, <2>2 DEF CreateEntry
        <3> HIDE DEF x
        <3>3. entry[x] = NoEntry /\ entry \in [Entries -> EntryData \cup {NoEntry}]
            BY <3>1 DEF IInv, TypeOK
        <3> QED BY <3>2, <3>3
    <2> QED BY <2>1, <2>2
<1>3. ASSUME NEW f \in Flows, UpdateEntry(f)
      PROVE  Stays
    <2>1. f \in Entries /\ flow[f].data \in EntryData /\ flow[f].data.uuid = entry[f].uuid
        BY <1>3 DEF UpdateEntry, IInv, FlowsKnow, FlowKnows
    <2>2. CASE Matches(f)
        <3>1. entry' = [entry EXCEPT ![f] = flow[f].data] /\ flow[f].data.account = entry[f].account
            BY <1>3, <2>2 DEF UpdateEntry, UserId, Matches
        <3>2. entry \in [Entries -> EntryData \cup {NoEntry}]
            BY DEF IInv, TypeOK
        <3> QED BY <2>1, <3>1, <3>2, NothingIsNoData
    <2>3. CASE ~Matches(f)
        BY <1>3, <2>3 DEF UpdateEntry, lives
    <2> QED BY <2>2, <2>3
<1> QED
    BY <1>1, <1>2, <1>3
    DEF Next, vars, lives, FlowSteps, SetupSteps, UnloadSteps, ThreadSteps, Authenticate,
        StartProbe, BootstrapFails, ProbeEnds, ProbeFailed, WriteTokenFile, Prove, Start,
        Reload, PlatformsRefuse, StopBackend, RemoveTokenFile, Dismiss, Remove, BootFails,
        BootRejected, Boot, StreamEnds, Frame, Revoke, Restart

\* Sign-ins are counted up, and stay proven.
LEMMA WorldGrows ==
    ASSUME IInv, [Next]_vars
    PROVE  signIns <= signIns' /\ proven \subseteq proven'
<1>1. signIns \in Nat
    BY LifecycleAssumption DEF IInv, TypeOK
<1>2. CASE UNCHANGED <<signIns, proven>>
    BY <1>1, <1>2
<1>3. ASSUME NEW f \in Flows, NEW a \in Accounts, Authenticate(f, a)
      PROVE  signIns <= signIns' /\ proven \subseteq proven'
    BY <1>1, <1>3 DEF Authenticate
<1>4. ASSUME NEW b \in 1..MaxBackends, Frame(b)
      PROVE  signIns <= signIns' /\ proven \subseteq proven'
    BY <1>1, <1>4 DEF Frame
<1> QED
    BY <1>2, <1>3, <1>4
    DEF Next, vars, world, FlowSteps, SetupSteps, UnloadSteps, ThreadSteps,
        StartProbe, BootstrapFails, ProbeEnds, ProbeFailed, CreateEntry, UpdateEntry,
        WriteTokenFile, Prove, Start, Reload, PlatformsRefuse, StopBackend,
        RemoveTokenFile, Dismiss, Remove, BootFails, BootRejected, Boot, StreamEnds, Revoke,
        Restart

-----------------------------------------------------------------------------
(* The flows *)

\* A flow that keeps its data, and moves on or not, still knows what it knew.
LEMMA FlowMovesOn ==
    ASSUME IInv, [Next]_vars, NEW f \in Flows, flow'[f].data = flow[f].data,
           flow[f].at \in {"authenticated", "probing", "closing"} \/ flow'[f].at = flow[f].at,
           flow'[f].heard =>
               /\ flow'[f].at \in {"probing", "closing"}
               /\ flow[f].heard \/ flow[f].data.tokens \in proven'
    PROVE  FlowKnows(f)'
<1>1. FlowKnows(f) /\ signIns \in Nat /\ signIns' \in Nat
    <2>1. signIns \in Nat /\ signIns' \in Nat
        BY LifecycleAssumption, NextType DEF IInv, TypeOK
    <2> QED BY <2>1 DEF IInv, FlowsKnow
<1>2. signIns <= signIns' /\ proven \subseteq proven'
    BY WorldGrows
<1>3. flow'[f].at \in {"authenticated", "probing", "closing"} =>
         flow'[f].data \in EntryData /\ flow'[f].data.tokens <= signIns'
    <2>1. flow[f].data \in EntryData => flow[f].data.tokens \in Nat
        BY LifecycleAssumption DEF EntryData, SignInNumbers
    <2> QED BY <1>1, <1>2, <2>1 DEF FlowKnows
<1>4. flow'[f].heard => flow'[f].at \in {"probing", "closing"} /\ flow'[f].data.tokens \in proven'
    BY <1>1, <1>2 DEF FlowKnows
<1>5. f \in Entries /\ flow'[f].at # "none" =>
         /\ entry'[f] # NoEntry
         /\ flow'[f].data \in EntryData /\ flow'[f].data.uuid = entry'[f].uuid
    BY <1>1, EntriesStay DEF FlowKnows
<1> QED BY <1>3, <1>4, <1>5 DEF FlowKnows

LEMMA FlowKept ==
    ASSUME IInv, [Next]_vars, NEW f \in Flows, flow'[f] = flow[f]
    PROVE  FlowKnows(f)'
BY FlowMovesOn DEF IInv, FlowsKnow, FlowKnows

\* A form, or no flow at all.
LEMMA FlowIsForm ==
    ASSUME IInv, [Next]_vars, NEW f \in Flows,
           flow'[f].at \in {"none", "form"}, ~flow'[f].heard,
           f \in Entries /\ flow'[f].at # "none" =>
               /\ entry[f] # NoEntry
               /\ flow'[f].data \in EntryData /\ flow'[f].data.uuid = entry[f].uuid
    PROVE  FlowKnows(f)'
BY EntriesStay DEF FlowKnows

LEMMA ReauthKnows ==
    ASSUME IInv, [Next]_vars, NEW e \in Entries, Reauth(e), entry[e] # NoEntry
    PROVE  FlowsKnow'
<1> USE DEF IInv, TypeOK
<1>0. entry[e] \in EntryData /\ e \in Flows
    BY DEF Flows
<1>1. ASSUME NEW f \in Flows, f # e
      PROVE  FlowKnows(f)'
    BY <1>1, ReauthType, FlowKept
<1>2. FlowKnows(e)'
    <2>1. CASE flow'[e] = flow[e]
        BY <1>0, <2>1, FlowKept
    <2>2. CASE flow'[e].at = "form" /\ ~flow'[e].heard /\ flow'[e].data = entry[e]
        BY <1>0, <2>2, FlowIsForm
    <2> QED BY <2>1, <2>2, ReauthType
<1> QED BY <1>1, <1>2 DEF FlowsKnow

LEMMA FlowStepKnows ==
    ASSUME IInv, [Next]_vars, NEW f \in Flows,
           FlowSteps(f) \/ \E a \in Accounts : Authenticate(f, a)
    PROVE  FlowsKnow'
<1>0. flow \in [Flows -> FlowStates] /\ FlowKnows(f)
    BY DEF IInv, TypeOK, FlowsKnow
<1>1. ASSUME NEW r, flow' = [flow EXCEPT ![f] = r], FlowKnows(f)'
      PROVE  FlowsKnow'
    BY <1>0, <1>1, FlowKept DEF FlowsKnow
<1>2. ASSUME NEW a \in Accounts, Authenticate(f, a)
      PROVE  FlowsKnow'
    <2>1. PICK r \in FlowStates :
            /\ flow' = [flow EXCEPT ![f] = r]
            /\ r.at = "authenticated" /\ ~r.heard
            /\ r.data = [account |-> a, uuid |-> DeviceUuid(f), tokens |-> signIns + 1]
            /\ r.data \in EntryData
        BY <1>2, SignInType
    <2>2. flow'[f] = r
        BY <1>0, <2>1
    <2>3. flow[f].at = "form" /\ signIns' = signIns + 1 /\ signIns' \in Nat /\ UNCHANGED entry
        <3>1. flow[f].at = "form" /\ signIns' = signIns + 1 /\ signIns' \in 1..MaxSignIns
            BY <1>2, SignInType
        <3>2. UNCHANGED entry
            BY <1>2 DEF Authenticate, lives
        <3> QED BY <3>1, <3>2, LifecycleAssumption
    <2>4. r.data.tokens <= signIns'
        BY <2>1, <2>3
    <2>5. f \in Entries => entry'[f] # NoEntry /\ r.data.uuid = entry'[f].uuid
        BY <1>0, <2>1, <2>3 DEF FlowKnows, DeviceUuid
    <2>6. FlowKnows(f)'
        BY <2>1, <2>2, <2>4, <2>5 DEF FlowKnows
    <2> QED BY <1>1, <2>1, <2>6
<1>3. CASE StartProbe(f)
    <2>1. PICK b \in 1..MaxBackends : flow' = [flow EXCEPT ![f].at = "probing", ![f].probe = b]
        BY <1>3 DEF StartProbe
    <2>2. flow[f] \in FlowStates /\ flow[f].at = "authenticated" /\ ~flow[f].heard
        BY <1>0, <1>3 DEF StartProbe, FlowKnows
    <2>3. flow'[f].data = flow[f].data /\ flow'[f].heard = flow[f].heard
        BY <1>0, <2>1, <2>2 DEF FlowStates
    <2>4. FlowKnows(f)'
        BY <2>2, <2>3, FlowMovesOn
    <2>5. \A g \in Flows : g # f => flow'[g] = flow[g]
        BY <1>0, <2>1
    <2> QED BY <2>4, <2>5, FlowKept DEF FlowsKnow
<1>4. CASE BootstrapFails(f) \/ ProbeFailed(f)
    <2>1. flow' = [flow EXCEPT ![f] = Reopened(f)]
          /\ flow[f].at \in {"authenticated", "closing"}
        BY <1>4 DEF BootstrapFails, ProbeFailed
    <2>2. FlowKnows(f)'
        <3>1. flow'[f] = Reopened(f)
            BY <1>0, <2>1
        <3>2. Reopened(f).at = "form" /\ ~Reopened(f).heard
              /\ (f \in Entries => Reopened(f).data = flow[f].data)
            BY ReopenedType DEF IInv
        <3> QED BY <1>0, <2>1, <3>1, <3>2, FlowIsForm DEF FlowKnows
    <2> QED BY <1>1, <2>1, <2>2
<1>5. CASE ProbeEnds(f)
    <2>1. flow' = [flow EXCEPT ![f].at = "closing"] /\ flow[f].at = "probing"
        BY <1>5 DEF ProbeEnds
    <2>2. flow'[f].at = "closing" /\ flow'[f].data = flow[f].data /\ flow'[f].heard = flow[f].heard
        BY <1>0, <2>1 DEF FlowStates
    <2>3. FlowKnows(f)'
        BY <2>1, <2>2, FlowMovesOn
    <2>4. \A g \in Flows : g # f => flow'[g] = flow[g]
        BY <1>0, <2>1
    <2> QED BY <2>3, <2>4, FlowKept DEF FlowsKnow
<1>6. CASE CreateEntry(f) \/ UpdateEntry(f)
    <2>1. flow' = [flow EXCEPT ![f] = Closed(f)]
        BY <1>6 DEF CreateEntry, UpdateEntry
    <2>2. flow'[f] = Closed(f)
        BY <1>0, <2>1
    <2>3. FlowKnows(f)'
        BY <2>2, ClosedType, FlowIsForm
    <2> QED BY <1>1, <2>1, <2>3
<1> QED BY <1>2, <1>3, <1>4, <1>5, <1>6 DEF FlowSteps

LEMMA NextFlows == IInv /\ [Next]_vars => FlowsKnow'
<1> SUFFICES ASSUME IInv, [Next]_vars PROVE FlowsKnow'
    OBVIOUS
<1>0. flow \in [Flows -> FlowStates] /\ Entries \subseteq Flows
    BY DEF IInv, TypeOK, Flows
<1>1. CASE UNCHANGED flow
    BY <1>1, FlowKept DEF FlowsKnow
<1>2. ASSUME NEW e \in Entries, Prove(e)
      PROVE  FlowsKnow'
    <2>1. entry[e] # NoEntry
        BY <1>2 DEF Prove, IInv, TypeOK
    <2> QED BY <1>1, <1>2, <2>1, ReauthKnows DEF Prove
<1>3. ASSUME NEW e \in Entries, Dismiss(e) \/ Remove(e), ~UNCHANGED flow
      PROVE  FlowsKnow'
    <2>1. flow' = [flow EXCEPT ![e] = NoFlow] /\ NoFlow.at = "none" /\ ~NoFlow.heard
        BY <1>0, <1>3, ClosedType DEF Dismiss, Remove
    <2>2. ASSUME NEW f \in Flows, f # e
          PROVE  FlowKnows(f)'
        BY <2>1, <2>2, <1>0, FlowKept
    <2>3. FlowKnows(e)'
        BY <2>1, <1>0, FlowIsForm
    <2> QED BY <2>2, <2>3 DEF FlowsKnow
<1>4. ASSUME NEW b \in 1..MaxBackends, BootRejected(b)
      PROVE  FlowsKnow'
    <2>1. backend[b].of \in Entries /\ entry[backend[b].of] # NoEntry
        BY <1>4 DEF BootRejected, IsTold, IInv, WaitsAreMet, NoBackend
    <2> QED BY <1>1, <1>4, <2>1, ReauthKnows DEF BootRejected
<1>5. ASSUME NEW b \in 1..MaxBackends, Frame(b)
      PROVE  FlowsKnow'
    <2>1. PICK f \in Flows : f = backend[b].of /\ flow[f].at = "probing"
        BY <1>5, NothingIsNoData DEF Frame, IInv, TypeOK, NoStrayBackend, Running, NoBackend
    <2>2. flow' = [flow EXCEPT ![f].heard = TRUE] /\ flow[f].data.tokens \in proven'
        BY <1>5, <2>1 DEF Frame
    <2>3. flow'[f].at = flow[f].at /\ flow'[f].data = flow[f].data
        BY <1>0, <2>1, <2>2 DEF FlowStates
    <2>4. FlowKnows(f)'
        <3>1. flow'[f].at = "probing" /\ flow[f].data.tokens \in proven'
            BY <2>1, <2>2, <2>3
        <3> QED BY <2>3, <3>1, FlowMovesOn
    <2>5. ASSUME NEW g \in Flows, g # f
          PROVE  FlowKnows(g)'
        <3>1. flow'[g] = flow[g]
            BY <1>0, <2>1, <2>2, <2>5
        <3> QED BY <3>1, FlowKept
    <2> QED BY <2>4, <2>5 DEF FlowsKnow
<1>6. CASE Restart
    <2>1. \A f \in Flows : flow'[f] = Closed(f)
        BY <1>6 DEF Restart
    <2> QED BY <2>1, ClosedType, FlowIsForm DEF FlowsKnow
<1>7. ASSUME NEW f \in Flows, FlowSteps(f) \/ \E a \in Accounts : Authenticate(f, a)
      PROVE  FlowsKnow'
    BY <1>7, FlowStepKnows
<1> QED
    BY <1>1, <1>2, <1>3, <1>4, <1>5, <1>6, <1>7
    DEF Next, vars, SetupSteps, UnloadSteps, ThreadSteps, WriteTokenFile, Start, Reload,
        PlatformsRefuse, StopBackend, RemoveTokenFile, BootFails, Boot, StreamEnds, Revoke

-----------------------------------------------------------------------------
(* The backends and those who wait on them *)

Fed == {"loaded", "unloading", "failed_unload", "orphaned"}

\* Nobody starts or stops waiting.
SameWaits ==
    /\ UNCHANGED feed
    /\ \A e \in Entries : state'[e] \in Fed <=> state[e] \in Fed
    /\ \A f \in Flows : /\ flow'[f].at = "probing" <=> flow[f].at = "probing"
                        /\ flow[f].at = "probing" => flow'[f].probe = flow[f].probe

\* A thread that goes on, or exits after its stop.
LEMMA ThreadGoesOn ==
    ASSUME IInv, [Next]_vars, SameWaits, NEW b \in 1..MaxBackends,
           \A i \in 1..MaxBackends : i # b => backend'[i] = backend[i],
           \/ backend'[b] = backend[b]
           \/ backend'[b] = NoBackend /\ backend[b].stop
           \/ /\ backend[b] # NoBackend /\ backend'[b] # NoBackend
              /\ backend'[b].of = backend[b].of /\ backend'[b].probe = backend[b].probe
              /\ backend'[b].stop = backend[b].stop
    PROVE  WaitsAreMet' /\ NoStrayBackend'
<1>1. ASSUME NEW o, NEW p, NEW i, Runs(i, o, p)
      PROVE  Runs(i, o, p)'
    BY <1>1 DEF Runs
<1>2. ASSUME NEW i \in 1..MaxBackends, backend'[i] # NoBackend
      PROVE  /\ backend[i] # NoBackend
             /\ backend'[i].of = backend[i].of /\ backend'[i].probe = backend[i].probe
             /\ backend'[i].stop = backend[i].stop
    BY <1>2
<1>3. \A f \in Flows : flow'[f].at = "probing" => Runs(flow[f].probe, f, TRUE)'
    BY <1>1 DEF SameWaits, IInv, WaitsAreMet
<1>4. \A e \in Entries : feed'[e] # 0 <=> state'[e] \in Fed
    BY DEF SameWaits, IInv, WaitsAreMet, Fed
<1>5. \A e \in Entries : feed'[e] # 0 => Runs(feed[e], e, FALSE)'
    BY <1>1 DEF SameWaits, IInv, WaitsAreMet
<1>6. \A i \in 1..MaxBackends : backend'[i] # NoBackend /\ ~backend'[i].probe =>
         backend'[i].of \in Entries /\ entry'[backend'[i].of] # NoEntry
    BY <1>2, EntriesStay DEF IInv, WaitsAreMet
<1>7. WaitsAreMet'
    <2>1. \A f \in Flows : flow'[f].at = "probing" => Runs(flow[f].probe, f, TRUE)'
                                                      /\ flow'[f].probe = flow[f].probe
        BY <1>3 DEF SameWaits
    <2>2. UNCHANGED feed
        BY DEF SameWaits
    <2> QED BY <1>4, <1>5, <1>6, <2>1, <2>2 DEF WaitsAreMet, Runs, Fed
<1>8. NoStrayBackend'
    <2> SUFFICES ASSUME NEW i \in 1..MaxBackends, backend'[i] # NoBackend, ~backend'[i].stop
                 PROVE  IF backend'[i].probe
                        THEN flow'[backend'[i].of].at = "probing"
                             /\ flow'[backend'[i].of].probe = i
                        ELSE feed'[backend'[i].of] = i
        BY DEF NoStrayBackend
    <2>1. IF backend[i].probe
          THEN flow[backend[i].of].at = "probing" /\ flow[backend[i].of].probe = i
          ELSE feed[backend[i].of] = i
        BY <1>2 DEF IInv, NoStrayBackend
    <2>2. backend[i].of \in Flows
        BY <1>2 DEF IInv, TypeOK, Running
    <2> QED BY <1>2, <2>1, <2>2 DEF SameWaits
<1> QED BY <1>7, <1>8

LEMMA WaitsKept ==
    ASSUME IInv, [Next]_vars, SameWaits, UNCHANGED backend
    PROVE  WaitsAreMet' /\ NoStrayBackend'
<1>1. 1 \in 1..MaxBackends
    BY LifecycleAssumption
<1> QED BY <1>1, ThreadGoesOn

\* A new thread is put where there was none, so nobody else waited on it.
LEMMA StartsRun ==
    ASSUME IInv, NEW b \in 1..MaxBackends, backend[b] = NoBackend,
           NEW f \in Flows, NEW p \in BOOLEAN,
           backend' = [backend EXCEPT ![b] = Started(f, p)]
    PROVE  /\ Runs(b, f, p)'
           /\ \A i, o, q : Runs(i, o, q) => i # b /\ Runs(i, o, q)'
<1>1. backend \in [1..MaxBackends -> Running \cup {NoBackend}]
    BY DEF IInv, TypeOK
<1>2. backend'[b] = Started(f, p)
    BY <1>1
<1>3. Runs(b, f, p)'
    BY <1>2, StartedType, NothingIsNoData DEF Runs
<1> QED BY <1>1, <1>3 DEF Runs

\* A stop is for one owner only.
LEMMA StopStops ==
    ASSUME IInv, NEW b \in 1..MaxBackends, backend[b] # NoBackend,
           backend' = [backend EXCEPT ![b].stop = TRUE]
    PROVE  /\ \A i \in 1..MaxBackends : i # b => backend'[i] = backend[i]
           /\ backend'[b].stop
           /\ backend'[b].of = backend[b].of /\ backend'[b].probe = backend[b].probe
<1>1. backend \in [1..MaxBackends -> Running \cup {NoBackend}] /\ backend[b] \in Running
    BY DEF IInv, TypeOK
<1>2. backend'[b] = [backend[b] EXCEPT !.stop = TRUE]
    BY <1>1
<1>3. /\ backend'[b].stop
      /\ backend'[b].of = backend[b].of /\ backend'[b].probe = backend[b].probe
    BY <1>1, <1>2 DEF Running
<1>4. \A i \in 1..MaxBackends : i # b => backend'[i] = backend[i]
    BY <1>1
<1> QED BY <1>3, <1>4

LEMMA StartProbeWaits ==
    ASSUME IInv, [Next]_vars, NEW f \in Flows, StartProbe(f)
    PROVE  WaitsAreMet' /\ NoStrayBackend'
<1>0. flow \in [Flows -> FlowStates] /\ flow[f].at = "authenticated"
      /\ backend \in [1..MaxBackends -> Running \cup {NoBackend}]
    BY DEF StartProbe, IInv, TypeOK
<1>1. PICK b \in 1..MaxBackends :
        /\ backend[b] = NoBackend
        /\ backend' = [backend EXCEPT ![b] = Started(f, TRUE)]
        /\ flow' = [flow EXCEPT ![f].at = "probing", ![f].probe = b]
    BY DEF StartProbe, IsNew
<1>2. flow'[f].at = "probing" /\ flow'[f].probe = b
      /\ \A g \in Flows : g # f => flow'[g] = flow[g]
    BY <1>0, <1>1 DEF FlowStates
<1>3. UNCHANGED <<entry, state, feed>>
    BY DEF StartProbe, lives
<1>4. Runs(b, f, TRUE)' /\ \A i, o, q : Runs(i, o, q) => i # b /\ Runs(i, o, q)'
    BY <1>1, StartsRun
<1>5. backend'[b] = Started(f, TRUE) /\ \A i \in 1..MaxBackends : i # b => backend'[i] = backend[i]
    BY <1>0, <1>1
<1>6. WaitsAreMet'
    <2>1. ASSUME NEW g \in Flows, flow'[g].at = "probing"
          PROVE  Runs(flow[g].probe, g, TRUE)'
        <3>1. CASE g = f
            BY <1>2, <1>4, <3>1 DEF Runs
        <3>2. CASE g # f
            <4>1. Runs(flow[g].probe, g, TRUE) /\ flow'[g].probe = flow[g].probe
                BY <1>2, <2>1, <3>2 DEF IInv, WaitsAreMet
            <4> QED BY <1>4, <4>1 DEF Runs
        <3> QED BY <3>1, <3>2
    <2>2. ASSUME NEW e \in Entries
          PROVE  /\ feed'[e] # 0 <=> state'[e] \in {"loaded", "unloading", "failed_unload", "orphaned"}
                 /\ feed'[e] # 0 => Runs(feed[e], e, FALSE)'
        <3>1. feed'[e] # 0 => Runs(feed[e], e, FALSE)
            BY <1>3 DEF IInv, WaitsAreMet
        <3>2. feed'[e] # 0 => Runs(feed[e], e, FALSE)'
            BY <1>3, <1>4, <3>1 DEF Runs
        <3> QED BY <1>3, <3>2 DEF IInv, WaitsAreMet
    <2>3. ASSUME NEW i \in 1..MaxBackends, backend'[i] # NoBackend, ~backend'[i].probe
          PROVE  backend'[i].of \in Entries /\ entry'[backend'[i].of] # NoEntry
        <3>1. i # b
            BY <1>5, <2>3, StartedType
        <3>2. backend'[i] = backend[i]
            BY <1>5, <3>1
        <3> QED BY <1>3, <2>3, <3>2 DEF IInv, WaitsAreMet, NoBackend
    <2> QED BY <2>1, <2>2, <2>3 DEF WaitsAreMet
<1>7. NoStrayBackend'
    <2> SUFFICES ASSUME NEW i \in 1..MaxBackends, backend'[i] # NoBackend, ~backend'[i].stop
                 PROVE  IF backend'[i].probe
                        THEN flow'[backend'[i].of].at = "probing"
                             /\ flow'[backend'[i].of].probe = i
                        ELSE feed'[backend'[i].of] = i
        BY DEF NoStrayBackend
    <2>1. CASE i = b
        BY <1>2, <1>5, <2>1, StartedType
    <2>2. CASE i # b
        <3>1. backend'[i] = backend[i] /\ backend[i].of \in Flows
            BY <1>0, <1>5, <2>2 DEF Running
        <3> QED BY <1>0, <1>2, <1>3, <3>1 DEF IInv, NoStrayBackend
    <2> QED BY <2>1, <2>2
<1> QED BY <1>6, <1>7

LEMMA StartWaits ==
    ASSUME IInv, [Next]_vars, NEW e \in Entries, Start(e)
    PROVE  WaitsAreMet' /\ NoStrayBackend'
<1>0. e \in Flows /\ feed \in [Entries -> 0..MaxBackends] /\ state \in [Entries -> States]
      /\ backend \in [1..MaxBackends -> Running \cup {NoBackend}]
    BY DEF Flows, IInv, TypeOK
<1>1. PICK b \in 1..MaxBackends :
        /\ backend[b] = NoBackend
        /\ backend' = [backend EXCEPT ![b] = Started(e, FALSE)]
        /\ feed' = [feed EXCEPT ![e] = b]
    BY DEF Start, IsNew
<1>2. state[e] = "starting" /\ state' = [state EXCEPT ![e] = "loaded"]
      /\ UNCHANGED <<entry, flow>>
    BY DEF Start, Goes
<1>3. entry[e] # NoEntry
    BY <1>2 DEF IInv, TypeOK
<1>4. Runs(b, e, FALSE)' /\ \A i, o, q : Runs(i, o, q) => i # b /\ Runs(i, o, q)'
    BY <1>0, <1>1, StartsRun
<1>5. backend'[b] = Started(e, FALSE) /\ \A i \in 1..MaxBackends : i # b => backend'[i] = backend[i]
    BY <1>0, <1>1
<1>6. feed'[e] = b /\ state'[e] = "loaded"
      /\ \A x \in Entries : x # e => feed'[x] = feed[x] /\ state'[x] = state[x]
    BY <1>0, <1>1, <1>2
<1>7. WaitsAreMet'
    <2>1. ASSUME NEW g \in Flows, flow'[g].at = "probing"
          PROVE  Runs(flow[g].probe, g, TRUE)'
        <3>1. Runs(flow[g].probe, g, TRUE)
            BY <1>2, <2>1 DEF IInv, WaitsAreMet
        <3> QED BY <1>2, <1>4, <3>1 DEF Runs
    <2>2. ASSUME NEW x \in Entries
          PROVE  /\ feed'[x] # 0 <=> state'[x] \in {"loaded", "unloading", "failed_unload", "orphaned"}
                 /\ feed'[x] # 0 => Runs(feed[x], x, FALSE)'
        <3>1. CASE x = e
            BY <1>4, <1>6, <3>1 DEF Runs
        <3>2. CASE x # e
            <4>1. feed'[x] # 0 => Runs(feed[x], x, FALSE)
                BY <1>6, <3>2 DEF IInv, WaitsAreMet
            <4>2. feed'[x] # 0 => Runs(feed[x], x, FALSE)'
                BY <1>4, <1>6, <3>2, <4>1 DEF Runs
            <4> QED BY <1>6, <3>2, <4>2 DEF IInv, WaitsAreMet
        <3> QED BY <3>1, <3>2
    <2>3. ASSUME NEW i \in 1..MaxBackends, backend'[i] # NoBackend, ~backend'[i].probe
          PROVE  backend'[i].of \in Entries /\ entry'[backend'[i].of] # NoEntry
        <3>1. CASE i = b
            BY <1>0, <1>2, <1>3, <1>5, <3>1, StartedType
        <3>2. CASE i # b
            <4>1. backend'[i] = backend[i]
                BY <1>5, <3>2
            <4> QED BY <1>2, <2>3, <4>1 DEF IInv, WaitsAreMet, NoBackend
        <3> QED BY <3>1, <3>2
    <2> QED BY <2>1, <2>2, <2>3 DEF WaitsAreMet
<1>8. NoStrayBackend'
    <2> SUFFICES ASSUME NEW i \in 1..MaxBackends, backend'[i] # NoBackend, ~backend'[i].stop
                 PROVE  IF backend'[i].probe
                        THEN flow'[backend'[i].of].at = "probing"
                             /\ flow'[backend'[i].of].probe = i
                        ELSE feed'[backend'[i].of] = i
        BY DEF NoStrayBackend
    <2>1. CASE i = b
        BY <1>0, <1>5, <1>6, <2>1, StartedType
    <2>2. CASE i # b
        <3>1. backend'[i] = backend[i]
            BY <1>5, <2>2
        <3>2. CASE backend[i].probe
            BY <1>2, <3>1, <3>2 DEF IInv, NoStrayBackend
        <3>3. CASE ~backend[i].probe
            <4>1. backend[i].of \in Entries /\ feed[backend[i].of] = i
                BY <3>1, <3>3 DEF IInv, NoStrayBackend, WaitsAreMet
            <4>2. feed[e] = 0
                BY <1>2 DEF IInv, WaitsAreMet
            <4>3. backend[i].of # e
                BY <4>1, <4>2
            <4> QED BY <1>6, <3>1, <3>3, <4>1, <4>3
        <3> QED BY <3>2, <3>3
    <2> QED BY <2>1, <2>2
<1> QED BY <1>7, <1>8

LEMMA ProbeEndsWaits ==
    ASSUME IInv, [Next]_vars, NEW f \in Flows, ProbeEnds(f)
    PROVE  WaitsAreMet' /\ NoStrayBackend'
<1>0. flow \in [Flows -> FlowStates] /\ flow[f].at = "probing"
      /\ backend \in [1..MaxBackends -> Running \cup {NoBackend}]
    BY DEF ProbeEnds, IInv, TypeOK
<1>1. PICK b \in 1..MaxBackends : b = flow[f].probe /\ Runs(b, f, TRUE)
    BY <1>0 DEF IInv, WaitsAreMet, Runs
<1>2. /\ backend' = [backend EXCEPT ![b].stop = TRUE]
      /\ flow' = [flow EXCEPT ![f].at = "closing"]
      /\ UNCHANGED <<entry, state, feed>>
    BY <1>1 DEF ProbeEnds, lives
<1>3. flow'[f].at = "closing" /\ \A g \in Flows : g # f => flow'[g] = flow[g]
    BY <1>0, <1>2 DEF FlowStates
<1>4. /\ \A i \in 1..MaxBackends : i # b => backend'[i] = backend[i]
      /\ backend'[b].stop /\ backend'[b].of = f /\ backend'[b].probe = TRUE
    BY <1>1, <1>2, StopStops DEF Runs
<1>5. WaitsAreMet'
    <2>1. ASSUME NEW g \in Flows, flow'[g].at = "probing"
          PROVE  Runs(flow[g].probe, g, TRUE)' /\ flow'[g].probe = flow[g].probe
        <3>1. g # f /\ flow'[g] = flow[g]
            BY <1>3, <2>1
        <3>2. Runs(flow[g].probe, g, TRUE)
            BY <2>1, <3>1 DEF IInv, WaitsAreMet
        <3> QED BY <1>1, <1>4, <3>1, <3>2 DEF Runs
    <2>2. ASSUME NEW e \in Entries
          PROVE  /\ feed'[e] # 0 <=> state'[e] \in {"loaded", "unloading", "failed_unload", "orphaned"}
                 /\ feed'[e] # 0 => Runs(feed[e], e, FALSE)'
        <3>1. feed'[e] # 0 => Runs(feed[e], e, FALSE)
            BY <1>2 DEF IInv, WaitsAreMet
        <3>2. feed'[e] # 0 => Runs(feed[e], e, FALSE)'
            BY <1>1, <1>2, <1>4, <3>1 DEF Runs
        <3> QED BY <1>2, <3>2 DEF IInv, WaitsAreMet
    <2>3. ASSUME NEW i \in 1..MaxBackends, backend'[i] # NoBackend, ~backend'[i].probe
          PROVE  backend'[i].of \in Entries /\ entry'[backend'[i].of] # NoEntry
        <3>1. backend'[i] = backend[i]
            BY <1>4, <2>3
        <3> QED BY <1>2, <2>3, <3>1 DEF IInv, WaitsAreMet, NoBackend
    <2> QED BY <2>1, <2>2, <2>3 DEF WaitsAreMet, Runs
<1>6. NoStrayBackend'
    <2> SUFFICES ASSUME NEW i \in 1..MaxBackends, backend'[i] # NoBackend, ~backend'[i].stop
                 PROVE  IF backend'[i].probe
                        THEN flow'[backend'[i].of].at = "probing"
                             /\ flow'[backend'[i].of].probe = i
                        ELSE feed'[backend'[i].of] = i
        BY DEF NoStrayBackend
    <2>1. i # b /\ backend'[i] = backend[i] /\ backend[i].of \in Flows
        BY <1>0, <1>4 DEF Running
    <2>2. CASE backend[i].probe
        <3>1. flow[backend[i].of].at = "probing" /\ flow[backend[i].of].probe = i
            BY <2>1, <2>2 DEF IInv, NoStrayBackend
        <3>2. backend[i].of # f
            BY <1>1, <2>1, <3>1
        <3> QED BY <1>3, <2>1, <2>2, <3>1, <3>2
    <2>3. CASE ~backend[i].probe
        BY <1>2, <2>1, <2>3 DEF IInv, NoStrayBackend
    <2> QED BY <2>2, <2>3
<1> QED BY <1>5, <1>6

LEMMA StopBackendWaits ==
    ASSUME IInv, [Next]_vars, NEW e \in Entries, StopBackend(e)
    PROVE  WaitsAreMet' /\ NoStrayBackend'
<1>0. feed \in [Entries -> 0..MaxBackends] /\ state \in [Entries -> States]
      /\ state[e] = "unloading"
      /\ backend \in [1..MaxBackends -> Running \cup {NoBackend}]
    BY DEF StopBackend, IInv, TypeOK
<1>1. PICK b \in 1..MaxBackends : b = feed[e] /\ Runs(b, e, FALSE)
    BY <1>0 DEF IInv, WaitsAreMet, Runs
<1>2. /\ backend' = [backend EXCEPT ![b].stop = TRUE]
      /\ feed' = [feed EXCEPT ![e] = 0] /\ state' = [state EXCEPT ![e] = "stopping"]
      /\ UNCHANGED <<entry, flow>>
    BY <1>1 DEF StopBackend, Goes
<1>3. feed'[e] = 0 /\ state'[e] = "stopping"
      /\ \A x \in Entries : x # e => feed'[x] = feed[x] /\ state'[x] = state[x]
    BY <1>0, <1>2
<1>4. /\ \A i \in 1..MaxBackends : i # b => backend'[i] = backend[i]
      /\ backend'[b].stop /\ backend'[b].of = e /\ backend'[b].probe = FALSE
    BY <1>1, <1>2, StopStops DEF Runs
<1>5. WaitsAreMet'
    <2>1. ASSUME NEW g \in Flows, flow'[g].at = "probing"
          PROVE  Runs(flow[g].probe, g, TRUE)'
        <3>1. Runs(flow[g].probe, g, TRUE)
            BY <1>2, <2>1 DEF IInv, WaitsAreMet
        <3> QED BY <1>1, <1>2, <1>4, <3>1 DEF Runs
    <2>2. ASSUME NEW x \in Entries
          PROVE  /\ feed'[x] # 0 <=> state'[x] \in {"loaded", "unloading", "failed_unload", "orphaned"}
                 /\ feed'[x] # 0 => Runs(feed[x], x, FALSE)' /\ feed'[x] = feed[x]
        <3>1. CASE x = e
            BY <1>3, <3>1
        <3>2. CASE x # e
            <4>1. feed[x] # 0 => Runs(feed[x], x, FALSE)
                BY DEF IInv, WaitsAreMet
            <4>2. feed[x] # 0 => Runs(feed[x], x, FALSE)'
                <5>1. feed[x] # 0 => backend'[feed[x]] = backend[feed[x]]
                    BY <1>1, <1>4, <3>2, <4>1 DEF Runs
                <5> QED BY <1>3, <3>2, <4>1, <5>1 DEF Runs
            <4> QED BY <1>3, <3>2, <4>2 DEF IInv, WaitsAreMet
        <3> QED BY <3>1, <3>2
    <2>3. ASSUME NEW i \in 1..MaxBackends, backend'[i] # NoBackend, ~backend'[i].probe
          PROVE  backend'[i].of \in Entries /\ entry'[backend'[i].of] # NoEntry
        <3>1. CASE i = b
            BY <1>1, <1>2, <1>4, <3>1 DEF IInv, WaitsAreMet, Runs
        <3>2. CASE i # b
            <4>1. backend'[i] = backend[i]
                BY <1>4, <3>2
            <4> QED BY <1>2, <2>3, <4>1 DEF IInv, WaitsAreMet, NoBackend
        <3> QED BY <3>1, <3>2
    <2> QED BY <2>1, <2>2, <2>3 DEF WaitsAreMet
<1>6. NoStrayBackend'
    <2> SUFFICES ASSUME NEW i \in 1..MaxBackends, backend'[i] # NoBackend, ~backend'[i].stop
                 PROVE  IF backend'[i].probe
                        THEN flow'[backend'[i].of].at = "probing"
                             /\ flow'[backend'[i].of].probe = i
                        ELSE feed'[backend'[i].of] = i
        BY DEF NoStrayBackend
    <2>1. i # b /\ backend'[i] = backend[i]
        BY <1>4
    <2>2. CASE backend[i].probe
        BY <1>2, <2>1, <2>2 DEF IInv, NoStrayBackend
    <2>3. CASE ~backend[i].probe
        <3>1. backend[i].of \in Entries /\ feed[backend[i].of] = i
            BY <2>1, <2>3 DEF IInv, NoStrayBackend, WaitsAreMet
        <3>2. backend[i].of # e
            BY <1>1, <2>1, <3>1
        <3> QED BY <1>3, <2>1, <2>3, <3>1, <3>2
    <2> QED BY <2>2, <2>3
<1> QED BY <1>5, <1>6

LEMMA ThreadWaits ==
    ASSUME IInv, [Next]_vars, NEW b \in 1..MaxBackends, ThreadSteps(b)
    PROVE  WaitsAreMet' /\ NoStrayBackend'
<1>0. backend[b] \in Running /\ backend \in [1..MaxBackends -> Running \cup {NoBackend}]
    BY DEF IInv, TypeOK, ThreadSteps, BootFails, BootRejected, Boot, StreamEnds, NoBackend
<1>1. PICK n : /\ backend' = [backend EXCEPT ![b] = n]
               /\ \/ n = NoBackend /\ backend[b].stop
                  \/ n \in Running /\ n.of = backend[b].of /\ n.probe = backend[b].probe
                     /\ n.stop = backend[b].stop
    <2>1. ASSUME NEW t \in {"booting", "streaming"}
          PROVE  LET r == [backend[b] EXCEPT !.thread = t] IN
                 r \in Running /\ r.of = backend[b].of /\ r.probe = backend[b].probe
                 /\ r.stop = backend[b].stop
        BY <1>0 DEF Running
    <2>2. LET r == [backend[b] EXCEPT !.reported = TRUE] IN
          r \in Running /\ r.of = backend[b].of /\ r.probe = backend[b].probe
          /\ r.stop = backend[b].stop
        BY <1>0 DEF Running
    <2> QED BY <1>0, <2>1, <2>2
            DEF ThreadSteps, BootFails, BootRejected, Boot, StreamEnds, LoopOn
<1>2. /\ \A i \in 1..MaxBackends : i # b => backend'[i] = backend[i]
      /\ backend'[b] = n
    BY <1>0, <1>1
<1>3. SameWaits
    <2>1. CASE UNCHANGED <<feed, state, flow>>
        BY <2>1 DEF SameWaits
    <2>2. ASSUME NEW e \in Entries, Reauth(e), UNCHANGED <<feed, state>>
          PROVE  SameWaits
        BY <2>2, ReauthType DEF SameWaits, IInv
    <2>3. CASE BootRejected(b)
        <3>1. backend[b].of \in Entries
            BY <1>0, <2>3, NothingIsNoData DEF BootRejected, IsTold, IInv, WaitsAreMet
        <3> QED BY <2>1, <2>2, <2>3, <3>1 DEF BootRejected, lives
    <2> QED BY <2>1, <2>3 DEF ThreadSteps, BootFails, Boot, StreamEnds, lives
<1> QED BY <1>0, <1>1, <1>2, <1>3, ThreadGoesOn, NothingIsNoData

\* The steps in which nobody starts or stops waiting.
LEMMA FlowStepWaits ==
    ASSUME IInv, [Next]_vars, NEW f \in Flows,
           \/ BootstrapFails(f) \/ ProbeFailed(f) \/ CreateEntry(f) \/ UpdateEntry(f)
           \/ \E a \in Accounts : Authenticate(f, a)
    PROVE  WaitsAreMet' /\ NoStrayBackend'
<1>0. flow \in [Flows -> FlowStates]
    BY DEF IInv, TypeOK
<1>1. flow[f].at # "probing" /\ UNCHANGED <<backend, feed>>
    BY DEF BootstrapFails, ProbeFailed, CreateEntry, UpdateEntry, Authenticate, lives
<1>2. flow'[f].at # "probing" /\ \A g \in Flows : g # f => flow'[g] = flow[g]
    <2>1. ASSUME NEW a \in Accounts, Authenticate(f, a)
          PROVE  \E r : flow' = [flow EXCEPT ![f] = r] /\ r.at # "probing"
        BY <2>1, SignInType
    <2>2. ASSUME BootstrapFails(f) \/ ProbeFailed(f)
          PROVE  \E r : flow' = [flow EXCEPT ![f] = r] /\ r.at # "probing"
        <3>1. Reopened(f).at # "probing"
            BY ReopenedType DEF IInv
        <3> QED BY <2>2, <3>1 DEF BootstrapFails, ProbeFailed
    <2>3. ASSUME CreateEntry(f) \/ UpdateEntry(f)
          PROVE  \E r : flow' = [flow EXCEPT ![f] = r] /\ r.at # "probing"
        <3>1. Closed(f).at # "probing"
            BY ClosedType
        <3> QED BY <2>3, <3>1 DEF CreateEntry, UpdateEntry
    <2>4. PICK r : flow' = [flow EXCEPT ![f] = r] /\ r.at # "probing"
        BY <2>1, <2>2, <2>3
    <2> QED BY <1>0, <2>4
<1>3. \A e \in Entries : state'[e] \in Fed <=> state[e] \in Fed
    <2>1. CASE UNCHANGED state
        BY <2>1
    <2>2. CASE CreateEntry(f) /\ ~Configured(UserId(f))
        <3> DEFINE x == CHOOSE x \in Entries : state[x] = "absent"
        <3>1. x \in Entries /\ state[x] = "absent"
            BY <2>2 DEF CreateEntry
        <3>2. state' = [state EXCEPT ![x] = "not_loaded"]
            BY <2>2 DEF CreateEntry, Goes
        <3>3. state \in [Entries -> States]
            BY DEF IInv, TypeOK
        <3> HIDE DEF x
        <3> QED BY <3>1, <3>2, <3>3 DEF Fed
    <2> QED BY <2>1, <2>2 DEF BootstrapFails, ProbeFailed, CreateEntry, UpdateEntry,
                              Authenticate, lives
<1> QED BY <1>1, <1>2, <1>3, WaitsKept DEF SameWaits

LEMMA EntryStepWaits ==
    ASSUME IInv, [Next]_vars, NEW e \in Entries,
           \/ WriteTokenFile(e) \/ Prove(e) \/ Reload(e) \/ PlatformsRefuse(e)
           \/ RemoveTokenFile(e) \/ Dismiss(e) \/ Remove(e) \/ Revoke(e)
    PROVE  WaitsAreMet' /\ NoStrayBackend'
<1>0. flow \in [Flows -> FlowStates] /\ state \in [Entries -> States] /\ e \in Flows
    BY DEF IInv, TypeOK, Flows
<1>1. UNCHANGED <<backend, feed>>
    BY DEF WriteTokenFile, Prove, Reload, PlatformsRefuse, RemoveTokenFile, Dismiss, Remove, Revoke,
           lives
<1>2. \A x \in Entries : state'[x] \in Fed <=> state[x] \in Fed
    <2>1. CASE UNCHANGED state
        BY <2>1
    <2>2. ASSUME NEW n, Goes(e, n), n \in Fed <=> state[e] \in Fed
          PROVE  \A x \in Entries : state'[x] \in Fed <=> state[x] \in Fed
        BY <1>0, <2>2 DEF Goes
    <2> QED BY <2>1, <2>2 DEF WriteTokenFile, Prove, Reload, PlatformsRefuse, RemoveTokenFile,
                              Dismiss, Remove, Revoke, lives, Fed
<1>3. \A f \in Flows : /\ flow'[f].at = "probing" <=> flow[f].at = "probing"
                       /\ flow[f].at = "probing" => flow'[f].probe = flow[f].probe
    <2>1. CASE UNCHANGED flow
        BY <2>1
    <2>2. CASE Reauth(e)
        BY <2>2, ReauthType DEF IInv
    <2>3. CASE (Dismiss(e) \/ Remove(e)) /\ ~UNCHANGED flow
        <3>1. flow' = [flow EXCEPT ![e] = NoFlow] /\ NoFlow.at = "none" /\ flow[e].at = "form"
            BY <1>0, <2>3, ClosedType DEF Dismiss, Remove
        <3> QED BY <1>0, <3>1
    <2> QED BY <2>1, <2>2, <2>3 DEF WriteTokenFile, Prove, Reload, PlatformsRefuse,
                                    RemoveTokenFile, Revoke
<1> QED BY <1>1, <1>2, <1>3, WaitsKept DEF SameWaits

LEMMA NextWaits == IInv /\ [Next]_vars => WaitsAreMet' /\ NoStrayBackend'
<1> SUFFICES ASSUME IInv, [Next]_vars PROVE WaitsAreMet' /\ NoStrayBackend'
    OBVIOUS
<1>1. CASE UNCHANGED vars
    BY <1>1, WaitsKept DEF vars, lives, SameWaits
<1>2. ASSUME NEW b \in 1..MaxBackends, Frame(b)
      PROVE  WaitsAreMet' /\ NoStrayBackend'
    <2>1. flow \in [Flows -> FlowStates]
        BY DEF IInv, TypeOK
    <2>2. flow' = [flow EXCEPT ![backend[b].of].heard = TRUE] /\ UNCHANGED <<feed, state, backend>>
        BY <1>2 DEF Frame, lives
    <2>3. \A f \in Flows : flow'[f].at = flow[f].at /\ flow'[f].probe = flow[f].probe
        BY <2>1, <2>2 DEF FlowStates
    <2> QED BY <2>2, <2>3, WaitsKept DEF SameWaits
<1>3. CASE Restart
    <2>1. \A f \in Flows : flow'[f].at # "probing"
        BY <1>3, ClosedType DEF Restart
    <2>2. \A e \in Entries : feed'[e] = 0 /\ state'[e] \notin Fed
        BY <1>3 DEF Restart, Fed
    <2>3. \A b \in 1..MaxBackends : backend'[b] = NoBackend
        BY <1>3 DEF Restart
    <2> QED BY <2>1, <2>2, <2>3 DEF WaitsAreMet, NoStrayBackend, Fed
<1> QED
    BY <1>1, <1>2, <1>3, FlowStepWaits, EntryStepWaits, StartProbeWaits, StartWaits,
       ProbeEndsWaits, StopBackendWaits, ThreadWaits
    DEF Next, FlowSteps, SetupSteps, UnloadSteps

-----------------------------------------------------------------------------
(* The entries *)

\* What the end of a flow does to entries: nothing, or one entry takes the flow's
\* proven sign-in, a new one if its account has none, the entry's own otherwise.
LEMMA EntryTakes ==
    ASSUME IInv, NEW f \in Flows, CreateEntry(f) \/ UpdateEntry(f)
    PROVE  \/ UNCHANGED lives
           \/ \E e \in Entries, d \in EntryData :
                /\ d.tokens \in proven
                /\ entry' = [entry EXCEPT ![e] = d]
                /\ UNCHANGED store
                /\ \/ ~Configured(d.account) /\ Goes(e, "not_loaded") /\ UNCHANGED reload
                   \/ /\ e \in Live /\ d.account = entry[e].account
                      /\ reload' = [reload EXCEPT ![e] = TRUE] /\ UNCHANGED state
<1>1. flow[f].data \in EntryData /\ flow[f].data.tokens \in proven
    BY DEF CreateEntry, UpdateEntry, Heard, IInv, FlowsKnow, FlowKnows
<1>2. CASE CreateEntry(f) /\ ~Configured(UserId(f))
    <2> DEFINE x == CHOOSE x \in Entries : state[x] = "absent"
    <2>1. x \in Entries
        BY <1>2 DEF CreateEntry
    <2>2. /\ entry' = [entry EXCEPT ![x] = flow[f].data] /\ Goes(x, "not_loaded")
          /\ UNCHANGED <<reload, store>>
        BY <1>2 DEF CreateEntry
    <2> HIDE DEF x
    <2> QED BY <1>1, <1>2, <2>1, <2>2 DEF UserId
<1>3. CASE UpdateEntry(f) /\ Matches(f)
    <2>1. f \in Entries /\ f \in Live /\ UserId(f) = entry[f].account
        BY <1>3 DEF UpdateEntry, Matches
    <2>2. /\ entry' = [entry EXCEPT ![f] = flow[f].data]
          /\ reload' = [reload EXCEPT ![f] = TRUE] /\ UNCHANGED <<state, store>>
        BY <1>3 DEF UpdateEntry
    <2> QED BY <1>1, <1>3, <2>1, <2>2 DEF UserId
<1> QED BY <1>2, <1>3 DEF CreateEntry, UpdateEntry

EntriesAreSound == SavedWasProven /\ OneEntryPerAccount /\ FilesAreOwned /\ SignInTakesEffect

LEMMA TakesSound ==
    ASSUME IInv, [Next]_vars, NEW f \in Flows, CreateEntry(f) \/ UpdateEntry(f)
    PROVE  EntriesAreSound'
<1> USE DEF IInv
<1>0. /\ entry \in [Entries -> EntryData \cup {NoEntry}] /\ state \in [Entries -> States]
      /\ reload \in [Entries -> BOOLEAN] /\ UNCHANGED proven
    BY DEF TypeOK, CreateEntry, UpdateEntry, world
<1>1. CASE UNCHANGED lives
    BY <1>0, <1>1 DEF lives, EntriesAreSound, SavedWasProven, OneEntryPerAccount,
                      FilesAreOwned, SignInTakesEffect, Live
<1>2. CASE ~UNCHANGED lives
    <2>1. PICK e \in Entries, d \in EntryData :
            /\ d.tokens \in proven
            /\ entry' = [entry EXCEPT ![e] = d]
            /\ UNCHANGED store
            /\ \/ ~Configured(d.account) /\ Goes(e, "not_loaded") /\ UNCHANGED reload
               \/ /\ e \in Live /\ d.account = entry[e].account
                  /\ reload' = [reload EXCEPT ![e] = TRUE] /\ UNCHANGED state
        BY <1>2, EntryTakes
    <2>2. entry'[e] = d /\ d # NoEntry /\ \A x \in Entries : x # e => entry'[x] = entry[x]
        BY <1>0, <2>1, NothingIsNoData
    <2>3. SavedWasProven'
        BY <1>0, <2>1, <2>2 DEF SavedWasProven
    <2>4. FilesAreOwned'
        BY <2>1, <2>2 DEF FilesAreOwned
    <2>5. OneEntryPerAccount'
        <3>0. \A x \in Live' : x = e \/ x \in Live
            BY <1>0, <2>1 DEF Live, Goes
        <3>1. ASSUME NEW x \in Live, x # e
              PROVE  entry[x].account # d.account
            <4>1. CASE ~Configured(d.account)
                BY <4>1 DEF Configured
            <4>2. CASE e \in Live /\ d.account = entry[e].account
                BY <3>1, <4>2 DEF OneEntryPerAccount
            <4> QED BY <2>1, <4>1, <4>2
        <3>2. ASSUME NEW x \in Live', x # e
              PROVE  x \in Live /\ entry'[x] = entry[x] /\ entry'[x].account # entry'[e].account
            <4>1. x \in Live /\ x \in Entries
                BY <3>0, <3>2 DEF Live
            <4> QED BY <2>2, <3>1, <3>2, <4>1
        <3>3. ASSUME NEW x \in Live', NEW y \in Live', x # y, x # e, y # e
              PROVE  entry'[x].account # entry'[y].account
            BY <3>2, <3>3 DEF OneEntryPerAccount
        <3> QED BY <3>2, <3>3 DEF OneEntryPerAccount
    <2>6. SignInTakesEffect'
        <3>1. reload'[e] \/ state'[e] = "not_loaded"
            BY <1>0, <2>1 DEF Goes
        <3>2. \A x \in Entries : x # e => reload'[x] = reload[x] /\ state'[x] = state[x]
            BY <1>0, <2>1 DEF Goes
        <3> QED BY <2>1, <2>2, <3>1, <3>2 DEF SignInTakesEffect, Live
    <2> QED BY <2>3, <2>4, <2>5, <2>6 DEF EntriesAreSound
<1> QED BY <1>1, <1>2

LEMMA EntryStepSound ==
    ASSUME IInv, [Next]_vars, NEW e \in Entries, SetupSteps(e) \/ Reload(e) \/ UnloadSteps(e) \/ Remove(e)
    PROVE  EntriesAreSound'
<1> USE DEF IInv
<1>0. /\ state \in [Entries -> States] /\ reload \in [Entries -> BOOLEAN]
      /\ store \in [Entries -> 0..MaxSignIns]
    BY DEF TypeOK
<1>1. UNCHANGED <<entry, proven>>
    BY DEF SetupSteps, UnloadSteps, WriteTokenFile, Prove, Start, Reload, PlatformsRefuse,
           StopBackend, RemoveTokenFile, Remove, world
<1>3. PICK n \in States : Goes(e, n)
    BY DEF SetupSteps, UnloadSteps, WriteTokenFile, Prove, Start, Reload, PlatformsRefuse,
           StopBackend, RemoveTokenFile, Remove, States
<1>4. state'[e] = n /\ e \in Live /\ \A x \in Entries : x # e => state'[x] = state[x]
    <2>1. e \in Live
        BY DEF SetupSteps, UnloadSteps, WriteTokenFile, Prove, Start, Reload, PlatformsRefuse,
               StopBackend, RemoveTokenFile, Remove, Live
    <2> QED BY <1>0, <1>3, <2>1 DEF Goes
<1>5. entry[e] # NoEntry /\ Live' \subseteq Live
    BY <1>4 DEF TypeOK, Live
<1>2. SavedWasProven' /\ OneEntryPerAccount'
    BY <1>1, <1>5 DEF SavedWasProven, OneEntryPerAccount
<1>6. /\ \A x \in Entries : x # e => store'[x] = store[x] /\ reload'[x] = reload[x]
      /\ \/ store'[e] = entry[e].tokens
         \/ n \in {"not_loaded", "unloading", "stopping", "failed_unload", "removed", "orphaned"}
         \/ /\ store'[e] = store[e] /\ reload'[e] = reload[e]
            /\ state[e] \in {"proving", "starting"}
    <2>1. CASE WriteTokenFile(e)
        BY <1>0, <2>1 DEF WriteTokenFile
    <2>2. CASE Prove(e) \/ Start(e)
        BY <2>2 DEF Prove, Start
    <2>3. CASE Reload(e)
        BY <1>0, <1>4, <2>3 DEF Reload, Goes
    <2>4. CASE PlatformsRefuse(e) \/ StopBackend(e)
        BY <1>0, <1>4, <2>4 DEF PlatformsRefuse, StopBackend, Goes
    <2>5. CASE RemoveTokenFile(e)
        BY <1>0, <1>4, <2>5 DEF RemoveTokenFile, Goes
    <2>6. CASE Remove(e)
        BY <1>0, <1>4, <2>6 DEF Remove, Goes
    <2> QED BY <2>1, <2>2, <2>3, <2>4, <2>5, <2>6 DEF SetupSteps, UnloadSteps
<1>7. FilesAreOwned'
    BY <1>1, <1>5, <1>6 DEF FilesAreOwned
<1>8. SignInTakesEffect'
    BY <1>1, <1>4, <1>5, <1>6 DEF SignInTakesEffect, Live
<1> QED BY <1>2, <1>7, <1>8 DEF EntriesAreSound

LEMMA NextEntries == IInv /\ [Next]_vars => EntriesAreSound'
<1> SUFFICES ASSUME IInv, [Next]_vars PROVE EntriesAreSound'
    OBVIOUS
<1>1. CASE UNCHANGED lives
    <2>1. proven \subseteq proven'
        BY WorldGrows
    <2> QED BY <1>1, <2>1 DEF lives, IInv, EntriesAreSound, SavedWasProven, OneEntryPerAccount,
                              FilesAreOwned, SignInTakesEffect, Live
<1>2. CASE Restart
    <2>1. Live' = Live /\ \A e \in Live : state'[e] = "not_loaded"
        BY <1>2 DEF Restart, Live
    <2>2. UNCHANGED <<entry, store, proven>>
        BY <1>2 DEF Restart
    <2>3. SignInTakesEffect'
        BY <2>1, <2>2 DEF SignInTakesEffect
    <2> QED BY <2>1, <2>2, <2>3 DEF IInv, EntriesAreSound, SavedWasProven, OneEntryPerAccount,
                              FilesAreOwned
<1> QED
    BY <1>1, <1>2, TakesSound, EntryStepSound
    DEF Next, vars, FlowSteps, Authenticate, StartProbe, BootstrapFails, ProbeEnds,
        ProbeFailed, Dismiss, ThreadSteps, BootFails, BootRejected, Boot, StreamEnds, Frame, Revoke

-----------------------------------------------------------------------------
(* The invariant and what follows *)

LEMMA InitIInv == Init => IInv
<1> SUFFICES ASSUME Init PROVE IInv
    OBVIOUS
<1>1. /\ \A f \in Flows : flow[f] = Closed(f)
      /\ \A e \in Entries : /\ entry[e] = NoEntry /\ state[e] = "absent"
                            /\ ~reload[e] /\ store[e] = 0 /\ feed[e] = 0
      /\ \A b \in 1..MaxBackends : backend[b] = NoBackend
      /\ signIns = 0 /\ proven = {} /\ dead = {} /\ restarts = 0
    BY DEF Init
<1>2. TypeOK
    BY ClosedType, LifecycleAssumption DEF Init, TypeOK, States
<1>3. FlowsKnow
    BY <1>1, ClosedType DEF FlowsKnow, FlowKnows
<1>4. WaitsAreMet /\ NoStrayBackend
    BY <1>1, ClosedType DEF WaitsAreMet, NoStrayBackend
<1>5. FilesAreOwned /\ SavedWasProven /\ OneEntryPerAccount /\ SignInTakesEffect
    BY <1>1 DEF FilesAreOwned, SavedWasProven, OneEntryPerAccount, SignInTakesEffect, Live
<1> QED BY <1>2, <1>3, <1>4, <1>5 DEF IInv

LEMMA NextIInv == IInv /\ [Next]_vars => IInv'
BY NextType, NextFlows, NextWaits, NextEntries DEF IInv, EntriesAreSound

\* The invariant: the four properties below, and what ties a flow to its sign-in and a
\* coordinator or a probe to its backend.
THEOREM LifecycleInvariant == Spec => []IInv
BY InitIInv, NextIInv, PTL DEF Spec

\* Entries, flows and threads stay what the code can make of them.
THEOREM LifecycleTyped == Spec => []TypeOK
BY LifecycleInvariant, PTL DEF IInv

\* No account ends up with two entries (_abort_if_unique_id_configured), however many
\* flows are open at once.
THEOREM OneEntryEach == Spec => []OneEntryPerAccount
BY LifecycleInvariant, PTL DEF IInv

\* Only tokens that telemetry came in on are ever saved (_probe).
THEOREM OnlyProvenIsSaved == Spec => []SavedWasProven
BY LifecycleInvariant, PTL DEF IInv

\* No timeout, failed unload, removal, reload or restart leaves a second stream running
\* (CloudBackend.stop and probe).
THEOREM NoBackendStrays == Spec => []NoStrayBackend
BY LifecycleInvariant, PTL DEF IInv

\* An entry does not go on with the tokens of an older sign-in (async_setup_entry).
THEOREM NewTokensWin == Spec => []SignInTakesEffect
BY LifecycleInvariant, PTL DEF IInv

\* Reauth never moves an entry to another channel or account (_existing_device_uuid).
THEOREM ReauthKeepsChannel == Spec => ChannelSurvives
<1>1. IInv /\ [Next]_vars =>
        [\A e \in Entries : entry[e] # NoEntry =>
           /\ entry'[e].uuid = entry[e].uuid
           /\ entry'[e].account = entry[e].account]_vars
    BY EntriesStay
<1> QED BY <1>1, LifecycleInvariant, PTL DEF Spec, ChannelSurvives

=============================================================================
