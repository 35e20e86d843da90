----------------------------- MODULE ServerParts -----------------------------
(* The parts that are started, watched and configured beside the server:    *)
(* BluetoothComponent, ComponentCoordinator, HealthChecker, SecurityManager, *)
(* FileKeyStore and ConfigReload.  They share no variable.                  *)
CONSTANTS
    CallsParts, CtxEnds,                                 \* BluetoothComponent
    Components, DependsOn, Instances, Starters, Nobody,  \* ComponentCoordinator
    Checked, Loops,                                      \* HealthChecker
    KeyedDevices, Callers, Keys, MaxUsage,               \* SecurityManager
    StoreDevices, StoreKeys, Missing, Unknown,           \* FileKeyStore
    Subscribers, SubscriberIds, Pairs, MaxVersion, Buffer  \* ConfigReload

VARIABLES
    compStatus, at, compStates, adapter, monitoring, handling, peers, routing,
    compClosed, disturbed, compPanicked,
    rules, states, on, calls, overlapped,
    alive, healthMonitoring, ctxDone, verdicts, loop, owed,
    holder, sessionKey, stale, encrypting, keys, usage, expired, stored, secCalls, contended,
    autoSave, storeKeys, file, tmp, backup, saving, returns, storeClosed, acked,
    configFile, watcher, watched, channel, handler, handled, configCancelled, current,
    subscription, subscribed, configClosed, panicked

compVars ==
    <<compStatus, at, compStates, adapter, monitoring, handling, peers, routing,
      compClosed, disturbed, compPanicked>>
coordinatorVars == <<rules, states, on, calls, overlapped>>
healthVars == <<alive, healthMonitoring, ctxDone, verdicts, loop, owed>>
securityVars ==
    <<holder, sessionKey, stale, encrypting, keys, usage, expired, stored, secCalls, contended>>
storeVars  == <<autoSave, storeKeys, file, tmp, backup, saving, returns, storeClosed, acked>>
configVars ==
    <<configFile, watcher, watched, channel, handler, handled, configCancelled, current,
      subscription, subscribed, configClosed, panicked>>

Component == INSTANCE BluetoothComponent WITH
    status <- compStatus, states <- compStates, closed <- compClosed, panicked <- compPanicked

Coordinator == INSTANCE ComponentCoordinator

Health == INSTANCE HealthChecker WITH monitoring <- healthMonitoring

Security == INSTANCE SecurityManager WITH Devices <- KeyedDevices, calls <- secCalls

Store == INSTANCE FileKeyStore WITH keys <- storeKeys, closed <- storeClosed

Reload == INSTANCE ConfigReload WITH
    file <- configFile, cancelled <- configCancelled, closed <- configClosed

ASSUME CoordinatorAssumed == Coordinator!CoordinatorAssumption
ASSUME HealthAssumed == Health!HealthAssumption
ASSUME SecurityAssumed == Security!SecurityAssumption
ASSUME ReloadAssumed == Reload!ReloadAssumption

\* BluetoothComponent: once a Stop that nothing disturbed has returned, every part
\* is off, however far the Start before it came (component.go:259).
StopStopsEverything == Component!StopStopsEverything

\* ComponentCoordinator: between calls that did not overlap, a component that is
\* said to run runs and one that is said to be stopped does not
\* (component_coordinator.go:286, 320).
StatusAgrees == Coordinator!StatusAgrees

\* HealthChecker: every change of a device's verdict, the first one included, has been
\* reported once or will be by the loop that made it, and nothing else is reported;
\* in which order is left open (health_checker.go:141, 148).
FlipsAreReportedOnce == Health!FlipsAreReportedOnce

\* SecurityManager: the session, the store and the encryption manager agree on a
\* device's key (manager.go:354, 880).
KeysAgree == Security!KeysAgree

\* FileKeyStore: what an operation has reported as saved survives every crash
\* (keystore.go:385).
AckedIsDurable == Store!AckedIsDurable

\* ConfigReload: no subscriber's channel is closed twice or sent to once it is
\* closed (notifier.go:76, 106, 118, 142).
NotifierNeverPanics == Reload!NotifierNeverPanics
=============================================================================
