# SIOX: a TLA+ model of the monitoring core

SIOX instruments the I/O layers of a program (POSIX, MPI, HDF5, ...). Every
intercepted call becomes an *activity*, which is built by the low-level C API,
handed to a multiplexer, and consumed by plugins in the same process or, over a
network connection, in a daemon. Statistics of the node are collected by a
polling thread. All parts are components that a configuration file names and a
registrar starts, stops and destroys.

This directory holds TLA+ modules of the parts where threads, failures and order
matter, the TLC configurations that check them on small instances, and TLAPS
proofs, for instances of every size, about twenty of them: the queue that every
activity of an asynchronous multiplexer goes through, the multiplexers, the
job processor, the GIO server and client, the configurator with its registrar, the
forwarder, the file surveyor, the low-level API, the statistics collector, the reasoner, the topologies
in memory and in a database, the aliases of its paths, the three catalogs in files and
in a topology, the histogram plugin and the plugin that replays a trace.
`PROJECT.json` relates every definition to the lines it models.
Paths below are relative to `src/src/`, except those that begin with `tools/`,
which are relative to `src/`.

## 1. Inventory

| Component | State | Operations | Hard behaviour |
|---|---|---|---|
| Asynchronous queue and notifier (`monitoring/activity_multiplexer/ActivityMultiplexerAsync.cpp`) | ring buffer, two indexes, `overloaded`, `lost`, `notified`, `terminate`, `terminated`, a mutex that only producers respect | `Push`, `Pop`, `checkOverflowMode`, `finalize`, `Run`, `start`, `stop`, destructor | lock-free consumer, unprotected flags, lost signals, overflow, stop and destruction |
| Multiplexers (same file, `ActivityMultiplexerSync.cpp`, `Dispatcher.hpp`) | lists of listeners per activity type and mode, a shared mutex per mode | `Log`, `dispatch`, `registerForUcaid`, `unregisterForUcaid`, `registerCatchall`, ... | plugins come and go during callbacks |
| Job processor (`util/JobProcessors`) | queue with a limit, `status`, worker thread | `submitJob`, `cancelJob`, `startProcessing`, `stopProcessing`, `shutdown`, `process` | requeue of failing jobs, several callers of stop and shutdown |
| GIO client (`core/comm/modules/gio/GIOClient.cpp`, `GIOinternal.hpp`) | connection threads that join their predecessors, a mutex locked by one thread and released by another, send queue, pending responses | `ireconnect`, `isend`, `dropPendingMessages`, destructor | broken connections, late or damaged answers, ownership of messages |
| GIO server (`core/comm/modules/gio/GIOServer.cpp`) | registry of threads, `finishedThread`, response queues | accept, receive, respond, destructor | threads end in any order and join each other, connections during destruction |
| Statistic (`monitoring/statistics/collector/Statistic.cpp`) | a ring per reduction and interval, reference counts | `update`, `getReducedValue`, `getHistoricValues`, `requestReductionSupport`, ... | overflow of counters, aggregation over reused slots, readers without a lock |
| Statistics collector and multiplexer (`monitoring/statistics/collector`, `monitoring/statistics/multiplexer`) | plugins, statistics, listeners, collections, change flags | `registerPlugin`, `unregisterPlugin`, polling, `registerListener`, `makeStatisticsCollection`, `fetchValues`, `stop` | two locks, a polling thread and changes at any time |
| Low-level API and activity builder (`monitoring/low-level-c/siox-ll.cpp`, `monitoring/activity_builder/ActivityBuilder.cpp`) | monitoring state, registered components, per-thread stacks of activities, pid | initialise, finalise, register, start/stop/end an activity, enable, disable, fork handlers | re-initialisation in one process, nesting, fork in a threaded program |
| Autoconfigurator and registrar (`core/autoconfigurator`, `core/component`, `util/autoLoadModules.cpp`) | numbered components, their references, `registrarMutex`, offset of the section | `LoadConfiguration`, `registerComponent`, `start`, `stop`, `stopNonMandatoryModules`, `shutdown` | loads that fail half way, fallback sections, order of destruction |
| Instrumented layers (`tools/siox-skeleton-builder`: `template.py`, `lib/skeletonBuilder.py`, the headers of POSIX, stdio, MPI, HDF5 and NetCDF) | per layer, tables from handles to the activities that opened them, each with a lock | per function: guard, links to parents, the real call, error exit, changes of the tables | handles are reused by the operating system; tables are read and changed around the real call, not with it |
| File surveyor (`monitoring/activity_multiplexer/plugins/file-surveyor/FileSurveyor.cpp`) | level of initialisation, open and closed surveys | `initPlugin` and its retries, a callback per kind of call, reports | callbacks in all threads under the multiplexer's lock, lookups without the own lock |
| Activity network forwarder (`.../plugins/activity_net_forwarder`) | ring of recent activities, pending activities | `Notify`, `NotifyAsync`, `triggerResponseForAnomaly`, callbacks of the client, `start`, `stop` | a limit that several threads test and then change, lost answers, ring that wraps |
| Topologies (`monitoring/topology`) | types, objects, relations, attributes, values; a cache per process; tables of a database | register, lookup, enumerate, paths and aliases; messages of the network forwarder | double-checked registration, caches, processes that race in a database or die |
| Reasoner (`knowledge/reasoner`) | gathered observations, ratios, own health, health above and below | the periodic thread, `connectAnomalyPlugin`, `addObservation`, push, answer, `start`, `stop` | observations during a query, lost connections, restart |
| Histogram anomaly plugin (`.../plugins/activity-histogram-adpi`) | range of durations and histogram of each activity type, the range also in the topology | `Notify`: load, learn, store, rate | a range is stored and read in two calls each, by processes that may die; unsigned arithmetic on ranges of any form |
| Ontology, association mapper, system information, in files (`monitoring/ontology/modules/file-ontology`, `monitoring/association_mapper`, `monitoring/system_information/modules/filebased-system-information`) | maps from names to numbers and back, the next number, a file | register, lookup, set attributes, load, save | maps read without the mutex, several files, processes that die while they write |
| The same three over a topology (`Topology*` in the same directories) | objects, relations and attributes of the topology | sequences of topology calls | processes that race, and die between two calls |
| Optimizer, its history and its store (`knowledge/optimizer`) | experts per attribute, hints of open files, performance per set of hints | levels of `initPlugin`, `Notify`, `optimalParameter`, `optimalParameterFor`, teardown | names that become known during initialisation, suggestions while activities arrive |
| Replay plugin (`.../plugins/replay/Replay.cpp`) | maps from recorded handles and streams to its own | one per call it repeats | handles that are reused, incomplete traces |
| In-memory communication, writers, reporters, daemon and others | see `PROJECT.json` | | listed there with the reason they are not modelled |

How they interact. The generated wrappers of the layers call the low-level API, which asks the activity
builder for an activity and gives it to `ActivityMultiplexer::Log`. `Log` calls
the synchronous listeners in the caller's thread and pushes the activity into
the queue; the notifier thread pops it and calls the asynchronous listeners. A
forwarder among the listeners sends it through the GIO client, whose sender
thread is a job processor, to the GIO server of a daemon, whose connection
threads each own a job processor for the responses. The statistics collector
polls its plugins and pushes the values to statistics, collections and the
statistics multiplexer. Anomaly plugins among the listeners report observations
to the reasoner of the process, which exchanges health with the reasoner of the
node and triggers the forwarder. Names of nodes, interfaces and attributes are
kept in a topology that all processes share, in the daemon or in a database. The
registrar starts all of these after a configuration
was loaded, stops them before a fork and restarts them after it.

## 2. Modules

| Module | Models | Uses |
|---|---|---|
| `LossyFifo` | abstract: what the queue promises | |
| `ActivityMultiplexerQueue` | the queue and its notifier, one action per access to shared memory | refines `LossyFifo` |
| `ActivityMultiplexer` | both multiplexers: dispatch and registration | composed with `LossyFifo` in place of the queue |
| `JobProcessor` | `SingleThreadedJobProcessor` and its queues | |
| `GIOClient`, `GIOServer` | the two ends of the GIO module | |
| `Statistic` | rings of a statistic, and a concurrent reader | |
| `StatisticsCollector` | collector, statistics multiplexer, a collection | |
| `LowLevelAPI` | life of SIOX in a process, activities, fork | |
| `AutoConfigurator` | loading, numbering, start, stop, destruction | |
| `FileSurveyor` | the plugin, the multiplexer's lock around it | |
| `ActivityNetworkForwarder` | client, ring, connection, server | |
| `Topology` | abstract: what a topology promises | |
| `RamTopology` | the topology in memory with its locks | refines `Topology` |
| `TopologyService` | cache, network forwarder and its server, paths and aliases | extends `RamTopology` |
| `DatabaseTopology` | the topology in PostgreSQL, statement by statement | |
| `Reasoner` | reasoners of processes, nodes and the system, anomaly plugins | |
| `FileSystemInformation`, `FileOntology`, `FileAssociationMapper` | the catalogs in files | |
| `TopologyCatalogs` | the three catalogs over a topology | |
| `GenericHistory` | the optimizer and its two plugins | |
| `Replay` | the plugin that repeats a trace | |
| `InstrumentedLayer` | what the templates generate, and the wrapped libraries | |
| `PosixLayer` | the annotations of the five headers | extends `InstrumentedLayer` |
| `HistogramAdpi` | the anomaly plugin that rates by durations, in several processes | |
| `ActivityMultiplexerQueue_proofs`, `ActivityNetworkForwarder_proofs` | theorems about the module of that name | each extends its module |
| `Processing_proofs` | theorems about `JobProcessor`, and about `StatisticsCollector` and `Reasoner` inside `MCProcessing` | extends `MCProcessing` |
| `Monitoring_proofs` | theorems about `ActivityMultiplexer`, and about the forwarder and the file surveyor inside `MCMonitoring` | extends `MCMonitoring`, uses `ActivityNetworkForwarder_proofs` |
| `Application_proofs` | theorems about `LowLevelAPI` and `Replay` inside `MCApplication` | extends `MCApplication` |
| `Communication_proofs` | theorems about `GIOServer`, and about `GIOClient`, `AutoConfigurator` and the catalogs in files inside `MCCommunication` | extends `MCCommunication` |
| `Topologies_proofs` | theorems about `RamTopology`, about the aliases of `TopologyService`, and about `DatabaseTopology`, `HistogramAdpi` and `TopologyCatalogs` inside `MCTopologyService` | extends `MCTopologyService` |
| `ListTheorems` | lemmas about rounds of a loop and about lists of numbers | used by three of the proof modules |
| `MCMonitoring` | for TLC | `ActivityMultiplexer`, `FileSurveyor`, `Statistic`, `ActivityNetworkForwarder` |
| `MCCommunication` | for TLC | `GIOServer`, `GIOClient`, `AutoConfigurator`, `FileSystemInformation`, `FileOntology`, `FileAssociationMapper` |
| `MCProcessing` | for TLC | `JobProcessor`, `StatisticsCollector`, `Reasoner` |
| `MCApplication` | for TLC | `PosixLayer`, `LowLevelAPI`, `GenericHistory`, `Replay` |
| `MCTopologyService` | for TLC | `TopologyService`, `DatabaseTopology`, `TopologyCatalogs`, `HistogramAdpi` |
| other `MC*` | constants of the instances that need definitions | |

The `MC` modules that use several components check them side by side, not
composed: the variable `part` says which one a behaviour is about, and the others
stay in their initial state. Components that never appear together share variables
(`<-` in the `INSTANCE`) to keep the states small. A property `P` of such a module is
`part = "x" => Alias!P`, and weak fairness of a disjunction of two components'
steps is fairness of each, since `part` never changes and only one of the two is
ever enabled.

Reading the modules. A variable has the name of the member it stands for; a
variable without one (`pc`, `got`, `mark`, `written`, ...) is a program counter
or a history variable, and the declarations say so. An action has the name of
the function, followed by the part of it where one function is several steps.
How large a step is follows from what other threads can see: code under a mutex
that all users of the data respect is one step; every access to unprotected
data is a step of its own. A definition whose comment begins with `Mutant:` is
not part of a specification. It states how a plausible bug would change the
definition that follows it and is used to make sure that the property named
with it in `PROJECT.json` would notice.

### ActivityMultiplexerQueue

`Push` reads `overloaded` without the lock (`PushCheckOverloaded`), counts a
discard, or takes the lock, computes the size, stores, publishes by advancing
`writeIndex`, unlocks and perhaps signals. The notifier tests for emptiness,
sleeps on the condition variable with a timeout of 100 ms (`PopBlock`,
`PopTimeout`), decides whether to end, reads the slot, advances `readIndex`,
runs the five accesses of `checkOverflowMode`, and dispatches. `stop` is
`finalize` (request, signal, spin on `terminated`) and the join. The indexes,
`lost`, `notified`, `terminate` and `terminated` are atomics, so interleaving
single accesses is exact for them; `overloaded` is a plain `bool` that threads
race for, and each of its reads and writes is a step that yields or sets its
current value.

### ActivityMultiplexer

A callback is two steps, begin and end, so that (un)registration can try to
come between; `readers` are the threads in a shared section. `Kinds` lets one
run cover the synchronous and the asynchronous multiplexer. `Dispatcher::remove`
is translated as the loop it is, because it overwrites entries while it walks.

### JobProcessor, GIOClient, GIOServer

`processJob` of the GIO module may fail: it then stops its own thread and puts
the job back in front; the two are separate steps with users in between. In the
client, a write on a broken connection fails or is swallowed, and an answer may
come at once, late, damaged or never. Nobody at the other end owes anything: no
fairness is given to the actions of clients, of servers or of the network, and a
write or a connection attempt, which nothing cancels, lasts as long as they like.

### Statistic, StatisticsCollector

`Statistic` keeps the modular index arithmetic of `size_t` with a word that is
no multiple of the ring's length, since the code's 2^64 is no multiple of its 11
slots. The history variable `measured` is what the source really counted, so the
properties compare the rings with a reference that is not computed from them.
In `StatisticsCollector` the value of a statistic is the time step its plugin
took last, which is what makes a mixture of two steps visible.

### LowLevelAPI

Threads call instrumented functions (which nest), register layers, switch
monitoring on and off and fork; after a fork the behaviour continues as the
parent or as the child, of which only the forking thread exists. Layers behave
as the templates of the instrumenter make them: initialisation and termination
callbacks register and drop the component.

### AutoConfigurator

A section is a sequence of modules with an id and references. Each step of a
load fails in the way the code can fail: no section, a module that cannot be
parsed (the mutex is released), one that cannot be instantiated (`ModuleError`
is not in the exception specification, so the process is terminated), options
that cannot be parsed (the mutex stays locked), an `init()` that throws.

### InstrumentedLayer, PosixLayer

A wrapper is a list of annotations, taken from the header with its order, and the
module says what each generates before and after the real call: the guard that
keeps SIOX's own calls from being monitored, links to the activity that opened a
handle, puts and removals, the error exit. Accesses to a table are one step each,
as their lock covers no more; the pointer that a lookup returns points into the
table and may be stale when it is used. Functions whose annotations are the same
are one entry. Handles are handed out by the library again after they were closed.

### FileSurveyor, ActivityNetworkForwarder, Reasoner

The multiplexer calls the surveyor in the thread that logs and with its lock held
shared, which is what the retry of the initialisation runs into. The configuration gives
several tokens for each kind of call, and a level that is retried registers those
before the unknown one again: `RegisteredOnce` says that this has not happened, and
`CountedOnce` is about the behaviours where it has not. A survey keeps
its counters and the two positions of the file. The forwarder sees the
connection through its callbacks only: messages wait, are written, logged by the
server and answered, and are lost without a callback when the connection breaks.
A round of the reasoner is one step while it holds `dataMutex`. Its percentages
are integers, as in the code; the floating point product agrees with integer
division for totals below 40, and the instance stays far below that.

### Topologies

`RamTopology` keeps the two critical sections of each register function apart,
and the two of `registerRelation` on parent and child. `TopologyService` adds the
connection, where the server thread of a process is a caller like any other, and
the cache, whose maps several threads write under a shared lock, so that entries
may be lost. A connection may break: the receive loop of the client then ends and
calls nobody back, so that the threads that wait for a response stay there
(`Break`). An error that comes instead of a response ends the process at the
`assert(false)` of `messageTransferErrorCB`, and so does, in the model, a wake-up of
`cv.wait` without a notification, after which the code reads a response that is not
there (`SpuriousWakeUp`). `DatabaseTopology` has a step per SQL statement and per commit;
unique constraints are those of `schema.sql`.

### Catalogs

The modules of the three catalogs in files follow a process that starts, loads the
file of the site or, if there is none, its own, serves its threads, and either
saves in its destructor or dies before or while it writes; then the next one
starts. A look into an `unordered_map` that no mutex protects while another thread
inserts is a choice between finding and not finding the entry, and in the ontology
between those and a null pointer that was just inserted. A file is a record of what
was saved and of how many of its parts can still be read (`TornAfter`), so that a
load stops where the code's exception does. `TopologyCatalogs` has one step per
`registerObject`, `getAttribute` and `setAttribute`, so that the objects of a path
are registered one by one, and a process may die before each. The `registerType`
calls between them are left out: a type is its name.

### GenericHistory, Replay

Each level of `initPlugin` is a step, since another process may make a name known
between two of them. The plugin's own threads are those that log. `optimalParameter`
takes no lock: when a `Notify` comes while a thread is in it, the answer is any
value, and the property is about the others. Averages are a sum and a count; an
access without its size, which a failed one may be whatever is known, is no number.
`late` are the attributes that became known between the two lookups of `initPlugin`;
after the destruction of the history the optimizer goes on asking it for exactly
those.

`Replay` has the recorded program in it: two threads perform calls and log them
afterwards, so that two activities may be in the trace in another order than the
calls, and one may be missing. `spoiled` marks the traces that do not tell what
happened: those with a lost activity, with a call the plugin does not know, with a
short read or write, or with a handle that two threads used at once. The program may
have inherited handles and streams (`Inherited`): no open of theirs is in the trace,
the map yields 0 for such a handle, and its reads and writes are replayed on the
plugin's own input. A recorded `close` of one closes that input, and spoils the
trace too.

### HistogramAdpi

A process holds `giant_mutex` during `Notify`, so the steps are the calls of the
topology, which other processes share. Differences are taken modulo the word, as
the code's are, so that a loaded minimum above the maximum gives the huge width
that the code computes.

## 3. Runs

| Run | Instance | What it shows |
|---|---|---|
| `queue` | 2 producers, 4 slots, 4 pushes, 2 starts | activities arrive in order and once; accepted, lost and reported ones add up; `stop` returns after everything accepted before it was dispatched; nobody touches a destroyed queue; the queue implements `LossyFifo`; what was accepted is dispatched |
| `monitoring` | multiplexer: 2 loggers, the notifier, 2 listeners, both kinds. Surveyor: 2 threads, 2 files, 4 calls, two tokens that open; a behaviour ends when a callback was registered twice. Statistic: 2 values per ring, 3 intervals, a counter from 2 to 3 and, for sums, one of the full word, 5 updates. Forwarder: 2 loggers, ring of 2, limit 1, 4 activities, 1 lost connection, 2 starts | no callback of a listener that is not registered, each registration is served once, `unregister` removes exactly what it should; every surveyed activity is counted once and surveys are reused, unless a callback was registered twice; rings hold the exact reductions over overflows, and a reader that is not overtaken reads a consistent window; the ring is sent once, in order and completely, and pending activities are those on the way |
| `communication` | server: 4 threads, 1 request each. Client: 3 connection attempts, 2 messages, 2 outside calls of `ireconnect`. Configuration: host, global and two interface sections, 4 loads, every fault, 1 fork. Catalogs: 2 threads, up to 3 numbers, 2 lives, files of the site with and without entries, files torn at each kind of place | registry and joins are exact and one thread always accepts; messages are deleted once and written in order; destructors leave nothing; references lead where they mean, numbers are unique, users are destroyed first; numbers of the catalogs lead back to their names in every thread and in the processes that read the file, a name is one attribute; loads return, and calls and destructors do if the network lets go of the threads that write or connect |
| `processing` | jobs: 4, limit 2, 2 failures, 4 owner calls. Collector: 2 plugins with 1 and 2 metrics, 1 listener, 2 polls, 5 changes. Reasoners: a process below a node, 2 observations, 3 starts | no job is lost, done twice or out of order, `shutdown` empties; listeners know the current statistics, fetched values are of one step; every observation is counted once and every round with something abnormal calls the triggers; `shutdown` and `stop` return |
| `application` | layers: 2 threads, 2 descriptors, 3 calls in stdio and 4 in the others, of any function. API: 2 threads, 2 layers, 3 activities, 3 initialisations, switches or forks. History: 2 attributes, 2 sets of hints, 6 activities on one file, 5 on two (4 if a name was missing), one name missing at first or none, a suggestion at any time. Replay: 2 threads, 2 handles and a stream, of which none or a handle and the stream are inherited, 2 files, 5 calls | an activity on a handle is linked to the one that opened it, directly or not, and between calls the tables know exactly the open handles and who opened them, except for the handles in `spoiled`, which met the race of `layers_close`, a failed call whose entry went astray, or a `dup2`, `fileno` or `freopen` that the annotations do not follow; unique activity IDs with the right pid, parents that enclose; layers survive re-initialisation; suggestions are what was measured under the hints then in force, and come from a living plugin, but for the late attributes; what is replayed through a handle the program opened goes to the file and position it went to |
| `topology` | memory: a process with cache and 2 threads, one without, one thread of the daemon; 2 names, 2 calls on each topic (3 on aliases), connections that break on the topic of types. Database: 2 processes, 2 calls each, any of which may die. Catalogs: 2 processes, any of which may die between two topology calls. Histogram: 2 processes, 3 activities each of 3 durations, 3 buckets, 1 death | one identifier per key for everybody; relations show at both ends or not at all; answers exist; aliases form no loop; every call returns unless its connection broke, if messages do not stay on their way; `RamTopology` implements `Topology`; registrations in the database agree, as far as the section on proofs tells; entries of the catalogs are found as they were registered; a range of durations is loaded as it was learned, and a slower activity is never rated better |
| `queue_overload` | as `queue`, 1 start | **violation**: `overloaded` stays set on an empty queue |
| `gio_client_reconnect` | 2 attempts, 1 message | **violation**: `ireconnect` does nothing once a connection was established |
| `lowlevel_double_register` | 2 threads | **violation**: two threads register the same interface |
| `surveyor_retry` | 2 threads, 1 activity, names that become known | **violation**: a callback that retries the initialisation waits for its own thread |
| `database_topology` | 2 processes, 2 calls each | **violation**: `registerObject` returns an object that is nobody's child |
| `layers_close` | 2 threads, 2 descriptors, 4 calls | **violation**: `close` removes the entry of a file that another thread opened in between |

**Bounds.** They are the smallest at which the interesting cases occur. Four
slots make "more than half full" differ from "full" and from "not empty", and
four pushes fill the three usable slots and discard one; indexes wrap when the
queue is used again after a drain. Two starts include a restart after a stop.
Three connection threads include one that joins a thread which joined another.
Four server threads are three connections that end in any order. Five updates are
two periods of the second interval over rings of two values, and one of the
third, with overflow. Four loads are the host section, the fallback and two
interfaces, one of which may fail. Four activities wrap a ring of two twice, and
a limit of one is exceeded by two threads that test it together. Four calls on two
descriptors open, close and reopen a number while another thread is between the
real close and the removal. Two observations are one round that moves a ratio and
one that moves none. Two calls on a topic race for a key, and three `setAlias`
would be needed for a loop. Two tokens that open are a level of which one is registered
when the other is unknown.
Two lives are one that writes a file and one that reads it, whole or torn, and two
threads that register one name are the race for it. Six activities are an open,
a hint and two accesses under each of two sets of hints, after which both have had
their two trials and the better one is chosen; with fewer the least tried differs from
the best, and five are enough for two files.
Three activities are two that a range is learned from and one that is rated; of the
ranges of the three durations one is narrower than the buckets and one is not a
multiple of them, and the two processes may learn different ones.
Five replayed calls open, close and reopen a handle and use the new file, while
another handle may be an inherited one.
All bounds are constants in the guards of the actions and named as bounds where
they are declared.

**Deadlock.** All bounds end behaviours, so the runs do not check for deadlock;
that calls return is stated as liveness instead.

**Symmetry.** In `monitoring` over the loggers and the listeners, in
`application` and the two violation runs of its components over the threads or
the layers. The runs that use it check invariants and, in `monitoring`, an action
property, all of which treat the permuted values alike; no liveness.

**Fairness.** Weak fairness of every thread that is inside a function of the
library and not held by a peer: the operating system schedules runnable threads.
Nothing is assumed of users (they need not log, send, register or stop), and no
action of a client, of a server at the other end or of the network is fair. Where a
call waits for them, the property says so as its premise: `WaitsEnd` is about
behaviours in which every write and every connection attempt returns at last
(`NetworkReturns`), since `sendSocketMessage` passes no cancellable and a peer that
stays connected and does not read holds the sender and whoever joins it; `CallsReturn`
is about those in which requests and responses do not stay on their way for ever
(`InTransit`), and promises nothing to a thread whose connection broke. In `queue` the timeout of `wait_for` is fair, since time passes; the
signal is not. In the GIO server weak fairness is enough for the mutex because
each thread takes it a bounded number of times. In the job processor a spurious
wake-up may happen but need not. In the topology the threads that call and the
steps of `RamTopology` are fair, sending and receiving are not. `surveyor_retry` also
assumes that missing names become known, so that the thread could not be excused
by waiting for them.

## 4. Proofs

Each proof module about a component has an inductive invariant `IInv`, defined in the module it is
about and checked there by TLC before it was proved, a lemma that every step
preserves it, the theorem that it always holds (`Invariance`, or a lemma where a module
has several), and one theorem per property. `MCSpec` is the specification that the run
checks, in which the component is one of several side by side; its steps are those of
the component, or leave the component alone:

| Module | Theorem | Statement |
|---|---|---|
| `ActivityMultiplexerQueue_proofs` | `TypeCorrect` | `Spec => []TypeOK` |
| | `DeliveryInOrder` | `Spec => []InOrderDelivery`: the slots between the indexes hold the accepted activities in order, and each is dispatched once |
| | `PopFindsActivity` | `Spec => []NeverReadsNull`: the assertion in `Pop` never fails |
| | `LossAccounting` | `Spec => []LossesAreCounted` |
| | `StopIsADrain` | `Spec => []StopDrains` |
| | `DestructionIsSafe` | `Spec => []NoAccessAfterDestruction` |
| | `Refinement` | `Spec => ImplementsLossyFifo` |
| `Monitoring_proofs` | `RegisteredWhileRunning` | `Spec => []RunningIsRegistered` |
| | `UnregisterExact` | `Spec => UnregisterIsExact`, an action property |
| | `MonitoringPending`, `MonitoringRing` | `MCSpec => []PendingIsExact`, `MCSpec => []RingIsSentOnce` |
| | `SurveyCounting` | `MCSpec => []CountedOnce`: unless a retried level registered a callback again, the surveys of a file add up to what was handled, and are as many as it was opened at once |
| `Application_proofs` | `ActivityIdentity` | `MCSpec => []ActivityIdsUnique` |
| | `LayerReturn` | `MCSpec => []LayersReturn` |
| | `ReplayOrder` | `MCSpec => []ReplayFollows` |
| `Processing_proofs` | `NothingIsLost` | `Spec => []NoJobIsLost`, which includes what `shutdown` leaves behind |
| | `ListenerKnowledge`, `FetchConsistency` | `MCSpec => []ListenersKnow`, `MCSpec => []FetchIsConsistent` |
| | `ObservationCounting`, `AnomalyResponse` | `MCSpec => []ObservationsAreCounted`, `MCSpec => []AnomaliesTrigger` |
| `Communication_proofs` | `RegistryExact`, `NothingIsLeft` | `Spec => []RegistryIsExact`, `Spec => []GoneWhenDestroyed` |
| | `MessageDeletion`, `CleanDestruction` | `MCSpec => []DeletedOnce`, `MCSpec => []DestroyedClean` |
| | `ReferenceResolution`, `DestructionOrder` | `MCSpec => []ReferencesResolve`, `MCSpec => []DestroyedInOrder` |
| | `CatalogResolution` | `MCSpec => []CatalogsResolve` |
| `ActivityNetworkForwarder_proofs` | `Pending`, `RingSentOnce` | `ForwarderAssumption /\ Spec => []PendingIsExact` and `=> []RingIsSentOnce` |
| `Topologies_proofs` | `Mirrored`, `Refinement` | `RamSpec => []RelationsMirrored`, `RamSpec => ImplementsTopology` |
| | `DatabaseAgreement` | `MCSpec => []DatabaseAgrees` |
| | `RatingSoundness` | `MCSpec => []RatingsAreSound` |
| | `EntryResolution` | `MCSpec => []EntriesResolve` |
| | `AliasExpansion` | `MCSpec => []AliasesExpand` |

None of the properties is inductive alone.

**Queue.** `IInv` is the conjunction of

* `TypeOK`;
* `LockInv`: who holds the mutex and where, so that one producer at most is
  between its store and its publication;
* `RingInv`: `Size` is the number of activities accepted and not yet taken, slot
  by slot, and below the capacity. This needs the modular arithmetic of the
  indexes (`MaskNext`, `MaskDifference`, `PublishArithmetic`,
  `AdvanceArithmetic`), stated as lemmas about numbers;
* `NotifierInv`: what the notifier knows at each of its places, above all that
  past the exit test the queue is not empty. That test runs without the lock, and
  stays true only because producers can add to the queue but never take from it;
* `LossInv`: the balance of `lost` with a subtraction in progress;
* `CallsInv`: a call is accepted, dropped or under way;
* `LifeInv`: how the places of the notifier and of the stopping thread exclude
  each other.

That a slot is not overwritten rests on the lock and on the size a producer read,
which may be stale in one direction only. For the refinement, the slots between
the indexes map to the interval of ordinals from the last one read to the last one
accepted (`QueuedIsInterval`); a publication appends to the interval, a read takes
its head (`OrdinalsAppend`, `OrdinalsTake`), and all other steps leave it alone.

**Multiplexers.** A thread in a walk is among the readers of its list, so the
lists it walks cannot change (`ShapeInv`, `Walk`); `Progress` says that the calls
made so far are the part of those lists that the index has passed. That
`Dispatcher::remove` removes all entries of the listener and no other one, for
lists of every length (`RemoveExact`), is a statement about a loop that overwrites
what it walks: the entries behind the one it looks at are already clean in every
round.

**Job processor.** The queue and the finished jobs are increasing lists, so the
lists are replaced by the sets of their elements (`InvIsSetInv`): every job number
that was given out is pending, with the worker, finished, aborted or
cancelled, and only one of these (`PlaceInv`), everything finished is below the worker's job and that is
below the queue (`OrderInv`), and `WorkerInv` and `ShutdownInv` say what the
status permits. What is left of the lists are lemmas: an append, a push in front, a
poll and a removal from the middle keep the order and change the set by one element.

**Statistics collector.** `ToldInv` says that without a change that is announced, or
about to be, all listeners know the statistics except the one that `registerListener` is
about to tell; it needs the flags at every place of the polling thread, above all that
they are down while it notifies. `OwnerInv` says that the only statistic of a plugin is
there while the plugin is: `unregisterPlugin` removes one element from each of two lists,
and `PluginErased` and `StatisticErased` say which one is gone and that the others keep
their order. `StepInv` follows a time step from plugin to plugin and from element to
element of the buffer: the plugins behind the index have taken it (`value`), the elements
behind the index hold it (`Pushed`), and no plugin comes or goes before the push is done,
since the polling thread holds the lock of the sources. A reader copies the buffer only
while it is not being filled, so what it has agrees (`Agree`).

**Reasoner.** `ObservationsAreCounted` compares sums over the plugins of a reasoner, and a
fold takes the elements of a set in an order that nothing is known about. `Sums(F, f, D)`
says that `F` gives every subset of `D` its sum; there is such an `F` (`SumsExist`) and
the fold agrees with it (`FoldIsSum`), both by rounds over the size of the subset. What the
steps need follows: one more observation adds one (`SumGrows`), a round takes the part of
the connected plugins out (`SumTaken`), and other reasoners' sums stay (`SumSame`), because
no plugin reports to two. `ThreadInv` says that what is due was detected and the triggers
are next. An abnormal observation raises the total and a count of its own, so it is
detected whatever the ratios are (`AbnormalDetected`): the theorem does not depend on how
percentages are rounded, hence neither on totals below 40.

**GIO server.** Threads leave through `finishedThread`, each joining the one that
left before it. `JoinInv` says that this chain of joins misses nobody: only the last
one that left can still be on its way out, and every other one that ended was joined
once. `MutexInv` ties the removal from the registry to the mutex, `AcceptInv` says
that only the youngest thread accepts, `ResponseInv` that every request is queued,
answered or aborted.

**GIO client.** `OrderInv` says that what was written, what the sender holds and what is
queued are, one after the other, in the order of `isend`; a message that could not be
written goes back in front, where it still precedes the queue. `DeletedInv` says that
only what was written can be at the server or answered, so that the answer to a message
and the abort of the same message, which only meets messages that were not written,
exclude each other: this is why two threads that free messages never free the same one.
`KeptInv` says that a message that has not ended is in one of these places, hence none is
left when the destructor is done. `ThreadInv` describes the chain of joins: a thread is
created while `connection_ready_mutex` is held and joins its predecessor before it
releases it, so only the last one can be unjoined, and the destructor joins that one.

**Configurator and registrar.** `NumbersInv` says that the components of the section that is
being read have their own number plus the offset, above all others, so that a local
reference finds its own section. `MainInv` says that the section of the process comes
first with its numbers as they are, unless a load left something behind (`broken`), so
that a global reference finds it. `RefsInv` is the property itself with references as
positions of the list. `StartInv` says that a prefix of the list is initialised
(`Initialised`) and that what is started lies in it, `AliveInv` that what is alive is a
prefix too, since destruction goes backwards.

**Forwarder.** `CountInv` bounds the counter by the limit and the threads that
passed the test and did not increment yet (`Sending`), which is why it cannot
exceed the limit by more than the other threads. `OnceInv` gives every activity
one place: in a thread's hand, in the ring, or sent. `RingInv` describes the ring
as a window: with `Back(p, d)` the slot `d` before `p`, the last `n` inserted
activities are in the slots `Back(curPos, 1)` to `Back(curPos, n)` and the others are
empty; the trigger takes them from the far end. It holds unless a `stop` left
activities in the ring (`stale`), which is the exception that the property makes. `ForwarderAssumption` (a ring of at
least one slot, finitely many loggers with names of their own) is a hypothesis of
the theorems, since `MCMonitoring` instantiates the module; TLC evaluates it there.
`Monitoring_proofs` carries the theorems over to the specification that the run
checks: its steps are those of the forwarder, or leave the forwarder alone.

**File surveyor.** `CountedOnce` is about the behaviours in which no callback was registered
twice, and `IInv` is `ThreadsInv`, the shape of the threads' states, and `OnceInv` under the
same premise. Registrations only grow, so the premise of a state holds of those before it
(and the run need not go on where it fails).
It gives that a thread which logs calls one callback (`CalledOnce`), hence that every open
in progress has an ID of its own that has no survey yet (`SurveysInv`).
The sums over the collections are then compared step by step: the fold of
`SumFunction` is shown to be the sum over a finite set in whatever order it takes the
elements (`SumsExist`, `FoldIsSum`), one survey more adds its counters (`SurveyAdded`), and
surveys in other places add up to the same (`SurveysMoved`), which is what taking one out
of the list of closed surveys needs (`SurveyTaken`). Threads, files, lists of tokens,
positions, sizes and the number of calls are arbitrary.

**Low-level API.** `NumbersInv` says that threads have numbers of their own and have
used their ordinals below the next one, which makes the IDs unique across threads,
re-initialisations and forks. `StackInv` says that what has not ended is on exactly one
stack, above its parent. `PidInv` says that process and components know the pid of the
process except in the child between `fork` and `siox_handle_fork_complete` (`InChild`),
where no other thread exists and nothing can begin. `LayerInv` says that the pointer a
layer keeps is the registered component; `LifeInv` that nothing else goes on while there
is no library or it is being finalised; `CurrentInv` that the components of layers and of
activities on a stack are of the current initialisation, and that a layer that has called
back gets its component again in the callbacks of the main thread if not before. The
theorems are about `Overlap = FALSE`, as the run is: no other thread is inside an
instrumented function while the main thread finalises.

**Replay.** The property speaks of handles without a pending activity. `IInv` speaks of all:
there are entries `old` (a file and a position per handle, or none) that the plugin's
descriptors are at, the program has them behind the handles without a pending activity,
and a handle with one has exactly one, which leads from the old entry to the program's
(`Fits`, `After`). No two handles that the program opened share a descriptor and none of
them has 0; the inherited ones have 0, and streams the null pointer. Hence a close
takes only its own descriptor, and the next open, which takes the lowest free one, none
that another handle uses; what the map still says of a closed handle does not matter
because nothing but an open fits it. A step that loses, reorders or shortens something sets
`spoiled`, after which nothing is claimed. Each branch of `replayActivity` is shown to be one of four moves
(`ReplayOpens`, `ReplayCloses`, `ReplayMoves`, `ReplayStays`).

**Topology.** `LinkInv` and `MirrorInv` relate the child maps with the parent vectors:
they differ by exactly the relations whose writer holds the lock of the child map
and has not reached the vector. A thread between find and insert remembers only that
the key was absent, and the insertion tests again; `CallOK` records its arguments.
The abstract relation is the one that is in both (`Linked`), so an object enters the abstract
topology with its insertion and a relation with its second half. `RamSpec` lets
any caller call any operation with any arguments, hence the theorems do not depend
on the requests that `TopologyService` makes.

**Aliases.** `setAlias` checks the value before it takes the lock exclusively, so any
number of aliases may be set between the check and the insertion. `AliasInv` says that the
aliases have ranks that descend to a component (`Descending`), and that the value a thread
has checked is still there: aliases are never removed, and a name that has one keeps it.
Hence an insertion finds its value among the ranks and its name not, and takes the rank above
all others. From the ranks follows that the loop of `parsePathComponent` ends: `Expands`
bounds it by the number of names, and a walk that descends in every round cannot go on for
longer (`DescendingExpands`).

**Database topology.** Between two statements of a process the others may do anything
to the tables or die. What its second transaction relies on is that the object of its first one, or
the child it was given, is still there, which holds because no row is ever removed; that
a key has one row rests on the constraint that the insertion meets. How far an answer is
vouched for is `Returned`: that of a type or an attribute is the row, and so is that of a
registration which inserted it. A registration that finds its row answers with arguments
of its caller: of an object the number is the row's and the relation of the key leads to it,
but the type is not compared; of a relation there is a row with the key, but its child is
not compared.

**Histogram plugin.** `StoredWasLearned` and `HeldWasLearned` follow a range through the
topology: the maximum is stored before the minimum and read after it, so that a process
that finds a minimum finds a maximum, whoever died between the two. That a slower
activity is not rated better holds for every range a process may hold, one with the
minimum above the maximum included: the rating is a quotient by the width, which grows
with the duration, and from the maximum on every duration has the worst rating.

**Catalogs in files.** Each of the three has an invariant of its memory and one of what
the next process will read, and `CatalogInv` takes the one of the catalog that the
behaviour is about, for any number of threads, names, numbers and restarts, and for
every whole file of the site and every place at which a file may be torn.

* System information: the numbers in use lie below `Limit`, which is `nextID` or, while
  a thread is between taking a number and storing it, one less; every number that a
  forward map has leads back to its name and scope (`Consistent`). That holds although
  threads race in the forward map: an entry that is lost there or entered with 0 costs
  a name its number, but the maps that lead back are written under the mutex, and only
  at numbers that nobody has. `DiskInv` says that a process that took no number, and
  therefore does not save, has the maps that lead back as it read them. Numbers kept by
  earlier processes are spoken of only while the file of the site does not hide that of
  the user, and until a damaged file is read.
* Ontology: a name leads to the attribute that has it, every attribute is found under its
  name, and the name is null while the thread that holds the mutex makes the attribute
  (`MapInv`); from this follows that the second look under the mutex finds what another
  thread made, and no two attributes have one name. A meta attribute is set once (`Consistent`), so the search of
  `lookupAttributeIndex` has one answer.
* Association mapper: `Numbered` says that the vector holds different names and that
  `lastID` is one more than its length; the vector and the attributes in the file are part
  of those in memory, so what a process returned is found by the next one.

**Catalogs in a topology.** Every object has one parent, type and name (`Numbered`), so
the path of a call is read off its object: two calls that reach one object are of one
kind and set the same values on it, but for the last attribute of those that look first
(`CatalogSame`). Relations are never removed, hence what a path led to it leads to for
ever (`CatalogGrows`). `ValueInv` names for each value a call that set it, and
`ContentionInv` says that an object only one thread has found unset stays unset until that
thread sets it; so the values of a returned call change only on an object that two threads
found unset at once, the case that `contended` marks. A meta attribute shares its object
with the attribute, and may have the number of its type, name or domain. It is not set
then: the attribute was returned, so these three have values, and the lookup finds one
(`Setter`, `CatalogMeta`). That rests on `TypeComesLast`, which is therefore part of the
invariant and not only of the property. `lookup_attribute_by_name` finds the object of a
half-made attribute and its assertion fails; what is proved of it is that it finds
whatever a registration has returned, so that it fails on unfinished registrations only.

**Loops and lists.** The loops of `Dispatcher::remove` and of the queue's removal
are functions of the number of rounds. What holds in every round is shown by
`FirstFailure` in `ListTheorems`, as are the facts about sums of the reasoner and the surveyor: if a set
of rounds has the first one and with each its successor, a round outside it would have a
least one outside it, by the well-foundedness of the numbers below a bound. The set takes the place of the
predicate, which the provers could not instantiate.

**Assumptions.** `CapacityAssumption` (more than one slot, which the 256 of the
code satisfies), `ProducersAssumption` and its counterparts in the other modules
(names of threads, listeners and types differ), bounds that are natural numbers
(`ClientAssumption` is no more than that). `SectionsAssumption`: in a section of the
configuration the numbers of the modules differ and none is 0, which the code takes for
"no reference"; only sections of interfaces have global references, and to modules that
both the host's section and the global one define. `RangesAssumption`: the durations are
below the word, and `extremeBucketCount` and `slowFastBucketCount` are at least 1 and
below the number of buckets, as the defaults are (5, 20 and 100; section 5 tells what
happens with 0). `CollectorAssumption`: the value that stands for no plugin and no
listener is neither, and every plugin has at least one metric. `ReasonerAssumption`: a
reasoner has finitely many plugins and each plugin reports to one reasoner, the one it is
configured with. `SystemAssumption`, `OntologyAssumption` and `MapperAssumption`: the
file of the site was written by this code, so that its numbers lead back to names; a
torn file lacks something; the marks for nothing are no threads; and attributes belong to
processes or components, the two members of the file. `CatalogsAssumption`: objects have
numbers from 1 on, the calls are those of the three catalogs, and the attributes that
their `init` registers have different numbers. `ReplayAssumption`: descriptors are no
streams, the marks for nothing and for an inherited handle are neither files nor activities, and reads and writes
ask for at least one byte. `SurveyorAssumption`: positions, sizes and the
limit of a short seek are natural numbers. `ServiceAssumption`: there are finitely many names of aliases,
and none of them is a path component itself.
Every run evaluates those of the modules it uses.

**Model-checked only.** The liveness properties, which need fairness and ENABLED and are
beyond the prover. The safety properties of `Statistic`, the layers,
`GenericHistory`, and `AnswersAgree` of `TopologyService`: nothing known stands against a proof of most of
them, and section 7 says which come next. The reductions of `Statistic` are sums over
windows of any length, which would need induction over data.

## 5. Findings

* `queue_overload`: `Push` computes the size under a lock that `Pop` never
  takes. If the notifier drains the ring and tests `overloaded` between that
  computation and the assignment `overloaded = true`, the flag is set on an
  empty queue and nobody clears it: every later activity is discarded and the
  losses are not reported.
* `gio_client_reconnect`: `connection_established` is never reset, so a client
  whose connection broke does not reconnect, against the comment in
  `ServiceClient.hpp`.
* `lowlevel_double_register`: the assertion that an interface is not registered
  yet is evaluated before the lock is taken.
* `surveyor_retry`: a file surveyor whose initialisation failed after the first
  callbacks were registered retries it inside such a callback; the registration
  needs the multiplexer's lock, which the thread already holds shared.
* `database_topology`: `registerObject` of the database topology inserts the
  object and its relation in two transactions and does not look at whose relation
  it got: of two processes that register the same child, one is given an object
  without a parent.
* `layers_close`: the generated `close` removes the table entry after the real
  call; an `open` in another thread that was given the same descriptor in between
  loses its entry.

Met while modelling; each is in the model, and the property it limits says so
where it is defined:

* `SingleThreadedJobProcessor`: a job that fails during `shutdown(true)` is put
  back after the others were aborted; `stopProcessing` from another thread
  overwrites `SHUTTING_DOWN`; `startProcessing` after `stopProcessing` does not
  start a thread.
* `GIOClient`: the receiver may delete a message before the sender's
  `messageSendCB` has used it; a message that was written and never answered is
  not freed; two concurrent `ireconnect` calls, one from outside the callback,
  can wait for each other.
* `ThreadedStatisticsCollector::unregisterPlugin` leaves the loop after the
  first statistic of the plugin; a new collection takes its first values without
  a lock.
* `siox_enable_monitoring` also enables a SIOX that is not initialised or
  permanently disabled; a registration may start the modules again between the
  stop and the fork.
* File surveyor: `findParentAID` reads the open surveys without the lock, and a
  survey that is closed before it is used makes `at` throw `std::out_of_range`,
  while only `NotFoundError` is caught. A retried level registers the callbacks
  of its first tokens a second time: activities are then counted twice, and a survey
  opened twice for one activity replaces itself. The configurations of the repository
  have several tokens of a kind, so this can happen; `CountedOnce` promises nothing
  after it (`RegisteredOnce`).
* Forwarder: answers lost with a connection are never subtracted from
  `pendingActivities`; what a trigger drops at the limit is not counted as
  dropped; `stop` sets the positions back but leaves the ring. The registrar stops
  the forwarder before the multiplexer and the reasoner, so a callback may still
  run; the model stops it between callbacks.
* Reasoner: `start` does not reset `terminated`, so a reasoner that was stopped
  around a fork ends its new thread at once. The merge of issues into the local
  health writes to a copy made by the loop, and the occurrences pushed upstream
  are those of a fresh health, all 0. `nodeHealth->statistics` is written without
  `dataMutex`. With the in-memory communication, a push calls the server back
  while `dataMutex` is held.
* Cache of the topology: its relations are ordered by the child's name alone
  (`cacheHelper.cpp:31`), and the key refers to a string of the caller that is
  gone after the call. A lookup may therefore yield any cached relation, or none,
  and the model takes it so; `setAttribute` returns at once when the cached value
  equals the new one, although another process may have changed it.
* Network forwarder of the topology: a thread whose connection breaks while it waits is
  never woken, since the pending responses of a broken connection get no callback
  (`GIOClient.cpp:99-101`, `141-152`); the wait has no predicate, so a spurious wake-up is
  taken for a response.
* GIO: `sendSocketMessage` cannot be cancelled, so a peer that stays connected and does
  not read keeps the destructors of client and server waiting.
* Database topology: a registration that finds its row does not compare the type of the
  object (`DatabaseTopology.cpp:226-238`, although `Topology.hpp:28` says "Fail if
  preexisting childType does not match") or the child of the relation (`310-314`) with
  what it was asked for, and answers with the latter.
* File-based catalogs: two threads that register one interface or activity at once
  get two numbers, both of which lead back to the name. A damaged file leaves what
  was read before the damage, with the next number 1 (system information) or with
  numbers shifted (association mapper). The file of the site hides the process's
  own. In the ontology a thread may read the null pointer that another one has
  inserted a moment before, and meta attributes of attributes that were loaded are
  lost if nothing else was registered, since the file is then not written.
* Catalogs over a topology: the object numbers of meta attributes are used as
  attribute numbers, which may meet those of type, name and domain; two concurrent
  registrations of one attribute with different types both succeed;
  `lookup_attribute_by_name` asserts on an attribute whose registration was not
  finished.
* History plugin: `Notify` is registered last, so the retry in it never happens
  before the report; a token unknown at its level is not looked up again; an
  attribute that becomes known between the two lookups is registered with the
  optimizer and never unregistered, so that a destroyed history is asked for it; a first set of hints whose average is not a
  number stays the choice.
* Replay: `close` leaves the handle in the map; a handle that is not in the map is
  0, the plugin's own input, to which everything on inherited descriptors goes, and
  which a recorded `close(1)` closes; `fclose` is not replayed; the mode given to `fopen` has
  no room for its final 0.
* Histogram plugin: a learned range narrower than the number of buckets gives them
  the width 0, by which the next rating divides; a range that the buckets do not
  divide has durations below its maximum in a bucket past the last one; minimum and
  maximum of two processes may be loaded together; a type whose first durations are
  all the same never learns; with `extremeBucketCount` 0 a duration just below the
  maximum can be rated worse than one above it.
* HDF5, NetCDF and `MPI_File_close` test for an error after the table was
  changed, POSIX before.
* `AutoConfigurator::LoadConfiguration` leaves `registrarMutex` locked when
  options cannot be parsed; components of a load that failed are started with
  the next one, and global references may lead to them.

## 6. Not modelled

Weak memory order, running out of memory, and the wrap-around of 32-bit
ordinals other than the ring indexes. The text of configurations, the contents
of activities (attributes, errors, remote calls), SQL text, file formats and
reports. `PROJECT.json` lists every part left out with its reason. Producers that
never stop logging during `stop()`: the notifier leaves only when it finds the
queue empty, so `stop()` may then take as long as they do; the bound on calls
excludes this case.

A large share of the repository's lines has no behaviour of its own to check, and
no module stands for them: generated or stale copies of wrappers
(`tools/siox-skeleton-builder/layers/hdf5/hdf5-dlsym.c`), variants of the
annotated headers for the layers that replay or only record (`posix-deedless`,
`posix-replay`, which repeat the calls of the ones modelled), the online replay
(`replay-online`, generated and commented out of the build), the ASIO transport and
the system information in a database (commented out of the build), converters of trace formats (`otf2siox`), test programs and
utilities, serialisation, option classes, declarations and abstract interfaces in
headers, and plugins that read counters of the operating system or format output.

## 7. Plan

Done: the path of an activity from the wrapper of a layer through API,
multiplexers, queue and forwarder, the transport (job processor, GIO),
statistics, reasoner, topologies, catalogs, optimizer, replay, configuration,
the histogram plugin, and the proofs of section 4.
Left, in this order:

1. Proofs: `LinkedToOpener` of `InstrumentedLayer`, `AnswersAgree` of `TopologyService`.
2. The stop of a forwarder during a callback, and the node statistics of the
   reasoner.
3. Non-blocking MPI. (The groups, types and attributes of the HDF5 header carry no
   annotations, so their wrappers do nothing.)
