-------------------------- MODULE AutoConfigurator --------------------------
(***************************************************************************)
(* AutoConfigurator, ComponentRegistrar and util::LoadConfiguration: the   *)
(* sections of the configuration become components that refer to each      *)
(* other by number, are initialised, started, stopped and destroyed.       *)
(*                                                                         *)
(* The process loads the section of its host, or the global one if that    *)
(* throws, and later one section per interface; the callers serialise the  *)
(* loads, so there is one thread.  A module in a section has an id and     *)
(* references, local to the section or global.  Each step of a load may    *)
(* fail in the way Faults names.  The names and the text of the            *)
(* configuration are left out.                                             *)
(***************************************************************************)
EXTENDS Integers, Sequences, FiniteSets, FiniteSetsExt

CONSTANTS
    Config,      \* section name -> sequence of [id, refs, mandatory]
    Faults,      \* subset of {"missing", "module", "instance", "options", "init"}
    MaxLoads,    \* bound: calls of LoadConfiguration
    MaxForks     \* bound: stop and start around a fork

Interfaces == DOMAIN Config \ {"host", "global"}

Ids(s) == {Config[s][k].id : k \in DOMAIN Config[s]}

\* Numbers of a section are different and not 0, which stands for no reference;
\* a global reference is meant for a module of the process's section, and only
\* the sections of interfaces have them.
ConfigAssumption ==
    /\ {"host", "global"} \subseteq DOMAIN Config
    /\ \A s \in DOMAIN Config :
          /\ Config[s] \in Seq([id : Nat \ {0}, mandatory : BOOLEAN,
                                refs : SUBSET [id : Nat \ {0}, global : BOOLEAN]])
          /\ \A k, l \in DOMAIN Config[s] : Config[s][k].id = Config[s][l].id => k = l
          /\ \A k \in DOMAIN Config[s] : \A r \in Config[s][k].refs :
                r.global => s \in Interfaces /\ r.id \in Ids("host") \cap Ids("global")
    /\ {MaxLoads, MaxForks} \subseteq Nat

VARIABLES
    list,                \* registered components, in the order of registration
    maxComponentNumber,
    registrarMutex, autoConfiguratorOffset,
    pc, section, next,   \* the load: place, section, next module or component
    loads, forks,
    broken               \* loads that threw with registered components left,
                         \* or with the mutex locked
registrarVars == <<list, maxComponentNumber>>
loadVars == <<registrarMutex, autoConfiguratorOffset, section, next, loads, broken>>
vars == <<registrarVars, loadVars, pc, forks>>

-----------------------------------------------------------------------------
(* The registrar.                                                          *)

\* map[nr]
Numbered(nr) == {i \in DOMAIN list : list[i].nr = nr}

\* Mutant: every reference is taken as global.
targetGlobal(r) == r.id

\* The number a reference stands for.
Target(r) == r.id + (IF r.global THEN 0 ELSE autoConfiguratorOffset)

Resolves(m) == \A r \in m.refs : Numbered(Target(r)) # {}

registerComponent(m) ==
    LET nr == m.id + autoConfiguratorOffset IN
    /\ list' = Append(list,
         [nr |-> nr, id |-> m.id, section |-> section, load |-> loads,
          refs |-> {[to |-> CHOOSE i \in Numbered(Target(r)) : TRUE, id |-> r.id,
                     global |-> r.global] : r \in m.refs},
          mandatory |-> m.mandatory, inited |-> FALSE, started |-> FALSE, alive |-> TRUE])
    /\ maxComponentNumber' = Max({maxComponentNumber, nr})

\* start, stop and stopNonMandatoryModules: all components of a set
Set(S, value) == list' = [i \in DOMAIN list |->
                            IF i \in S THEN [list[i] EXCEPT !.started = value] ELSE list[i]]

-----------------------------------------------------------------------------
(* LoadConfiguration.                                                      *)

\* The exception is caught: the host's section falls back to the global one,
\* that of an interface is ignored, and without the global one SIOX is off.
Throw ==
    /\ pc' = IF section = "host" THEN "call" ELSE IF section = "global" THEN "failed" ELSE "ready"
    /\ section' = IF section = "host" THEN "global" ELSE section

\* siox_ctor, or siox_component_register of an interface
LoadConfiguration(s) ==
    /\ (pc = "none" /\ s = "host") \/ (pc = "ready" /\ s \in Interfaces)
    /\ loads < MaxLoads
    /\ pc' = "call" /\ section' = s
    /\ UNCHANGED <<registrarVars, registrarMutex, autoConfiguratorOffset, next, loads, broken,
                   forks>>

getConfiguration ==
    /\ pc = "call" /\ loads' = loads + 1
    /\ \/ pc' = "lock" /\ UNCHANGED section
       \/ "missing" \in Faults /\ Throw
    /\ UNCHANGED <<registrarVars, registrarMutex, autoConfiguratorOffset, next, broken, forks>>

lock ==
    /\ pc = "lock" /\ ~registrarMutex
    /\ registrarMutex' = TRUE /\ autoConfiguratorOffset' = maxComponentNumber
    /\ next' = 1 /\ pc' = "parse"
    /\ UNCHANGED <<registrarVars, section, loads, broken, forks>>

\* The description of a module is not understood.
parseFails ==
    /\ pc = "parse" /\ next <= Len(Config[section]) /\ "module" \in Faults
    /\ registrarMutex' = FALSE /\ Throw /\ broken' = (broken \/ next > 1)
    /\ UNCHANGED <<registrarVars, autoConfiguratorOffset, next, loads, forks>>

\* The module cannot be instantiated: ModuleError is not among the exceptions
\* LoadConfiguration declares, so the process is terminated.
module_create_instance ==
    /\ pc = "parse" /\ next <= Len(Config[section]) /\ "instance" \in Faults
    /\ pc' = "terminated"
    /\ UNCHANGED <<registrarVars, loadVars, forks>>

\* The options are not understood, or a reference leads nowhere: the mutex stays locked.
SetConfigurationFails ==
    /\ pc = "parse" /\ next <= Len(Config[section])
    /\ "options" \in Faults \/ ~Resolves(Config[section][next])
    /\ Throw /\ broken' = TRUE
    /\ UNCHANGED <<registrarVars, registrarMutex, autoConfiguratorOffset, next, loads, forks>>

SetConfiguration ==
    /\ pc = "parse" /\ next <= Len(Config[section]) /\ Resolves(Config[section][next])
    /\ registerComponent(Config[section][next])
    /\ next' = next + 1
    /\ UNCHANGED <<registrarMutex, autoConfiguratorOffset, pc, section, loads, broken, forks>>

unlock ==
    /\ pc = "parse" /\ next > Len(Config[section])
    /\ registrarMutex' = FALSE /\ pc' = "init"
    /\ next' = Len(list) - Len(Config[section]) + 1
    /\ UNCHANGED <<registrarVars, autoConfiguratorOffset, section, loads, broken, forks>>

initAllComponents ==
    /\ pc = "init" /\ next <= Len(list)
    /\ \/ /\ list' = [list EXCEPT ![next].inited = TRUE]
          /\ next' = next + 1 /\ UNCHANGED <<pc, section, broken>>
       \/ /\ "init" \in Faults /\ Throw /\ broken' = TRUE
          /\ UNCHANGED <<list, next>>
    /\ UNCHANGED <<maxComponentNumber, registrarMutex, autoConfiguratorOffset, loads, forks>>

\* LoadConfiguration returns, or a fork is over, and the registrar starts
\* whatever is registered.
start ==
    /\ (pc = "init" /\ next > Len(list)) \/ pc = "forking"
    /\ Set(DOMAIN list, TRUE) /\ pc' = "ready"
    /\ UNCHANGED <<maxComponentNumber, loadVars, forks>>

-----------------------------------------------------------------------------
(* Fork and the end.                                                       *)

stop ==
    /\ pc = "ready" /\ forks < MaxForks /\ forks' = forks + 1
    /\ Set(DOMAIN list, FALSE) /\ pc' = "forking"
    /\ UNCHANGED <<maxComponentNumber, loadVars>>

\* finalizeSIOX: the reporters run between the two.
stopNonMandatoryModules ==
    /\ pc = "ready" /\ pc' = "report"
    /\ Set({i \in DOMAIN list : ~list[i].mandatory}, FALSE)
    /\ UNCHANGED <<maxComponentNumber, loadVars, forks>>

\* For the reporters SIOX registers its own overhead statistics as number -1.
\* (No load follows, so maxComponentNumber is not used any more.)
reportOverhead ==
    /\ pc = "report" /\ pc' = "reported"
    /\ list' = Append(list,
         [nr |-> -1, id |-> -1, section |-> "generic", load |-> loads + 1, refs |-> {},
          mandatory |-> FALSE, inited |-> FALSE, started |-> FALSE, alive |-> TRUE])
    /\ UNCHANGED <<maxComponentNumber, loadVars, forks>>

stopAll ==
    /\ pc \in {"report", "reported"} /\ pc' = "shutdown"
    /\ Set(DOMAIN list, FALSE)
    /\ UNCHANGED <<maxComponentNumber, loadVars, forks>>

Alive == {i \in DOMAIN list : list[i].alive}

\* Mutant: in the order of registration.
shutdownForward ==
    /\ pc = "shutdown" /\ Alive # {}
    /\ list' = [list EXCEPT ![Min(Alive)].alive = FALSE]
    /\ UNCHANGED <<maxComponentNumber, loadVars, pc, forks>>

\* finalize and delete of the next component, last one first
shutdown ==
    /\ pc = "shutdown" /\ Alive # {}
    /\ list' = [list EXCEPT ![Max(Alive)].alive = FALSE]
    /\ UNCHANGED <<maxComponentNumber, loadVars, pc, forks>>

-----------------------------------------------------------------------------
Init ==
    /\ list = << >> /\ maxComponentNumber = 0
    /\ registrarMutex = FALSE /\ autoConfiguratorOffset = 0
    /\ pc = "none" /\ section = "host" /\ next = 1
    /\ loads = 0 /\ forks = 0 /\ broken = FALSE

Load == getConfiguration \/ lock \/ parseFails \/ module_create_instance
        \/ SetConfigurationFails \/ SetConfiguration \/ unlock \/ initAllComponents
        \/ start

Next ==
    \/ \E s \in DOMAIN Config : LoadConfiguration(s)
    \/ Load \/ stop \/ stopNonMandatoryModules \/ reportOverhead \/ stopAll \/ shutdown

\* The thread that loads a configuration keeps running.
Spec == Init /\ [][Next]_vars /\ WF_vars(Load)

-----------------------------------------------------------------------------
\* The assertions of registerComponent, which hold whatever sections are loaded
\* and whichever loads failed half way: no two components share a number and
\* none is 0, so that a reference has one meaning.
NumbersAreUnique ==
    /\ pc \in {"none", "call", "lock", "parse", "init", "ready", "forking", "report", "reported",
               "shutdown", "failed", "terminated"}
    /\ \A i, j \in DOMAIN list : list[i].nr # 0 /\ (list[i].nr = list[j].nr => i = j)

\* A local reference leads to the component of that id of the same section and
\* load, a global one to that of the section of the process, and both to a
\* component that is initialised before the one that refers to it starts.  (After
\* a load that threw half way the numbers from 1 belong to what it left behind.)
\* A number has one meaning (NumbersAreUnique).
ReferencesResolve ==
    /\ NumbersAreUnique
    /\ \A i \in DOMAIN list : \A r \in list[i].refs :
        LET to == list[r.to] IN
        /\ r.to < i
        /\ ~r.global => to.load = list[i].load /\ to.id = r.id
        /\ ~broken /\ r.global => to.section \in {"host", "global"} /\ to.id = r.id
        /\ ~broken /\ list[i].started => to.inited

\* A component is destroyed after every component that refers to it, since its
\* finalize() and destructor still use those references, and only when nothing
\* runs any more.
DestroyedInOrder ==
    \A i \in DOMAIN list :
        /\ list[i].alive => \A r \in list[i].refs : list[r.to].alive
        /\ ~list[i].alive => \A j \in DOMAIN list : ~list[j].started

\* A load returns: with components, with the fallback, or with an exception that
\* the caller sees; or the process is terminated.  (Unless options were wrong
\* before: that exception leaves registrarMutex locked, and the next load waits
\* for it for ever.)
LoadEnded == pc \in {"ready", "failed", "terminated"} \/ (broken /\ registrarMutex)
LoadReturns == pc = "call" ~> LoadEnded

-----------------------------------------------------------------------------
(* The inductive invariant of ReferencesResolve and DestroyedInOrder.      *)

Component ==
    [nr : Int, id : Int, section : DOMAIN Config \cup {"generic"}, load : Nat,
     refs : SUBSET [to : Nat, id : Nat, global : BOOLEAN],
     mandatory : BOOLEAN, inited : BOOLEAN, started : BOOLEAN, alive : BOOLEAN]

TypeOK ==
    /\ list \in Seq(Component)
    /\ {maxComponentNumber, autoConfiguratorOffset, loads} \subseteq Nat
    /\ next \in Nat \ {0} /\ section \in DOMAIN Config /\ broken \in BOOLEAN
    /\ pc = "none" => section = "host"

\* Numbers grow from load to load; while a section is read its components have
\* the numbers above the offset.
NumbersInv ==
    /\ NumbersAreUnique
    /\ \A i \in DOMAIN list : list[i].nr <= maxComponentNumber /\ list[i].load <= loads + 1
    /\ pc \notin {"reported", "shutdown"} =>
         \A i \in DOMAIN list : list[i].nr > 0 /\ list[i].load <= loads
    /\ pc = "lock" => \A i \in DOMAIN list : list[i].load < loads
    /\ pc = "parse" =>
         /\ next <= Len(Config[section]) + 1 /\ next <= Len(list) + 1
         /\ \A i \in DOMAIN list :
               IF list[i].load < loads THEN list[i].nr <= autoConfiguratorOffset
               ELSE /\ list[i].nr = list[i].id + autoConfiguratorOffset
                    /\ \E k \in 1 .. next - 1 : list[i].id = Config[section][k].id

\* The first n modules of section s are the first components, under their own numbers.
FirstAre(s, n) ==
    /\ n <= Len(list)
    /\ \A k \in 1 .. n : /\ list[k].nr = Config[s][k].id /\ list[k].id = Config[s][k].id
                         /\ list[k].section = s

\* Unless a load left something behind, the section of the process comes first.
MainInv ==
    ~broken =>
       IF section \in Interfaces \/ pc \in {"init", "ready", "forking", "report", "reported",
                                            "shutdown"}
       THEN \E s \in {"host", "global"} : FirstAre(s, Len(Config[s]))
       ELSE IF pc \in {"parse", "terminated"}
       THEN pc = "parse" =>
              /\ autoConfiguratorOffset = 0 /\ (next = 1 => maxComponentNumber = 0)
              /\ Len(list) = next - 1 /\ FirstAre(section, next - 1)
       ELSE list = << >> /\ maxComponentNumber = 0

RefsInv ==
    \A i \in DOMAIN list : \A r \in list[i].refs :
        /\ r.to \in 1 .. i - 1
        /\ ~r.global => list[r.to].load = list[i].load /\ list[r.to].id = r.id
        /\ ~broken /\ r.global => list[r.to].section \in {"host", "global"} /\ list[r.to].id = r.id

\* How many of the components are initialised for sure.
Initialised ==
    CASE pc = "parse" -> Len(list) - (next - 1)
      [] pc = "init" -> next - 1
      [] pc \in {"none", "call", "lock", "ready", "forking"} -> Len(list)
      [] OTHER -> 0

StartInv ==
    ~broken =>
        /\ \A i \in DOMAIN list : i <= Initialised => list[i].inited
        /\ \A i, j \in DOMAIN list : list[i].started /\ j <= i => list[j].inited

\* Destruction goes from the last component to the first, when all have stopped.
AliveInv ==
    /\ pc # "shutdown" => \A i \in DOMAIN list : list[i].alive
    /\ pc = "shutdown" => \A i \in DOMAIN list : ~list[i].started
    /\ \E n \in 0 .. Len(list) : \A i \in DOMAIN list : list[i].alive <=> i <= n

IInv == TypeOK /\ NumbersInv /\ MainInv /\ RefsInv /\ StartInv /\ AliveInv
=============================================================================
