-------------------------- MODULE MfxC2ComponentStore --------------------------
(***************************************************************************)
(* The life of the components of the service: MfxC2ComponentStore makes    *)
(* them (c2_store/src/mfx_c2_store.cpp) through the entry of a module and  *)
(* its registry (mfx_c2_components_registry.cpp, Factory), counts them per *)
(* name (mfx_c2_components_monitor.cpp), refuses in start() to run more    *)
(* than the configured number, and deletes them when the last reference is *)
(* dropped.  The interface createInterface returns is a component, too.    *)
(*                                                                         *)
(* Several binder threads do all this at the same time; a component is     *)
(* driven by the thread that made it.                                      *)
(***************************************************************************)
EXTENDS Naturals, FiniteSets

CONSTANTS Threads,    \* binder threads
          Names,      \* component names, known to the configuration or not
          Modules,    \* shared objects
          NoModule,   \* a module that is not there
          MaxMade     \* bound: components made

VARIABLES
  registry,  \* m_componentsRegistry_: per name <<>> or its description
  built,     \* MfxC2ComponentsRegistry of every module: the names it can make
  monitor,   \* MfxC2ComponentsMonitor
  handles,   \* per module, the handles of dlopen not yet closed
  thread,    \* per thread, where it is in its call
  objects,   \* the components that exist: those constructed and not yet deleted
  started,   \* the components start() let through its check and that were not stopped since
  made       \* how many were constructed
storeVars == <<registry, built, monitor, handles, thread, objects, started, made>>

Idle == [at |-> "idle"]
At(t, step) == thread[t].at = step

-----------------------------------------------------------------------------
(* Create: readXmlConfigFile and readConfigFile *)

\* A line of the configuration file has a name, a module and flags; emplace keeps the first
\* line of a name.  The limit of the instances is what the XML says, 32 by default.
ReadConfig(lines, limit) ==
    [n \in Names |-> LET of == { k \in DOMAIN lines : lines[k].name = n }
                     IN IF of = {} THEN <<>>
                        ELSE << [dso |-> lines[CHOOSE k \in of : \A l \in of : k <= l].dso,
                                 limit |-> limit[n]] >>]

Configurations == { ReadConfig(lines, limit) :
                      lines \in [name : Names, dso : Modules]
                                  \X [name : Names, dso : Modules \cup {NoModule}],
                      limit \in [Names -> 1 .. 2] }

Init == /\ registry \in Configurations
        /\ built \in [Modules -> SUBSET Names]
        /\ monitor = [n \in Names |-> 0]
        /\ handles = [d \in Modules |-> 0]
        /\ thread = [t \in Threads |-> Idle]
        /\ objects = {} /\ started = {} /\ made = 0

-----------------------------------------------------------------------------
(* createComponent, createInterface *)

\* loadModule; an unknown name, and a module that cannot be loaded or has no entry, end the
\* call with C2_NOT_FOUND.
CreateComponent(t, name) ==
    /\ At(t, "idle") /\ registry[name] # <<>>
    /\ registry[name][1].dso \in Modules
    /\ handles' = [handles EXCEPT ![registry[name][1].dso] = @ + 1]
    /\ thread' = [thread EXCEPT ![t] = [at |-> "loaded", name |-> name,
                                        dso |-> registry[name][1].dso]]
    /\ UNCHANGED <<registry, built, monitor, objects, started, made>>

\* MfxC2ComponentsRegistry::CreateMfxC2Component: the factory's constructor counts the instance.
Construct(t) ==
    /\ At(t, "loaded") /\ made < MaxMade
    /\ LET name == thread[t].name
       IN /\ name \in built[thread[t].dso]
          /\ made' = made + 1
          /\ objects' = objects \cup {[id |-> made + 1, name |-> name, dso |-> thread[t].dso]}
          /\ monitor' = [monitor EXCEPT ![name] = @ + 1]
          /\ thread' = [thread EXCEPT ![t] = [at |-> "init",
                          it |-> [id |-> made + 1, name |-> name, dso |-> @.dso]]]
    /\ UNCHANGED <<registry, built, handles, started>>

\* Init succeeds: the handle goes to the deleter of the component.
InitOK(t) == /\ At(t, "init")
             /\ thread' = [thread EXCEPT ![t].at = "owner"]
             /\ UNCHANGED <<registry, built, monitor, handles, objects, started, made>>

Decrease(name) == monitor' = [monitor EXCEPT ![name] = IF @ = 0 THEN 0 ELSE @ - 1]

Delete(t) == /\ objects' = objects \ {thread[t].it}
             /\ started' = started \ {thread[t].it}
             /\ Decrease(thread[t].it.name)
             /\ thread' = [thread EXCEPT ![t] = [at |-> "unload", dso |-> @.it.dso]]
             /\ UNCHANGED <<registry, built, handles, made>>

\* Init fails: the factory deletes the component, and createComponent closes the module.
InitFails(t) == At(t, "init") /\ Delete(t)

\* The module does not know the name, or there is no memory for the component.
NotFound(t) == /\ At(t, "loaded")
               /\ thread' = [thread EXCEPT ![t] = [at |-> "unload", dso |-> @.dso]]
               /\ UNCHANGED <<registry, built, monitor, handles, objects, started, made>>

Unload(t) == /\ At(t, "unload")
             /\ handles' = [handles EXCEPT ![thread[t].dso] = @ - 1]
             /\ thread' = [thread EXCEPT ![t] = Idle]
             /\ UNCHANGED <<registry, built, monitor, objects, started, made>>

-----------------------------------------------------------------------------
(* The client has the component, or the interface *)

Limit(name) == registry[name][1].limit

\* Slip: the number itself is let through once more.
MayStartOneMore(name) == monitor[name] <= Limit(name) + 1

MayStart(name) == monitor[name] <= Limit(name)

\* The check at the head of start(); the component starts some time after it.
StartChecks(t) == /\ At(t, "owner") /\ thread[t].it \notin started
                  /\ MayStart(thread[t].it.name)
                  /\ started' = started \cup {thread[t].it}
                  /\ UNCHANGED <<registry, built, monitor, handles, thread, objects, made>>

\* stop(), or DoStart failed.
Stopped(t) == /\ At(t, "owner") /\ thread[t].it \in started
              /\ started' = started \ {thread[t].it}
              /\ UNCHANGED <<registry, built, monitor, handles, thread, objects, made>>

\* The last reference is dropped: delete, then dlclose.
LastReference(t) == At(t, "owner") /\ Delete(t)

Next == \E t \in Threads :
          \/ \E name \in Names : CreateComponent(t, name)
          \/ Construct(t) \/ InitOK(t) \/ InitFails(t) \/ NotFound(t) \/ Unload(t)
          \/ StartChecks(t) \/ Stopped(t) \/ LastReference(t)

Spec == Init /\ [][Next]_storeVars

-----------------------------------------------------------------------------
(* Properties *)

Steps == {"idle", "loaded", "init", "owner", "unload"}
StoreTypeOK ==
    /\ monitor \in [Names -> Nat] /\ handles \in [Modules -> Nat] /\ made \in 0 .. MaxMade
    /\ \A t \in Threads : thread[t].at \in Steps
    /\ started \subseteq objects

Named(set, name) == { o \in set : o.name = name }

\* No more components of a name run than the configuration allows, however creating,
\* starting and deleting them interleave: the check looks at a count that changes at any
\* moment (start, MfxC2ComponentsMonitor).
RunningWithinLimit == \A n \in Names : started # {} /\ registry[n] # <<>> =>
                                         Cardinality(Named(started, n)) <= Limit(n)

\* The count of a name is the number of its components, those whose Init failed and those
\* that are only interfaces included: it does not drift.
CountIsExact == \A n \in Names : monitor[n] = Cardinality(Named(objects, n))

\* The code of a component is loaded for as long as it exists, its destructor included.
LoadedWhileAlive == \A d \in Modules : handles[d] >= Cardinality({ o \in objects : o.dso = d })
=============================================================================
