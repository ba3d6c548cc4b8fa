---- MODULE DriverLifecycle ----
(***************************************************************************)
(* The life of the driver, src/src/driver.rs and driver_entry of           *)
(* src/src/lib.rs: its components are created and registered one after     *)
(* the other, any step may fail, and deinit drops them in reverse order,   *)
(* at unload or after a failure.                                           *)
(*                                                                         *)
(* From the moment a callback is registered the system calls it in any     *)
(* thread.  A callback reaches the managers through Option::expect in the  *)
(* global driver, so a manager must be there as long as a callback may     *)
(* run.  That unregistering a callback waits for the calls in progress is  *)
(* a promise of FltUnregisterFilter, CmUnRegisterCallback and              *)
(* PsSetCreateProcessNotifyRoutine, assumed here.                          *)
(***************************************************************************)
EXTENDS Naturals, Sequences

CONSTANT Threads    \* threads of the system that callbacks run in

Components == {"process_manager", "rules_manager", "registry_manager", "minifilter"}
Callbacks == {"process", "registry", "file"}

\* Driver::init.  Steps named for a component create it; those named for a
\* callback register it.
InitPlan ==
    <<"process_manager", "process", "rules_manager", "load_rules",
      "registry_manager", "registry", "minifilter", "file", "start_filtering">>

\* RegistryManager::new and Minifilter::new only fill in a structure.
Infallible == {"registry_manager", "minifilter"}

\* Mutant: the rules go before the callback that updates them.
DeinitPlanRulesFirst ==
    <<"minifilter", "rules_manager", "registry_manager", "process_manager">>

\* Driver::deinit.
DeinitPlan == <<"minifilter", "registry_manager", "rules_manager", "process_manager">>

\* Mutant: no destructor for the process manager.
OwnedWithoutProcess(component) ==
    CASE component = "minifilter"       -> {"file"}
      [] component = "registry_manager" -> {"registry"}
      [] OTHER                          -> {}

\* The callbacks that the destructor of a component unregisters.
Owned(component) ==
    CASE component = "minifilter"       -> {"file"}
      [] component = "registry_manager" -> {"registry"}
      [] component = "process_manager"  -> {"process"}
      [] component = "rules_manager"    -> {}

\* The components a callback works with: instance_mut of a manager, and for
\* the registry the context pointer given at registration.
Uses(callback) ==
    CASE callback = "file"     -> {"process_manager", "rules_manager"}
      [] callback = "registry" -> {"registry_manager", "rules_manager"}
      [] callback = "process"  -> {"process_manager"}

VARIABLES
    phase,      \* what the driver is doing
    step,       \* the next step of the plan of this phase
    present,    \* the components that are Some
    registered, \* the callbacks the system may call
    filtering,  \* FltStartFiltering has been called
    running     \* thread -> the callback it is in

vars == <<phase, step, present, registered, filtering, running>>

Init ==
    /\ phase = "init" /\ step = 1
    /\ present = {} /\ registered = {} /\ filtering = FALSE
    /\ running = [t \in Threads |-> "none"]

\* Mutant: every step leaves something behind in the driver.
CreatedAlways(s) == {s}

\* The component a step creates.
Created(s) == {s} \intersect Components

InitStep ==
    LET s == InitPlan[step]
    IN  /\ phase = "init"
        /\ present' = present \union Created(s)
        /\ registered' = registered \union ({s} \intersect Callbacks)
        /\ filtering' = (s = "start_filtering")
        /\ IF step = Len(InitPlan) THEN phase' = "run" /\ step' = 1
                                   ELSE step' = step + 1 /\ UNCHANGED phase
        /\ UNCHANGED running

\* init returns an error and driver_entry calls deinit.
InitFails ==
    /\ phase = "init" /\ InitPlan[step] \notin Infallible
    /\ phase' = "deinit" /\ step' = 1
    /\ UNCHANGED <<present, registered, filtering, running>>

\* driver_unload_callback.
Unload ==
    /\ phase = "run" /\ phase' = "deinit"
    /\ UNCHANGED <<step, present, registered, filtering, running>>

\* The component deinit has come to.
Current == DeinitPlan[step]

\* Mutant: the destructor of the first component forgets to unregister.
UnregisterButFirst ==
    /\ phase = "deinit" /\ step # 1 /\ Current \in present
    /\ Owned(Current) \intersect registered # {}
    /\ registered' = registered \ Owned(Current)
    /\ UNCHANGED <<phase, step, present, filtering, running>>

\* The destructor unregisters its callback: no call of it starts any more.
Unregister ==
    /\ phase = "deinit" /\ Current \in present
    /\ Owned(Current) \intersect registered # {}
    /\ registered' = registered \ Owned(Current)
    /\ UNCHANGED <<phase, step, present, filtering, running>>

Busy(component) == \E t \in Threads : running[t] \in Owned(component)

\* The component goes away, after the calls in progress.
DropComponent ==
    /\ phase = "deinit"
    /\ Current \in present =>
         Owned(Current) \intersect registered = {} /\ ~Busy(Current)
    /\ present' = present \ {Current}
    /\ IF step = Len(DeinitPlan) THEN phase' = "down" /\ UNCHANGED step
                                 ELSE step' = step + 1 /\ UNCHANGED phase
    /\ UNCHANGED <<registered, filtering, running>>

EnterCallback(t, callback) ==
    /\ running[t] = "none" /\ callback \in registered
    /\ callback = "file" => filtering
    /\ running' = [running EXCEPT ![t] = callback]
    /\ UNCHANGED <<phase, step, present, registered, filtering>>

LeaveCallback(t) ==
    /\ running[t] # "none"
    /\ running' = [running EXCEPT ![t] = "none"]
    /\ UNCHANGED <<phase, step, present, registered, filtering>>

Next ==
    \/ InitStep \/ InitFails \/ Unload \/ Unregister \/ DropComponent
    \/ \E t \in Threads : LeaveCallback(t) \/ \E c \in Callbacks : EnterCallback(t, c)

Spec == Init /\ [][Next]_vars

\* Callbacks return, and the driver's own thread goes on.
FairSpec ==
    /\ Spec
    /\ WF_vars(InitStep \/ InitFails) /\ WF_vars(Unregister) /\ WF_vars(DropComponent)
    /\ \A t \in Threads : WF_vars(LeaveCallback(t))

----------------------------------------------------------------------------
(* Properties.                                                             *)

TypeOK ==
    /\ phase \in {"init", "run", "deinit", "down"}
    /\ step \in 1 .. Len(InitPlan)
    /\ present \subseteq Components /\ registered \subseteq Callbacks
    /\ filtering \in BOOLEAN
    /\ running \in [Threads -> Callbacks \union {"none"}]

\* A callback in progress finds every manager it works with: no expect panics
\* and the registry callback's context pointer is alive (instance_mut of each
\* manager, the order of init and deinit).
ManagersPresent ==
    \A t \in Threads : running[t] # "none" => Uses(running[t]) \subseteq present

\* Once the driver is down, nothing of it is registered and no thread is left
\* in its code, which the system is about to unmap (deinit after a failed init
\* leaves out only what was never created).
NothingLeftBehind ==
    phase = "down" =>
        present = {} /\ registered = {} /\ \A t \in Threads : running[t] = "none"

\* deinit ends: no destructor waits for ever for the calls in progress.
DeinitCompletes == phase = "deinit" ~> phase = "down"
====
