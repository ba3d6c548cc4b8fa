---- MODULE DriverLifecycleProofs ----
(***************************************************************************)
(* Proofs about DriverLifecycle, for any number of threads.                *)
(*                                                                         *)
(* ManagersPresent is not inductive: it says nothing of a callback that is *)
(* registered but not yet called, nor of which components a phase of the   *)
(* driver still has.  The invariant Inv adds both.                         *)
(***************************************************************************)
EXTENDS DriverLifecycle, TLAPS

\* The system may be, or come to be, in this callback.
InUse(c) == c \in registered \/ \E t \in Threads : running[t] = c

\* What the callbacks in use need is there, and so is the component whose
\* destructor will unregister them.
UsesHeld ==
    \A c \in Callbacks : InUse(c) =>
        Uses(c) \subseteq present /\ \E k \in present : c \in Owned(k)

\* The components that the finished steps of the phase have made or dropped.
PlanFollowed ==
    /\ phase = "init" =>
         \A i \in 1 .. 9 : i < step /\ InitPlan[i] \in Components => InitPlan[i] \in present
    /\ phase = "run" => step = 1
    /\ phase = "deinit" =>
         step \in 1 .. 4 /\ \A i \in 1 .. 4 : i < step => DeinitPlan[i] \notin present
    /\ phase = "down" => present = {}

Inv == TypeOK /\ UsesHeld /\ PlanFollowed

----------------------------------------------------------------------------
\* The plans, spelled out for the provers.
LEMMA PlanFacts ==
    /\ Len(InitPlan) = 9 /\ Len(DeinitPlan) = 4
    /\ InitPlan[1] = "process_manager" /\ InitPlan[2] = "process"
    /\ InitPlan[3] = "rules_manager" /\ InitPlan[4] = "load_rules"
    /\ InitPlan[5] = "registry_manager" /\ InitPlan[6] = "registry"
    /\ InitPlan[7] = "minifilter" /\ InitPlan[8] = "file"
    /\ InitPlan[9] = "start_filtering"
    /\ DeinitPlan[1] = "minifilter" /\ DeinitPlan[2] = "registry_manager"
    /\ DeinitPlan[3] = "rules_manager" /\ DeinitPlan[4] = "process_manager"
BY DEF InitPlan, DeinitPlan

\* A registration has one place in the plan.
LEMMA PlanPlaces ==
    \A i \in 1 .. 9 :
        /\ InitPlan[i] = "process" => i = 2
        /\ InitPlan[i] = "registry" => i = 6
        /\ InitPlan[i] = "file" => i = 8
<1> SUFFICES ASSUME NEW i \in 1 .. 9
             PROVE  /\ InitPlan[i] = "process" => i = 2
                    /\ InitPlan[i] = "registry" => i = 6
                    /\ InitPlan[i] = "file" => i = 8
  OBVIOUS
<1>1. \/ i = 1 \/ i = 2 \/ i = 3 \/ i = 4 \/ i = 5 \/ i = 6 \/ i = 7 \/ i = 8 \/ i = 9
  OBVIOUS
<1> QED  BY <1>1, PlanFacts

\* Which component owns a callback, and what each callback needs.
LEMMA OwnerFacts ==
    /\ Owned("minifilter") = {"file"} /\ Owned("registry_manager") = {"registry"}
    /\ Owned("process_manager") = {"process"} /\ Owned("rules_manager") = {}
    /\ Uses("file") = {"process_manager", "rules_manager"}
    /\ Uses("registry") = {"registry_manager", "rules_manager"}
    /\ Uses("process") = {"process_manager"}
BY DEF Owned, Uses

\* Before anything is created nothing is in use.
LEMMA InitInv == Init => Inv
<1> SUFFICES ASSUME Init PROVE Inv
  OBVIOUS
<1>1. TypeOK
  <2>1. step \in 1 .. Len(InitPlan)
    BY PlanFacts DEF Init
  <2>2. running \in [Threads -> Callbacks \union {"none"}]
    BY DEF Init
  <2>3. phase \in {"init", "run", "deinit", "down"} /\ filtering \in BOOLEAN
    BY DEF Init
  <2>4. present \subseteq Components /\ registered \subseteq Callbacks
    BY DEF Init
  <2> QED  BY <2>1, <2>2, <2>3, <2>4 DEF TypeOK
<1>2. UsesHeld
  BY DEF Init, UsesHeld, InUse, Callbacks
<1>3. PlanFollowed
  BY DEF Init, PlanFollowed
<1> QED  BY <1>1, <1>2, <1>3 DEF Inv

\* A step of Driver::init leaves the types right, keeps what is in use and
\* registers a callback only after the components it needs.
LEMMA InitStepInv == Inv /\ InitStep => Inv'
<1> SUFFICES ASSUME Inv, InitStep PROVE Inv'
  OBVIOUS
<1>1. step \in 1 .. 9 /\ phase = "init"
  BY PlanFacts DEF Inv, TypeOK, InitStep
<1>2. TypeOK'
  BY <1>1, PlanFacts DEF Inv, TypeOK, InitStep, Created, Callbacks
<1>3. PlanFollowed'
  <2>1. CASE step = 9
    BY <1>1, <2>1, PlanFacts DEF PlanFollowed, InitStep
  <2>2. CASE step # 9
    <3>1. phase' = "init" /\ step' = step + 1
      BY <1>1, <2>2, PlanFacts DEF InitStep
    <3>2. ASSUME NEW i \in 1 .. 9, i < step', InitPlan[i] \in Components
          PROVE  InitPlan[i] \in present'
      <4>1. CASE i = step
        BY <3>2, <4>1 DEF InitStep, Created
      <4>2. CASE i # step
        BY <1>1, <3>1, <3>2, <4>2 DEF Inv, PlanFollowed, InitStep
      <4> QED  BY <4>1, <4>2
    <3> QED  BY <3>1, <3>2 DEF PlanFollowed
  <2> QED  BY <2>1, <2>2
<1>4. UsesHeld'
  <2> SUFFICES ASSUME NEW c \in Callbacks, InUse(c)'
               PROVE  Uses(c) \subseteq present' /\ \E k \in present' : c \in Owned(k)
    BY DEF UsesHeld
  <2>1. CASE InUse(c)
    BY <2>1 DEF Inv, UsesHeld, InitStep
  <2>2. CASE ~InUse(c)
    <3>1. c = InitPlan[step]
      BY <2>2 DEF InUse, InitStep
    <3>2. c \in {"process", "registry", "file"}
      BY DEF Callbacks
    <3>3. CASE c = "process"
      <4>1. step = 2
        BY <1>1, <3>1, <3>3, PlanPlaces
      <4>2. "process_manager" \in present
        BY <1>1, <4>1, PlanFacts DEF Inv, PlanFollowed, Components
      <4> QED  BY <3>3, <4>2, OwnerFacts DEF InitStep
    <3>4. CASE c = "registry"
      <4>1. step = 6
        BY <1>1, <3>1, <3>4, PlanPlaces
      <4>2. {"rules_manager", "registry_manager"} \subseteq present
        BY <1>1, <4>1, PlanFacts DEF Inv, PlanFollowed, Components
      <4> QED  BY <3>4, <4>2, OwnerFacts DEF InitStep
    <3>5. CASE c = "file"
      <4>1. step = 8
        BY <1>1, <3>1, <3>5, PlanPlaces
      <4>2. {"process_manager", "rules_manager", "minifilter"} \subseteq present
        BY <1>1, <4>1, PlanFacts DEF Inv, PlanFollowed, Components
      <4> QED  BY <3>5, <4>2, OwnerFacts DEF InitStep
    <3> QED  BY <3>2, <3>3, <3>4, <3>5
  <2> QED  BY <2>1, <2>2
<1> QED  BY <1>2, <1>3, <1>4 DEF Inv

\* Dropping a component takes nothing away that a callback in use needs: what
\* used it belonged to a component dropped before, or was waited for.
LEMMA DropInv == Inv /\ DropComponent => Inv'
<1> SUFFICES ASSUME Inv, DropComponent PROVE Inv'
  OBVIOUS
<1>1. step \in 1 .. 4 /\ phase = "deinit"
  BY DEF Inv, PlanFollowed, DropComponent
<1>2. TypeOK'
  BY <1>1, PlanFacts DEF Inv, TypeOK, DropComponent
<1>3. PlanFollowed'
  <2>1. CASE step = 4
    <3>1. present' = {}
      BY <1>1, <2>1, PlanFacts
      DEF Inv, TypeOK, PlanFollowed, DropComponent, Current, Components
    <3> QED  BY <2>1, <3>1, PlanFacts DEF PlanFollowed, DropComponent
  <2>2. CASE step # 4
    <3>1. phase' = "deinit" /\ step' = step + 1
      BY <1>1, <2>2, PlanFacts DEF DropComponent
    <3>2. ASSUME NEW i \in 1 .. 4, i < step' PROVE DeinitPlan[i] \notin present'
      BY <1>1, <3>1, <3>2 DEF Inv, PlanFollowed, DropComponent, Current
    <3> QED  BY <1>1, <2>2, <3>1, <3>2 DEF PlanFollowed
  <2> QED  BY <2>1, <2>2
<1>4. UsesHeld'
  <2> SUFFICES ASSUME NEW c \in Callbacks, InUse(c)'
               PROVE  Uses(c) \subseteq present' /\ \E k \in present' : c \in Owned(k)
    BY DEF UsesHeld
  <2>1. InUse(c)
    BY DEF InUse, DropComponent
  <2>2. Uses(c) \subseteq present /\ \E k \in present : c \in Owned(k)
    BY <2>1 DEF Inv, UsesHeld
  <2>3. c \notin Owned(Current)
    BY <2>1, <2>2, PlanFacts, OwnerFacts, <1>1
    DEF InUse, DropComponent, Busy, Current, Inv, TypeOK, Components
  <2>4. \E k \in present' : c \in Owned(k)
    BY <2>2, <2>3 DEF DropComponent
  <2>5. Current \notin Uses(c)
    <3>1. c \in {"process", "registry", "file"}
      BY DEF Callbacks
    <3>2. CASE step = 1
      BY <3>1, <3>2, PlanFacts, OwnerFacts DEF Current
    <3>3. CASE step = 2
      BY <2>3, <3>1, <3>3, PlanFacts, OwnerFacts DEF Current
    <3>4. CASE step = 3
      <4>1. {"minifilter", "registry_manager"} \intersect present = {}
        BY <1>1, <3>4, PlanFacts DEF Inv, PlanFollowed
      <4>2. c = "process"
        BY <2>2, <3>1, <4>1, OwnerFacts DEF Inv, TypeOK, Components
      <4> QED  BY <3>4, <4>2, PlanFacts, OwnerFacts DEF Current
    <3>5. CASE step = 4
      <4>1. {"minifilter", "registry_manager"} \intersect present = {}
        BY <1>1, <3>5, PlanFacts DEF Inv, PlanFollowed
      <4>2. c = "process"
        BY <2>2, <3>1, <4>1, OwnerFacts DEF Inv, TypeOK, Components
      <4> QED  BY <2>3, <3>5, <4>2, PlanFacts, OwnerFacts DEF Current
    <3> QED  BY <1>1, <3>2, <3>3, <3>4, <3>5
  <2> QED  BY <2>2, <2>4, <2>5 DEF DropComponent
<1> QED  BY <1>2, <1>3, <1>4 DEF Inv

\* Inv is inductive.
LEMMA StepInv == Inv /\ [Next]_vars => Inv'
<1> SUFFICES ASSUME Inv, [Next]_vars PROVE Inv'
  OBVIOUS
<1>1. CASE InitStep
  BY <1>1, InitStepInv
<1>2. CASE InitFails
  BY <1>2, PlanFacts
  DEF InitFails, Inv, TypeOK, UsesHeld, PlanFollowed, InUse
<1>3. CASE Unload
  BY <1>3, PlanFacts
  DEF Unload, Inv, TypeOK, UsesHeld, PlanFollowed, InUse
<1>4. CASE Unregister
  BY <1>4 DEF Unregister, Inv, TypeOK, UsesHeld, PlanFollowed, InUse
<1>5. CASE DropComponent
  BY <1>5, DropInv
<1>6. ASSUME NEW t \in Threads, LeaveCallback(t) PROVE Inv'
  BY <1>6 DEF LeaveCallback, Inv, TypeOK, UsesHeld, PlanFollowed, InUse, Callbacks
<1>7. ASSUME NEW t \in Threads, NEW c \in Callbacks, EnterCallback(t, c) PROVE Inv'
  BY <1>7 DEF EnterCallback, Inv, TypeOK, UsesHeld, PlanFollowed, InUse, Callbacks
<1>8. CASE UNCHANGED vars
  BY <1>8 DEF vars, Inv, TypeOK, UsesHeld, PlanFollowed, InUse
<1> QED  BY <1>1, <1>2, <1>3, <1>4, <1>5, <1>6, <1>7, <1>8 DEF Next

\* The driver's state stays within its types.
THEOREM TypeCorrect == Spec => []TypeOK
<1>1. Inv => TypeOK
  BY DEF Inv
<1> QED  BY <1>1, InitInv, StepInv, PTL DEF Spec

\* No callback ever finds a manager missing, for any number of threads and
\* whichever step of the initialisation fails (the order in driver.rs).
THEOREM ManagersAlwaysPresent == Spec => []ManagersPresent
<1>1. Inv => ManagersPresent
  BY DEF Inv, TypeOK, UsesHeld, InUse, ManagersPresent
<1> QED  BY <1>1, InitInv, StepInv, PTL DEF Spec

\* When deinit has ended, nothing of the driver is registered or running.
THEOREM NothingStaysBehind == Spec => []NothingLeftBehind
<1>1. Inv => NothingLeftBehind
  BY DEF Inv, TypeOK, UsesHeld, PlanFollowed, InUse, NothingLeftBehind
<1> QED  BY <1>1, InitInv, StepInv, PTL DEF Spec
====
