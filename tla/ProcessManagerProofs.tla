---- MODULE ProcessManagerProofs ----
(***************************************************************************)
(* Proofs about ProcessManager, for any number of requesters, pids and     *)
(* process starts, with queries and insertions that may fail, and with     *)
(* lookups that find a process after its exit notification.                *)
(*                                                                         *)
(* The properties are about what a request ends up with.  Inv carries them *)
(* through the request: a process is pinned while its own request runs, a  *)
(* parent cannot be notified of while its lookup holds the lock, and so    *)
(* what a request has read in time stays true until it is inserted.        *)
(***************************************************************************)
EXTENDS ProcessManager, TLAPS

\* The process is there and its exit notification is still to come.
Present(p) == os[p].state \in {"running", "exiting"}

\* The info is about the present user of the pid.
About(info, p) == info.serial = os[p].serial /\ info.parent = os[p].parent

\* A process is never confused with an empty entry, nor is what was read of it.
SystemOK == \A p \in Pids : os[p].state # "free" => os[p].serial # 0
EntriesNamed == \A p \in Pids : processes[p] # NoInfo => processes[p].serial # 0

\* A timely link leads to the process it was made for.
LinksOK ==
    \A p \in Pids : processes[p].timely /\ processes[p].ppid # NoPid =>
        /\ Present(processes[p].ppid)
        /\ os[processes[p].ppid].serial = processes[p].parent

\* A request of either level: whom it is for, whom it looks up.
TargetOK(r) ==
    LET q == requests[r]
    IN  /\ q.pc = "idle" => q.level = "own" /\ ~q.shared
        /\ q.pc # "idle" => q.pid \in Pids /\ os[q.pid].state = "running"
        /\ q.pc \in {"lookup", "query", "add"} => q.target \in Pids
        /\ q.pc \in {"lookup", "query", "add"} /\ q.level = "own" => q.target = q.pid
        /\ q.pc \in {"decide", "check"} => q.level = "own"

\* What it has read is still so.
ReadOK(r) ==
    LET q == requests[r]
    IN  /\ q.pc = "add" => Read(r).serial # 0
        /\ q.pc = "add" /\ ~Read(r).late => Present(q.target) /\ About(Read(r), q.target)
        /\ q.shared => processes[q.pid] # NoInfo
        /\ (q.pc \in {"decide", "check"} \/ q.level = "parent") /\ ~q.shared /\ ~q.info.late
             => q.info.serial = os[q.pid].serial
        /\ q.level = "parent" /\ q.shared /\ processes[q.pid].timely =>
             processes[q.pid].ppid = q.target
        /\ q.pc = "check" /\ q.shared /\ processes[q.pid].timely /\ ~q.parentInfo.late =>
             q.parentInfo.serial = processes[q.pid].parent

\* The lock is held by the request, if any, that looks up a parent.
LockOK ==
    /\ lock.owners = {r \in Requesters : requests[r].level = "parent"}
    /\ lock.readers = {}
    /\ \A r, q \in lock.owners : r = q
    /\ lock.owners # {} => lock.depth = 1
    /\ lock.owners = {} => lock.depth = 0

Inv ==
    /\ TypeOK /\ SystemOK /\ EntriesNamed /\ EntryIsCurrent /\ LinksOK /\ LockOK
    /\ \A r \in Requesters : TargetOK(r) /\ ReadOK(r)

----------------------------------------------------------------------------
\* Serial numbers are natural numbers.
LEMMA SerialType == Serials \subseteq Nat /\ 0 \in Serials /\ 1 \in Serials
BY ProcessManagerAssumption DEF Serials

\* An absent entry is well typed.
LEMMA NoInfoType == NoInfo \in Info
BY SerialType DEF NoInfo, Info

\* An idle request is well typed.
LEMMA NoRequestType == NoRequest \in RequestState
BY NoInfoType DEF NoRequest, RequestState

\* The empty table and the idle requests satisfy the invariant.
LEMMA InitInv == Init => Inv
<1> SUFFICES ASSUME Init PROVE Inv
  OBVIOUS
<1>1. TypeOK
  <2>1. Free \in Process /\ [Free EXCEPT !.state = "running", !.serial = 1] \in Process
    BY SerialType DEF Free, Process
  <2>2. os \in [Pids -> Process]
    BY <2>1 DEF Init
  <2>3. processes \in [Pids -> Info]
    BY NoInfoType DEF Init
  <2>4. requests \in [Requesters -> RequestState]
    BY NoRequestType DEF Init
  <2>5. lock \in Lock(Requesters \union Pids)
    BY DEF Init, Unlocked, Lock
  <2>6. starts \in Serials
    BY SerialType DEF Init
  <2> QED  BY <2>2, <2>3, <2>4, <2>5, <2>6 DEF TypeOK
<1>2. \A p \in Pids : processes[p] = NoInfo
  BY DEF Init
<1>3. \A r \in Requesters : requests[r] = NoRequest
  BY DEF Init
<1>4. SystemOK
  BY DEF Init, SystemOK, Free
<1>5. EntriesNamed /\ EntryIsCurrent /\ LinksOK
  <2>1. EntriesNamed /\ EntryIsCurrent
    BY <1>2 DEF EntriesNamed, EntryIsCurrent
  <2>2. LinksOK
    BY <1>2 DEF LinksOK, NoInfo
  <2> QED  BY <2>1, <2>2
<1>6. LockOK
  BY <1>3 DEF Init, Unlocked, LockOK, NoRequest
<1>7. \A r \in Requesters : TargetOK(r) /\ ReadOK(r)
  BY <1>3 DEF TargetOK, ReadOK, NoRequest
<1> QED  BY <1>1, <1>4, <1>5, <1>6, <1>7 DEF Inv

----------------------------------------------------------------------------
(* The system.                                                             *)

\* A change of one process that nothing in the table or the requests is about.
LEMMA SystemStep ==
    ASSUME Inv, NEW p \in Pids, NEW new \in Process,
           os' = [os EXCEPT ![p] = new], starts' \in Serials,
           UNCHANGED <<processes, lock, requests>>,
           new.state # "free" => new.serial # 0,
           \/ ~Present(p)
           \/ /\ new.state = "exiting" /\ new.serial = os[p].serial
              /\ new.parent = os[p].parent
              /\ \A r \in Requesters : requests[r].pid # p
    PROVE  Inv'
<1>1. \A q \in Pids \ {p} : os'[q] = os[q]
  BY DEF Inv, TypeOK
<1>2. os'[p] = new
  BY DEF Inv, TypeOK
<1>3. \A q \in Pids : Present(q) =>
          Present(q)' /\ os'[q].serial = os[q].serial /\ os'[q].parent = os[q].parent
  BY <1>1, <1>2 DEF Present
<1>4. \A r \in Requesters : requests[r].pc # "idle" =>
          os'[requests[r].pid].state = "running"
          /\ os'[requests[r].pid].serial = os[requests[r].pid].serial
  BY <1>1 DEF Inv, TargetOK, Present
<1>5. TypeOK'
  BY DEF Inv, TypeOK
<1>6. SystemOK'
  BY <1>1, <1>2 DEF Inv, SystemOK
<1>7. EntriesNamed' /\ EntryIsCurrent'
  BY <1>3 DEF Inv, EntriesNamed, EntryIsCurrent, Present
<1>8. LinksOK'
  BY <1>3 DEF Inv, LinksOK, TypeOK, Info
<1>9. LockOK'
  BY DEF Inv, LockOK
<1>10. ASSUME NEW r \in Requesters PROVE TargetOK(r)' /\ ReadOK(r)'
  <2>1. TargetOK(r) /\ ReadOK(r)
    BY DEF Inv
  <2>2. TargetOK(r)'
    BY <1>4, <2>1 DEF TargetOK
  <2>3. ReadOK(r)'
    BY <1>3, <1>4, <2>1 DEF TargetOK, ReadOK, Read, About
  <2> QED  BY <2>2, <2>3
<1> QED  BY <1>5, <1>6, <1>7, <1>8, <1>9, <1>10 DEF Inv

\* A new process has a serial number no entry knows.
LEMMA StartProcessInv ==
    ASSUME Inv, NEW p \in Pids, NEW q \in Pids, StartProcess(p, q)
    PROVE  Inv'
<1> DEFINE new == [state |-> "running", serial |-> starts + 1,
                   ppid |-> q, parent |-> os[q].serial]
<1>1. starts + 1 \in Serials /\ starts + 1 # 0
  BY ProcessManagerAssumption DEF Inv, TypeOK, StartProcess, Serials
<1>2. new \in Process
  BY <1>1 DEF Inv, TypeOK, Process
<1>3. ~Present(p)
  BY DEF StartProcess, Present
<1>4. os' = [os EXCEPT ![p] = new] /\ starts' \in Serials
  BY <1>1 DEF StartProcess
<1> QED  BY <1>1, <1>2, <1>3, <1>4, SystemStep DEF StartProcess

\* A process that begins to exit is still present, and has no request.
LEMMA ExitProcessInv ==
    ASSUME Inv, NEW p \in Pids, ExitProcess(p)
    PROVE  Inv'
<1> DEFINE new == [os[p] EXCEPT !.state = "exiting"]
<1>1. os[p] \in Process
  BY DEF Inv, TypeOK
<1>2. /\ new \in Process /\ new.state = "exiting" /\ new.serial = os[p].serial
      /\ new.parent = os[p].parent
  BY <1>1 DEF Process
<1>3. new.serial # 0
  BY <1>2 DEF Inv, SystemOK, ExitProcess
<1>4. os' = [os EXCEPT ![p] = new] /\ starts' \in Serials
  BY DEF ExitProcess, Inv, TypeOK
<1> HIDE DEF new
<1> QED  BY <1>2, <1>3, <1>4, SystemStep DEF ExitProcess

\* Nothing read in time is left about a process whose pid is freed.
LEMMA ReleasePidInv ==
    ASSUME Inv, NEW p \in Pids, ReleasePid(p)
    PROVE  Inv'
<1>1. Free \in Process /\ Free.state = "free"
  BY SerialType DEF Free, Process
<1>2. ~Present(p)
  BY DEF ReleasePid, Present
<1>3. os' = [os EXCEPT ![p] = Free] /\ starts' \in Serials
  BY DEF ReleasePid, Inv, TypeOK
<1> QED  BY <1>1, <1>2, <1>3, SystemStep DEF ReleasePid

----------------------------------------------------------------------------
(* The exit notification.                                                  *)

\* Cutting a link changes nothing else of an info.
LEMMA UnlinkedFacts ==
    ASSUME NEW info \in Info, NEW p \in Pids
    PROVE  /\ Unlinked(info, p) \in Info
           /\ Unlinked(info, p).serial = info.serial
           /\ Unlinked(info, p).parent = info.parent
           /\ Unlinked(info, p).timely = info.timely
           /\ Unlinked(info, p).late = info.late
           /\ Unlinked(info, p).ppid = IF info.ppid = p THEN NoPid ELSE info.ppid
BY DEF Unlinked, Info

\* The notification removes all there is about the process, and no request
\* goes by it: the lock is free.
LEMMA RemoveProcessInv ==
    ASSUME Inv, NEW p \in Pids, RemoveProcess(p)
    PROVE  Inv'
<1>1. /\ os[p].state = "exiting" /\ CanAcquireExclusive(lock, p)
      /\ processes' = [q \in Pids |-> IF q = p THEN NoInfo ELSE Unlinked(processes[q], p)]
      /\ os' = [os EXCEPT ![p].state = "exited"]
      /\ UNCHANGED <<starts, lock, requests>>
  BY DEF RemoveProcess, Removed
<1>2. \A q \in Pids : processes[q] \in Info /\ os[q] \in Process
  BY DEF Inv, TypeOK
<1>3. \A q \in Pids \ {p} : os'[q] = os[q] /\ processes'[q] = Unlinked(processes[q], p)
  BY <1>1 DEF Inv, TypeOK
<1>4. processes'[p] = NoInfo /\ os'[p].state = "exited"
  BY <1>1 DEF Inv, TypeOK
<1>5. TypeOK'
  <2>1. processes' \in [Pids -> Info]
    BY <1>1, <1>2, NoInfoType, UnlinkedFacts
  <2>2. os' \in [Pids -> Process]
    <3>1. [os[p] EXCEPT !.state = "exited"] \in Process
      BY <1>2 DEF Process
    <3> QED  BY <1>1, <3>1 DEF Inv, TypeOK
  <2> QED  BY <1>1, <2>1, <2>2 DEF Inv, TypeOK
<1>6. \A q \in Pids \ {p} : processes[q] # NoInfo <=> processes'[q] # NoInfo
  <2> SUFFICES ASSUME NEW q \in Pids \ {p}
               PROVE  processes[q] # NoInfo <=> processes'[q] # NoInfo
    OBVIOUS
  <2>1. CASE processes[q] = NoInfo
    <3>1. NoInfo.ppid # p
      BY ProcessManagerAssumption DEF NoInfo
    <3> QED  BY <1>3, <2>1, <3>1 DEF Unlinked
  <2>2. CASE processes[q] # NoInfo
    <3>1. processes[q].serial # 0
      BY <2>2 DEF Inv, EntriesNamed
    <3>2. processes'[q].serial # 0
      BY <1>2, <1>3, <3>1, UnlinkedFacts
    <3> QED  BY <2>2, <3>2 DEF NoInfo
  <2> QED  BY <2>1, <2>2
<1>7. SystemOK'
  <2>1. os'[p].serial = os[p].serial
    BY <1>1, <1>2 DEF Inv, TypeOK, Process
  <2> QED  BY <1>1, <1>3, <2>1 DEF Inv, SystemOK
<1>8. EntriesNamed' /\ EntryIsCurrent'
  <2>1. EntriesNamed'
    BY <1>2, <1>3, <1>4, <1>6, UnlinkedFacts DEF Inv, EntriesNamed
  <2>2. EntryIsCurrent'
    BY <1>2, <1>3, <1>4, <1>6, UnlinkedFacts DEF Inv, EntryIsCurrent
  <2> QED  BY <2>1, <2>2
<1>9. LinksOK'
  <2> SUFFICES ASSUME NEW q \in Pids, processes'[q].timely, processes'[q].ppid # NoPid
               PROVE  /\ Present(processes[q].ppid)'
                      /\ os'[processes'[q].ppid].serial = processes'[q].parent
    BY DEF LinksOK
  <2>1. q # p
    BY <1>4 DEF NoInfo
  <2>2. /\ processes[q].ppid # p /\ processes'[q].ppid = processes[q].ppid
        /\ processes[q].timely /\ processes'[q].parent = processes[q].parent
    BY <1>2, <1>3, <2>1, UnlinkedFacts
  <2>3. processes[q].ppid \in Pids \ {p}
    BY <1>2, <2>2 DEF Info
  <2>4. Present(processes[q].ppid) /\ os[processes[q].ppid].serial = processes[q].parent
    BY <2>2 DEF Inv, LinksOK
  <2> QED  BY <1>3, <2>2, <2>3, <2>4 DEF Present
<1>10. LockOK'
  BY <1>1 DEF Inv, LockOK
<1>11. \A r \in Requesters : requests[r].level # "parent"
  BY <1>1, ProcessManagerAssumption DEF CanAcquireExclusive, Inv, LockOK
<1>12. ASSUME NEW r \in Requesters PROVE TargetOK(r)' /\ ReadOK(r)'
  <2>1. TargetOK(r) /\ ReadOK(r) /\ requests[r] \in RequestState
    BY DEF Inv, TypeOK
  <2>2. requests[r].pc # "idle" => requests[r].pid \in Pids \ {p}
    BY <1>1, <2>1 DEF TargetOK
  <2>3. TargetOK(r)'
    BY <1>1, <1>3, <2>1, <2>2 DEF TargetOK
  <2>4. requests[r].pc = "add" => requests[r].target \in Pids \ {p}
    BY <1>11, <2>1, <2>2 DEF TargetOK, RequestState
  <2>5. requests[r].pc # "idle" =>
            /\ os'[requests[r].pid] = os[requests[r].pid]
            /\ processes'[requests[r].pid].timely = processes[requests[r].pid].timely
            /\ processes'[requests[r].pid].parent = processes[requests[r].pid].parent
    BY <1>2, <1>3, <2>2, UnlinkedFacts
  <2>6. requests[r].pc # "idle" /\ processes[requests[r].pid] # NoInfo
          => processes'[requests[r].pid] # NoInfo
    BY <1>6, <2>2
  <2>7. requests[r].shared => requests[r].pc # "idle"
    BY <2>1 DEF TargetOK
  <2>8. ReadOK(r)'
    BY <1>1, <1>3, <1>11, <2>1, <2>4, <2>5, <2>6, <2>7 DEF ReadOK, Read, Present, About
  <2> QED  BY <2>3, <2>8
<1> QED  BY <1>5, <1>7, <1>8, <1>9, <1>10, <1>12 DEF Inv

----------------------------------------------------------------------------
(* The requests.                                                           *)

\* A step of one request that leaves the table alone, and whose lock is right
\* again afterwards.
LEMMA RequestStep ==
    ASSUME Inv, NEW r \in Requesters, NEW new \in RequestState,
           requests' = [requests EXCEPT ![r] = new],
           UNCHANGED <<os, starts, processes>>,
           lock' \in Lock(Requesters \union Pids), LockOK',
           TargetOK(r)', ReadOK(r)'
    PROVE  Inv'
<1>1. \A q \in Requesters \ {r} : requests'[q] = requests[q]
  BY DEF Inv, TypeOK
<1>2. TypeOK'
  BY DEF Inv, TypeOK
<1>3. SystemOK' /\ EntriesNamed' /\ EntryIsCurrent' /\ LinksOK'
  BY DEF Inv, SystemOK, EntriesNamed, EntryIsCurrent, LinksOK, Present
<1>4. ASSUME NEW q \in Requesters \ {r} PROVE TargetOK(q)' /\ ReadOK(q)'
  <2>1. TargetOK(q) /\ ReadOK(q)
    BY DEF Inv
  <2> QED  BY <1>1, <2>1 DEF TargetOK, ReadOK, Read, Present, About
<1> QED  BY <1>2, <1>3, <1>4 DEF Inv

\* The level, and with it the lock, stays as it is.
LEMMA SameLevel ==
    ASSUME Inv, NEW r \in Requesters, NEW new \in RequestState,
           requests' = [requests EXCEPT ![r] = new], UNCHANGED lock,
           new.level = requests[r].level
    PROVE  LockOK' /\ lock' \in Lock(Requesters \union Pids)
<1>1. \A q \in Requesters : requests'[q].level = requests[q].level
  BY DEF Inv, TypeOK
<1> QED  BY <1>1 DEF Inv, LockOK, TypeOK

\* The request goes down to the parent: it takes the lock, which is free.
LEMMA ToParentLevel ==
    ASSUME Inv, NEW r \in Requesters, NEW new \in RequestState,
           requests' = [requests EXCEPT ![r] = new],
           requests[r].level = "own", new.level = "parent",
           CanAcquireExclusive(lock, r), lock' = AcquireExclusive(lock, r)
    PROVE  LockOK' /\ lock' \in Lock(Requesters \union Pids)
<1>1. lock.owners = {} /\ lock.readers = {} /\ lock.depth = 0
  BY DEF CanAcquireExclusive, Inv, LockOK
<1>2. lock' = [lock EXCEPT !.owners = {r}, !.depth = 1]
  BY <1>1 DEF AcquireExclusive
<1>3. lock'.owners = {r} /\ lock'.readers = {} /\ lock'.depth = 1
      /\ lock' \in Lock(Requesters \union Pids)
  <2>1. lock \in Lock(Requesters \union Pids) /\ {r} \in SUBSET (Requesters \union Pids)
    BY DEF Inv, TypeOK
  <2>2. LET held == [lock EXCEPT !.owners = {r}, !.depth = 1]
        IN  /\ held.owners = {r} /\ held.readers = lock.readers /\ held.depth = 1
            /\ held \in Lock(Requesters \union Pids)
    BY <2>1 DEF Lock
  <2> QED  BY <1>1, <1>2, <2>2
<1>4. {q \in Requesters : requests'[q].level = "parent"} = {r}
  <2>1. \A q \in Requesters : requests[q].level # "parent"
    BY <1>1 DEF Inv, LockOK
  <2> QED  BY <2>1 DEF Inv, TypeOK
<1> QED  BY <1>3, <1>4 DEF LockOK

\* The request comes back from the parent and frees the lock.
LEMMA FromParentLevel ==
    ASSUME Inv, NEW r \in Requesters, NEW new \in RequestState,
           requests' = [requests EXCEPT ![r] = new],
           requests[r].level = "parent", new.level = "own",
           lock' = Release(lock, r)
    PROVE  LockOK' /\ lock' \in Lock(Requesters \union Pids)
<1>1. lock.owners = {r} /\ lock.readers = {} /\ lock.depth = 1
  BY DEF Inv, LockOK
<1>2. lock' = [lock EXCEPT !.owners = {}, !.depth = 0]
  BY <1>1 DEF Release
<1>3. lock'.owners = {} /\ lock'.readers = {} /\ lock'.depth = 0
      /\ lock' \in Lock(Requesters \union Pids)
  <2>1. lock \in Lock(Requesters \union Pids)
    BY DEF Inv, TypeOK
  <2>2. LET freed == [lock EXCEPT !.owners = {}, !.depth = 0]
        IN  /\ freed.owners = {} /\ freed.readers = lock.readers /\ freed.depth = 0
            /\ freed \in Lock(Requesters \union Pids)
    BY <2>1 DEF Lock
  <2> QED  BY <1>1, <1>2, <2>2
<1>4. {q \in Requesters : requests'[q].level = "parent"} = {}
  <2>1. \A q \in Requesters \ {r} : requests[q].level # "parent"
    BY <1>1 DEF Inv, LockOK
  <2> QED  BY <2>1 DEF Inv, TypeOK
<1> QED  BY <1>3, <1>4 DEF LockOK

\* A new request goes by nothing yet.
LEMMA RequestInv ==
    ASSUME Inv, NEW r \in Requesters, NEW p \in Pids, Request(r, p)
    PROVE  Inv'
<1> DEFINE new == [NoRequest EXCEPT !.pc = "lookup", !.pid = p, !.target = p]
<1>1. /\ new \in RequestState /\ new.pc = "lookup" /\ new.pid = p /\ new.target = p
      /\ new.level = "own" /\ new.shared = FALSE
  BY NoInfoType DEF NoRequest, RequestState
<1>2. requests' = [requests EXCEPT ![r] = new] /\ UNCHANGED <<os, starts, processes, lock>>
      /\ requests[r].pc = "idle" /\ os[p].state = "running"
  BY DEF Request
<1> HIDE DEF new
<1>3. requests'[r] = new
  BY <1>2 DEF Inv, TypeOK
<1>4. requests[r].level = "own"
  BY <1>2 DEF Inv, TargetOK
<1>5. LockOK' /\ lock' \in Lock(Requesters \union Pids)
  BY <1>1, <1>2, <1>4, SameLevel
<1>6. TargetOK(r)' /\ ReadOK(r)'
  BY <1>1, <1>2, <1>3 DEF TargetOK, ReadOK
<1> QED  BY <1>1, <1>2, <1>5, <1>6, RequestStep

\* Leaving, from either level.
LEMMA LeaveInv ==
    ASSUME Inv, NEW r \in Requesters, Leave(r)
    PROVE  Inv'
<1>1. requests' = [requests EXCEPT ![r] = NoRequest] /\ UNCHANGED <<os, starts, processes>>
  BY DEF Leave
<1>2. requests'[r] = NoRequest
  BY <1>1 DEF Inv, TypeOK
<1>3. requests[r].level \in {"own", "parent"} /\ NoRequest.level = "own"
  BY DEF Inv, TypeOK, RequestState, NoRequest
<1>4. LockOK' /\ lock' \in Lock(Requesters \union Pids)
  <2>1. CASE requests[r].level = "own"
    BY <1>1, <1>3, <2>1, SameLevel, NoRequestType DEF Leave
  <2>2. CASE requests[r].level = "parent"
    BY <1>1, <1>3, <2>2, FromParentLevel, NoRequestType DEF Leave
  <2> QED  BY <1>3, <2>1, <2>2
<1>5. TargetOK(r)' /\ ReadOK(r)'
  BY <1>2 DEF TargetOK, ReadOK, NoRequest
<1> QED  BY <1>1, <1>4, <1>5, NoRequestType, RequestStep

\* What is read of a visible process is so, and if it is not late the process is
\* present.
LEMMA FromPidInv ==
    ASSUME Inv, NEW r \in Requesters, FromPid(r)
    PROVE  Inv'
<1> DEFINE t == requests[r].target
           info == [serial |-> os[t].serial, ppid |-> os[t].ppid,
                    parent |-> os[t].parent, timely |-> FALSE,
                    late |-> os[t].state = "exited"]
<1>1. /\ requests[r] \in RequestState /\ requests[r].pc = "query"
      /\ TargetOK(r) /\ ReadOK(r) /\ t \in Pids
      /\ UNCHANGED <<os, starts, processes, lock>>
  BY DEF Inv, TypeOK, FromPid, TargetOK
<1>2. os[t].state # "free" /\ (os[t].state # "exited" => Present(t))
  BY <1>1 DEF FromPid, Visible, Present, Inv, TypeOK, Process
<1>3. /\ info \in Info /\ info.serial # 0 /\ About(info, t)
      /\ ~info.late => Present(t)
  BY <1>1, <1>2 DEF Inv, TypeOK, SystemOK, Process, Info, About
<1> HIDE DEF info
<1>4. CASE requests[r].level = "own"
  <2> DEFINE new == [requests[r] EXCEPT !.pc = "add", !.info = info]
  <2>1. /\ new \in RequestState /\ new.pc = "add" /\ new.info = info
        /\ new.level = requests[r].level /\ new.pid = requests[r].pid /\ new.target = t
        /\ new.shared = requests[r].shared /\ new.parentInfo = requests[r].parentInfo
    BY <1>1, <1>3 DEF RequestState
  <2>2. requests' = [requests EXCEPT ![r] = new]
    BY <1>4 DEF FromPid, info
  <2> HIDE DEF new
  <2>3. requests'[r] = new
    BY <2>2 DEF Inv, TypeOK
  <2>4. LockOK' /\ lock' \in Lock(Requesters \union Pids)
    BY <1>1, <2>1, <2>2, SameLevel
  <2>5. TargetOK(r)' /\ ReadOK(r)'
    BY <1>1, <1>3, <1>4, <2>1, <2>3 DEF TargetOK, ReadOK, Read, Present, About
  <2> QED  BY <1>1, <2>1, <2>2, <2>4, <2>5, RequestStep
<1>5. CASE requests[r].level = "parent"
  <2> DEFINE new == [requests[r] EXCEPT !.pc = "add", !.parentInfo = info]
  <2>1. /\ new \in RequestState /\ new.pc = "add" /\ new.parentInfo = info
        /\ new.level = requests[r].level /\ new.pid = requests[r].pid /\ new.target = t
        /\ new.shared = requests[r].shared /\ new.info = requests[r].info
    BY <1>1, <1>3 DEF RequestState
  <2>2. requests' = [requests EXCEPT ![r] = new]
    BY <1>5 DEF FromPid, info
  <2> HIDE DEF new
  <2>3. requests'[r] = new
    BY <2>2 DEF Inv, TypeOK
  <2>4. LockOK' /\ lock' \in Lock(Requesters \union Pids)
    BY <1>1, <2>1, <2>2, SameLevel
  <2>5. TargetOK(r)' /\ ReadOK(r)'
    BY <1>1, <1>3, <1>5, <2>1, <2>3 DEF TargetOK, ReadOK, Read, Present, About
  <2> QED  BY <1>1, <2>1, <2>2, <2>4, <2>5, RequestStep
<1> QED  BY <1>1, <1>4, <1>5 DEF RequestState

\* get_or_add_process_info returns an info that is about its target if it was
\* read in time, with a table that is right: found in it, or just inserted.
LEMMA ResolveInv ==
    ASSUME Inv, NEW r \in Requesters, requests[r].pc \in {"lookup", "add"},
           NEW info \in Info, NEW shared \in BOOLEAN, Resolve(r, info, shared),
           UNCHANGED <<os, starts>>, processes' \in [Pids -> Info],
           EntriesNamed', EntryIsCurrent', LinksOK',
           \A p \in Pids : processes[p] # NoInfo => processes'[p] = processes[p],
           ~info.late => info.serial = os[requests[r].target].serial,
           shared => processes'[requests[r].target] # NoInfo
    PROVE  Inv'
<1> DEFINE t == requests[r].target
<1>1. requests[r] \in RequestState /\ TargetOK(r) /\ ReadOK(r)
      /\ t \in Pids /\ requests[r].pid \in Pids
  BY DEF Inv, TypeOK, TargetOK
<1>2. ASSUME NEW q \in Requesters \ {r}, requests'[q] = requests[q]
      PROVE  TargetOK(q)' /\ ReadOK(q)'
  <2>1. TargetOK(q) /\ ReadOK(q) /\ (requests[q].pc # "idle" => requests[q].pid \in Pids)
    BY DEF Inv, TargetOK
  <2>2. TargetOK(q)'
    BY <1>2, <2>1 DEF TargetOK
  <2>3. requests[q].shared => processes'[requests[q].pid] = processes[requests[q].pid]
    BY <2>1 DEF TargetOK, ReadOK
  <2>4. ReadOK(q)'
    BY <1>2, <2>1, <2>3 DEF ReadOK, Read, Present, About
  <2> QED  BY <2>2, <2>4
<1>3. SystemOK'
  BY DEF Inv, SystemOK
<1>4. CASE requests[r].level = "own"
  <2> DEFINE new == [requests[r] EXCEPT !.pc = "decide", !.info = info, !.shared = shared]
  <2>1. /\ new \in RequestState /\ new.pc = "decide" /\ new.info = info
        /\ new.level = requests[r].level /\ new.pid = requests[r].pid
        /\ new.shared = shared
    BY <1>1 DEF RequestState
  <2>2. requests' = [requests EXCEPT ![r] = new] /\ UNCHANGED lock
    BY <1>4 DEF Resolve
  <2> HIDE DEF new
  <2>3. requests'[r] = new /\ \A q \in Requesters \ {r} : requests'[q] = requests[q]
    BY <2>2 DEF Inv, TypeOK
  <2>4. LockOK' /\ lock' \in Lock(Requesters \union Pids)
    BY <2>1, <2>2, SameLevel
  <2>5. TargetOK(r)' /\ ReadOK(r)'
    BY <1>1, <1>4, <2>1, <2>3 DEF TargetOK, ReadOK
  <2>6. TypeOK'
    BY <2>1, <2>2, <2>4 DEF Inv, TypeOK
  <2> QED  BY <1>2, <1>3, <2>3, <2>4, <2>5, <2>6 DEF Inv
<1>5. CASE requests[r].level = "parent"
  <2> DEFINE new == [requests[r] EXCEPT !.pc = "check", !.level = "own", !.parentInfo = info]
  <2>1. /\ new \in RequestState /\ new.pc = "check" /\ new.parentInfo = info
        /\ new.level = "own" /\ new.pid = requests[r].pid /\ new.info = requests[r].info
        /\ new.shared = requests[r].shared
    BY <1>1 DEF RequestState
  <2>2. requests' = [requests EXCEPT ![r] = new] /\ lock' = Release(lock, r)
    BY <1>5 DEF Resolve
  <2> HIDE DEF new
  <2>3. requests'[r] = new /\ \A q \in Requesters \ {r} : requests'[q] = requests[q]
    BY <2>2 DEF Inv, TypeOK
  <2>4. LockOK' /\ lock' \in Lock(Requesters \union Pids)
    BY <1>5, <2>1, <2>2, FromParentLevel
  <2>5. TargetOK(r)'
    BY <1>1, <2>1, <2>3 DEF TargetOK
  <2>6. requests[r].shared /\ processes[requests[r].pid].timely /\ ~info.late =>
            info.serial = processes[requests[r].pid].parent
    <3> SUFFICES ASSUME requests[r].shared, processes[requests[r].pid].timely, ~info.late
                 PROVE  info.serial = processes[requests[r].pid].parent
      OBVIOUS
    <3>1. processes[requests[r].pid].ppid = t /\ t # NoPid
      BY <1>1, <1>5, ProcessManagerAssumption DEF ReadOK
    <3> QED  BY <1>1, <3>1 DEF Inv, LinksOK
  <2>7. requests[r].shared => processes'[requests[r].pid] = processes[requests[r].pid]
    BY <1>1 DEF ReadOK
  <2>8. ReadOK(r)'
    BY <1>1, <1>5, <2>1, <2>3, <2>6, <2>7 DEF ReadOK
  <2>9. TypeOK'
    BY <2>1, <2>2, <2>4 DEF Inv, TypeOK
  <2> QED  BY <1>2, <1>3, <2>3, <2>4, <2>5, <2>8, <2>9 DEF Inv
<1> QED  BY <1>1, <1>4, <1>5 DEF RequestState

\* An entry that is found is about the present user of the target, or was read
\* too late.
LEMMA ProcessInfoInv ==
    ASSUME Inv, NEW r \in Requesters, ProcessInfo(r)
    PROVE  Inv'
<1> DEFINE t == requests[r].target
<1>1. /\ requests[r] \in RequestState /\ requests[r].pc = "lookup"
      /\ TargetOK(r) /\ ReadOK(r) /\ t \in Pids
      /\ UNCHANGED <<os, starts, processes>>
  BY DEF Inv, TypeOK, ProcessInfo, TargetOK
<1>2. CASE processes[t] # NoInfo
  <2>1. Resolve(r, processes[t], TRUE)
    BY <1>2 DEF ProcessInfo
  <2>2. processes[t] \in Info /\ (~processes[t].late => processes[t].serial = os[t].serial)
    BY <1>1, <1>2 DEF Inv, TypeOK, EntryIsCurrent
  <2>3. EntriesNamed' /\ EntryIsCurrent' /\ LinksOK' /\ processes' \in [Pids -> Info]
    BY <1>1 DEF Inv, TypeOK, EntriesNamed, EntryIsCurrent, LinksOK, Present
  <2> QED  BY <1>1, <1>2, <2>1, <2>2, <2>3, ResolveInv
<1>3. CASE processes[t] = NoInfo
  <2> DEFINE new == [requests[r] EXCEPT !.pc = "query"]
  <2>1. /\ new \in RequestState /\ new.pc = "query" /\ new.info = requests[r].info
        /\ new.level = requests[r].level /\ new.pid = requests[r].pid /\ new.target = t
        /\ new.shared = requests[r].shared
    BY <1>1 DEF RequestState
  <2>2. requests' = [requests EXCEPT ![r] = new] /\ UNCHANGED lock
    BY <1>3 DEF ProcessInfo
  <2> HIDE DEF new
  <2>3. requests'[r] = new
    BY <2>2 DEF Inv, TypeOK
  <2>4. LockOK' /\ lock' \in Lock(Requesters \union Pids)
    BY <2>1, <2>2, SameLevel
  <2>5. TargetOK(r)' /\ ReadOK(r)'
    BY <1>1, <2>1, <2>3 DEF TargetOK, ReadOK
  <2> QED  BY <1>1, <2>1, <2>2, <2>4, <2>5, RequestStep
<1> QED  BY <1>2, <1>3

\* What was read in time is about the present user of the pid when it is
\* inserted; a timely link of it is one that was just checked.
LEMMA AddProcessInv ==
    ASSUME Inv, NEW r \in Requesters, AddProcess(r)
    PROVE  Inv'
<1> DEFINE t == requests[r].target
           info == Read(r)
           entry == [info EXCEPT !.timely = Timely(info)]
<1>1. /\ requests[r] \in RequestState /\ requests[r].pc = "add"
      /\ TargetOK(r) /\ ReadOK(r) /\ t \in Pids
      /\ UNCHANGED <<os, starts>>
      /\ Resolve(r, info, processes[t] = NoInfo)
      /\ processes' = Inserted(t, info)
  BY DEF Inv, TypeOK, AddProcess, TargetOK
<1>2. /\ info \in Info /\ info.serial # 0
      /\ ~info.late => Present(t) /\ About(info, t)
  BY <1>1 DEF Read, RequestState, ReadOK
<1>3. Timely(info) \in BOOLEAN
  BY DEF Timely
<1>4. /\ entry \in Info /\ entry.serial = info.serial /\ entry.ppid = info.ppid
      /\ entry.parent = info.parent /\ entry.timely = Timely(info)
      /\ entry.late = info.late
  BY <1>2, <1>3 DEF Info
<1>5. entry # NoInfo
  BY <1>2, <1>4 DEF NoInfo
<1> HIDE DEF info, entry
<1>6. CASE processes[t] # NoInfo
  <2>1. processes' = processes
    BY <1>1, <1>6 DEF Inserted
  <2>2. EntriesNamed' /\ EntryIsCurrent' /\ LinksOK' /\ processes' \in [Pids -> Info]
    BY <1>1, <2>1 DEF Inv, TypeOK, EntriesNamed, EntryIsCurrent, LinksOK, Present
  <2> QED  BY <1>1, <1>2, <1>6, <2>1, <2>2, ResolveInv DEF About
<1>7. CASE processes[t] = NoInfo
  <2>1. processes' = [processes EXCEPT ![t] = entry]
    BY <1>1, <1>7 DEF Inserted, entry
  <2>2. /\ processes' \in [Pids -> Info] /\ processes'[t] = entry
        /\ \A p \in Pids \ {t} : processes'[p] = processes[p]
    BY <1>1, <1>4, <2>1 DEF Inv, TypeOK
  <2>3. EntriesNamed' /\ EntryIsCurrent'
    BY <1>1, <1>2, <1>4, <2>2 DEF Inv, EntriesNamed, EntryIsCurrent, Present, About
  <2>4. LinksOK'
    <3> SUFFICES ASSUME NEW p \in Pids, processes'[p].timely, processes'[p].ppid # NoPid
                 PROVE  /\ Present(processes[p].ppid)'
                        /\ os'[processes'[p].ppid].serial = processes'[p].parent
      BY DEF LinksOK
    <3>1. CASE p = t
      BY <1>1, <1>4, <2>2, <3>1 DEF Timely, Present
    <3>2. CASE p # t
      BY <1>1, <2>2, <3>2 DEF Inv, LinksOK, Present
    <3> QED  BY <3>1, <3>2
  <2>5. \A p \in Pids : processes[p] # NoInfo => processes'[p] = processes[p]
    BY <1>7, <2>2
  <2>6. processes'[t] # NoInfo
    BY <1>5, <2>2
  <2> QED  BY <1>1, <1>2, <2>2, <2>3, <2>4, <2>5, <2>6, ResolveInv DEF About
<1> QED  BY <1>6, <1>7

\* The link followed to the parent is the one the map has.
LEMMA GetParentInv ==
    ASSUME Inv, NEW r \in Requesters, GetParent(r)
    PROVE  Inv'
<1>1. /\ requests[r] \in RequestState /\ requests[r].pc = "decide"
      /\ TargetOK(r) /\ ReadOK(r) /\ requests[r].level = "own" /\ requests[r].pid \in Pids
      /\ UNCHANGED <<os, starts, processes>> /\ CanAcquireExclusive(lock, r)
  BY DEF Inv, TypeOK, GetParent, TargetOK
<1>2. CASE ChildPpid(r) = NoPid
  BY <1>1, <1>2, LeaveInv DEF GetParent, Leave
<1>3. CASE ChildPpid(r) # NoPid
  <2>1. ChildPpid(r) \in Pids
    BY <1>1, <1>3 DEF ChildPpid, Inv, TypeOK, RequestState, Info
  <2> DEFINE new == [requests[r] EXCEPT !.pc = "lookup", !.level = "parent",
                                        !.target = ChildPpid(r)]
  <2>2. /\ new \in RequestState /\ new.pc = "lookup" /\ new.level = "parent"
        /\ new.target = ChildPpid(r) /\ new.pid = requests[r].pid
        /\ new.info = requests[r].info /\ new.shared = requests[r].shared
    BY <1>1, <2>1 DEF RequestState
  <2>3. requests' = [requests EXCEPT ![r] = new] /\ lock' = AcquireExclusive(lock, r)
    BY <1>3 DEF GetParent
  <2> HIDE DEF new
  <2>4. requests'[r] = new
    BY <2>3 DEF Inv, TypeOK
  <2>5. LockOK' /\ lock' \in Lock(Requesters \union Pids)
    BY <1>1, <2>2, <2>3, ToParentLevel
  <2>6. TargetOK(r)'
    BY <1>1, <2>1, <2>2, <2>4 DEF TargetOK
  <2>7. requests[r].shared => ChildPpid(r) = processes[requests[r].pid].ppid
    BY DEF ChildPpid
  <2>8. ReadOK(r)'
    BY <1>1, <2>2, <2>4, <2>7 DEF ReadOK
  <2> QED  BY <1>1, <2>2, <2>3, <2>5, <2>6, <2>8, RequestStep
<1> QED  BY <1>2, <1>3

----------------------------------------------------------------------------
\* Inv is inductive.
LEMMA StepInv == Inv /\ [Next]_vars => Inv'
<1> SUFFICES ASSUME Inv, [Next]_vars PROVE Inv'
  OBVIOUS
<1>1. CASE System
  BY <1>1, StartProcessInv, ExitProcessInv, ReleasePidInv DEF System
<1>2. ASSUME NEW p \in Pids, RemoveProcess(p) PROVE Inv'
  BY <1>2, RemoveProcessInv
<1>3. ASSUME NEW r \in Requesters, Callback(r) PROVE Inv'
  <2>1. CASE ProcessInfo(r)
    BY <2>1, ProcessInfoInv
  <2>2. CASE FromPid(r)
    BY <2>2, FromPidInv
  <2>3. CASE AddProcess(r)
    BY <2>3, AddProcessInv
  <2>4. CASE GetParent(r)
    BY <2>4, GetParentInv
  <2>5. CASE FailLookup(r) \/ DecideOwn(r) \/ CheckParent(r)
    BY <2>5, LeaveInv DEF FailLookup, DecideOwn, CheckParent
  <2> QED  BY <1>3, <2>1, <2>2, <2>3, <2>4, <2>5 DEF Callback
<1>4. ASSUME NEW r \in Requesters, NEW p \in Pids, Request(r, p) PROVE Inv'
  BY <1>4, RequestInv
<1>5. CASE UNCHANGED vars
  <2>1. TypeOK' /\ SystemOK' /\ EntriesNamed' /\ EntryIsCurrent' /\ LinksOK' /\ LockOK'
    BY <1>5
    DEF vars, Inv, TypeOK, SystemOK, EntriesNamed, EntryIsCurrent, LinksOK, LockOK, Present
  <2>2. ASSUME NEW r \in Requesters PROVE TargetOK(r)' /\ ReadOK(r)'
    BY <1>5 DEF vars, Inv, TargetOK, ReadOK, Read, Present, About
  <2> QED  BY <2>1, <2>2 DEF Inv
<1> QED  BY <1>1, <1>2, <1>3, <1>4, <1>5 DEF Next

\* Inv holds in every state.
LEMMA Invariance == Spec => []Inv
BY InitInv, StepInv, PTL DEF Spec

\* The table, the lock and the requests stay within their types.
THEOREM TypeCorrect == Spec => []TypeOK
<1>1. Inv => TypeOK
  BY DEF Inv
<1> QED  BY <1>1, Invariance, PTL

\* Entries are inserted some time after they were read.  One that was read before
\* the exit notification of its process is still about the present user of the pid.
THEOREM EntriesAreCurrent == Spec => []EntryIsCurrent
<1>1. Inv => EntryIsCurrent
  BY DEF Inv
<1> QED  BY <1>1, Invariance, PTL

\* Rules are searched for under the requestor's own name, unless its pid has an
\* entry that was read after an exit notification.
THEOREM OwnNamesUnlessLate == Spec => []OwnNameUnlessLate
<1>1. Inv => OwnNameUnlessLate
  <2> SUFFICES ASSUME Inv, NEW r \in Requesters, requests[r].pc \in {"decide", "check"},
                      ~ChildInfo(r).late
               PROVE  ChildInfo(r).serial = os[requests[r].pid].serial
    BY DEF OwnNameUnlessLate
  <2>1. TargetOK(r) /\ ReadOK(r) /\ EntryIsCurrent
    BY DEF Inv
  <2> QED  BY <2>1 DEF TargetOK, ReadOK, EntryIsCurrent, ChildInfo
<1> QED  BY <1>1, Invariance, PTL

\* A link made while the parent was there leads to the requestor's parent, whatever
\* exits and whatever pids are used again in between, unless one of the two entries
\* was read after an exit notification.
THEOREM TimelyParentsAreGenuine == Spec => []TimelyParentIsGenuine
<1>1. Inv => TimelyParentIsGenuine
  <2> SUFFICES ASSUME Inv, NEW r \in Requesters, requests[r].pc = "check",
                      requests[r].shared, ChildInfo(r).timely, ~ChildInfo(r).late,
                      ~requests[r].parentInfo.late
               PROVE  requests[r].parentInfo.serial = os[requests[r].pid].parent
    BY DEF TimelyParentIsGenuine
  <2>1. TargetOK(r) /\ ReadOK(r) /\ EntryIsCurrent /\ requests[r].pid \in Pids
    BY DEF Inv, TargetOK
  <2> QED  BY <2>1 DEF ReadOK, EntryIsCurrent, ChildInfo
<1> QED  BY <1>1, Invariance, PTL

----------------------------------------------------------------------------
\* The table has an entry, empty or not, for every pid.
IsTable == processes = [p \in Pids |-> processes[p]]

\* The table is a function on the pids.
LEMMA TableInv == Spec => []IsTable
<1>1. Init => IsTable
  BY DEF Init, IsTable
<1>2. IsTable /\ [Next]_vars => IsTable'
  <2> SUFFICES ASSUME IsTable, [Next]_vars PROVE IsTable'
    OBVIOUS
  <2>1. CASE processes' = processes
    BY <2>1 DEF IsTable
  <2>2. ASSUME NEW p \in Pids, RemoveProcess(p) PROVE IsTable'
    BY <2>2 DEF RemoveProcess, Removed, IsTable
  <2>3. ASSUME NEW r \in Requesters, AddProcess(r) PROVE IsTable'
    BY <2>3 DEF AddProcess, Inserted, IsTable
  <2> QED
    BY <2>1, <2>2, <2>3
    DEF Next, vars, System, ExitProcess, ReleasePid, StartProcess, Callback, ProcessInfo,
        FromPid, FailLookup, DecideOwn, GetParent, CheckParent, Leave, Request
<1> QED  BY <1>1, <1>2, PTL DEF Spec

\* No step replaces an entry: what takes one away or cuts its link is an exit
\* notification.
THEOREM EntriesStay == Spec => EntryStays
<1>1. IsTable /\ [Next]_vars =>
        [\A p \in Pids : processes[p] # NoInfo =>
           \/ processes'[p] = processes[p]
           \/ processes'[p] = NoInfo /\ os[p].state = "exiting"
           \/ /\ processes[p].ppid # NoPid /\ os[processes[p].ppid].state = "exiting"
              /\ processes'[p] = [processes[p] EXCEPT !.ppid = NoPid]]_vars
  <2> SUFFICES ASSUME IsTable, [Next]_vars, NEW p \in Pids, processes[p] # NoInfo
               PROVE  \/ processes'[p] = processes[p]
                      \/ processes'[p] = NoInfo /\ os[p].state = "exiting"
                      \/ /\ processes[p].ppid # NoPid
                         /\ os[processes[p].ppid].state = "exiting"
                         /\ processes'[p] = [processes[p] EXCEPT !.ppid = NoPid]
    OBVIOUS
  <2>1. CASE processes' = processes
    BY <2>1
  <2>2. ASSUME NEW q \in Pids, RemoveProcess(q)
        PROVE  \/ processes'[p] = processes[p]
               \/ processes'[p] = NoInfo /\ os[p].state = "exiting"
               \/ /\ processes[p].ppid # NoPid
                  /\ os[processes[p].ppid].state = "exiting"
                  /\ processes'[p] = [processes[p] EXCEPT !.ppid = NoPid]
    BY <2>2, ProcessManagerAssumption DEF RemoveProcess, Removed, Unlinked
  <2>3. ASSUME NEW r \in Requesters, AddProcess(r) PROVE processes'[p] = processes[p]
    BY <2>3 DEF AddProcess, Inserted, IsTable
  <2> QED
    BY <2>1, <2>2, <2>3
    DEF Next, vars, System, ExitProcess, ReleasePid, StartProcess, Callback, ProcessInfo,
        FromPid, FailLookup, DecideOwn, GetParent, CheckParent, Leave, Request
<1> QED  BY <1>1, TableInv, PTL DEF Spec, EntryStays

----------------------------------------------------------------------------
\* Only a request past its own lookup shares its info.
SharedLate ==
    \A r \in Requesters : requests[r].shared =>
        requests[r].pc \in {"decide", "check"} \/ requests[r].level = "parent"

SharedInv == Inv /\ SharedLate /\ SharedStaysShared

\* The entry that a request shares is about the request's own process, which
\* does not exit meanwhile: a step of the table leaves it, but for its link.
LEMMA SharedEntryStays ==
    ASSUME SharedInv, [Next]_vars, NEW r \in Requesters, requests[r].shared
    PROVE  /\ processes'[requests[r].pid].serial = processes[requests[r].pid].serial
           /\ processes'[requests[r].pid].parent = processes[requests[r].pid].parent
<1> DEFINE p == requests[r].pid
<1>1. p \in Pids /\ os[p].state = "running" /\ processes[p] \in Info /\ processes[p] # NoInfo
  BY DEF SharedInv, Inv, TargetOK, ReadOK, TypeOK
<1>2. CASE processes' = processes
  BY <1>2
<1>3. ASSUME NEW q \in Pids, RemoveProcess(q)
      PROVE  processes'[p].serial = processes[p].serial
             /\ processes'[p].parent = processes[p].parent
  <2>1. q # p /\ processes'[p] = Unlinked(processes[p], q)
    BY <1>1, <1>3 DEF RemoveProcess, Removed
  <2> QED  BY <1>1, <2>1, UnlinkedFacts
<1>4. ASSUME NEW q \in Requesters, AddProcess(q) PROVE processes'[p] = processes[p]
  BY <1>1, <1>4 DEF AddProcess, Inserted, SharedInv, Inv, TypeOK
<1> QED
  BY <1>2, <1>3, <1>4
  DEF Next, vars, System, ExitProcess, ReleasePid, StartProcess, Callback, ProcessInfo,
      FromPid, FailLookup, DecideOwn, GetParent, CheckParent, Leave, Request

\* A step of the request itself: it may begin to share the entry it has found
\* or made, and what it shares it does not change.
LEMMA OwnStepShares ==
    ASSUME SharedInv, NEW r \in Requesters, Callback(r) \/ \E p \in Pids : Request(r, p),
           requests'[r].shared
    PROVE  /\ requests'[r].pc \in {"decide", "check"} \/ requests'[r].level = "parent"
           /\ requests'[r].pid = requests[r].pid /\ requests'[r].info \in Info
           /\ \/ requests[r].shared /\ requests'[r].info = requests[r].info
              \/ /\ processes'[requests[r].pid].serial = requests'[r].info.serial
                 /\ processes'[requests[r].pid].parent = requests'[r].info.parent
<1> DEFINE q == requests[r]
           t == requests[r].target
<1>1. /\ q \in RequestState /\ TargetOK(r) /\ ReadOK(r)
      /\ q.shared => q.pc \in {"decide", "check"} \/ q.level = "parent"
  BY DEF SharedInv, Inv, TypeOK, SharedLate
<1>2. requests \in [Requesters -> RequestState]
  BY DEF SharedInv, Inv, TypeOK
<1>3. CASE (\E p \in Pids : Request(r, p)) \/ Leave(r)
  <2>1. ASSUME NEW p \in Pids, Request(r, p) PROVE ~requests'[r].shared
    BY <1>2, <2>1 DEF Request, NoRequest
  <2>2. CASE Leave(r)
    BY <1>2, <2>2 DEF Leave, NoRequest
  <2> QED  BY <1>3, <2>1, <2>2
<1>4. CASE GetParent(r)
  BY <1>1, <1>2, <1>4 DEF GetParent, NoRequest, RequestState
<1>5. CASE FromPid(r)
  <2>1. CASE q.level = "own"
    BY <1>1, <1>2, <1>5, <2>1 DEF FromPid, RequestState
  <2>2. CASE q.level = "parent"
    BY <1>1, <1>2, <1>5, <2>2 DEF FromPid, RequestState
  <2> QED  BY <1>1, <2>1, <2>2 DEF RequestState
<1>6. ASSUME NEW info \in Info, NEW shared \in BOOLEAN, Resolve(r, info, shared),
             q.pc \in {"lookup", "add"},
             shared => /\ processes'[t].serial = info.serial
                       /\ processes'[t].parent = info.parent
      PROVE  /\ requests'[r].pc \in {"decide", "check"}
             /\ requests'[r].pid = q.pid /\ requests'[r].info \in Info
             /\ \/ q.shared /\ requests'[r].info = q.info
                \/ /\ processes'[q.pid].serial = requests'[r].info.serial
                   /\ processes'[q.pid].parent = requests'[r].info.parent
  <2>1. CASE q.level = "own"
    <3>1. t = q.pid
      BY <1>1, <1>6, <2>1 DEF TargetOK
    <3>2. requests'[r] = [q EXCEPT !.pc = "decide", !.info = info, !.shared = shared]
      BY <1>2, <1>6, <2>1 DEF Resolve
    <3> QED  BY <1>1, <1>6, <3>1, <3>2 DEF RequestState
  <2>2. CASE q.level = "parent"
    <3>1. requests'[r] = [q EXCEPT !.pc = "check", !.level = "own", !.parentInfo = info]
      BY <1>2, <1>6, <2>2 DEF Resolve
    <3> QED  BY <1>1, <3>1 DEF RequestState
  <2> QED  BY <1>1, <2>1, <2>2 DEF RequestState
<1>7. CASE ProcessInfo(r)
  <2>1. t \in Pids /\ processes[t] \in Info /\ processes' = processes /\ q.pc = "lookup"
    BY <1>1, <1>7 DEF ProcessInfo, TargetOK, SharedInv, Inv, TypeOK
  <2>2. CASE processes[t] # NoInfo
    <3>1. Resolve(r, processes[t], TRUE)
      BY <1>7, <2>2 DEF ProcessInfo
    <3> QED  BY <1>6, <2>1, <3>1
  <2>3. CASE processes[t] = NoInfo
    <3>1. requests'[r] = [q EXCEPT !.pc = "query"]
      BY <1>2, <1>7, <2>3 DEF ProcessInfo
    <3> QED  BY <1>1, <2>1, <3>1 DEF RequestState
  <2> QED  BY <2>2, <2>3
<1>8. CASE AddProcess(r)
  <2>1. /\ t \in Pids /\ Read(r) \in Info /\ q.pc = "add"
        /\ Resolve(r, Read(r), processes[t] = NoInfo) /\ processes' = Inserted(t, Read(r))
    BY <1>1, <1>8 DEF AddProcess, TargetOK, Read, RequestState
  <2>2. processes[t] = NoInfo => /\ processes'[t].serial = Read(r).serial
                                 /\ processes'[t].parent = Read(r).parent
    BY <2>1 DEF Inserted, Info, SharedInv, Inv, TypeOK
  <2> QED  BY <1>6, <2>1, <2>2
<1> QED
  BY <1>3, <1>4, <1>5, <1>7, <1>8 DEF Callback, FailLookup, DecideOwn, CheckParent

\* SharedInv is inductive.
LEMMA SharedStep == SharedInv /\ [Next]_vars => SharedInv'
<1> SUFFICES ASSUME SharedInv, [Next]_vars PROVE SharedInv'
  OBVIOUS
<1>1. Inv'
  BY StepInv DEF SharedInv
<1>2. ASSUME NEW r \in Requesters, requests'[r].shared
      PROVE  /\ requests'[r].pc \in {"decide", "check"} \/ requests'[r].level = "parent"
             /\ processes'[requests'[r].pid].serial = requests'[r].info.serial
             /\ processes'[requests'[r].pid].parent = requests'[r].info.parent
  <2>1. CASE requests'[r] = requests[r]
    BY <1>2, <2>1, SharedEntryStays DEF SharedInv, SharedLate, SharedStaysShared
  <2>2. CASE Callback(r) \/ \E p \in Pids : Request(r, p)
    BY <1>2, <2>2, OwnStepShares, SharedEntryStays DEF SharedInv, SharedStaysShared
  <2>3. requests'[r] = requests[r] \/ Callback(r) \/ \E p \in Pids : Request(r, p)
    <3>1. CASE UNCHANGED vars \/ System \/ \E p \in Pids : RemoveProcess(p)
      BY <3>1 DEF vars, System, ExitProcess, ReleasePid, StartProcess, RemoveProcess
    <3>2. ASSUME NEW q \in Requesters, q # r,
                 Callback(q) \/ \E p \in Pids : Request(q, p)
          PROVE  requests'[r] = requests[r]
      BY <3>2 DEF Callback, ProcessInfo, FromPid, AddProcess, FailLookup, DecideOwn,
         GetParent, CheckParent, Leave, Resolve, Request, SharedInv, Inv, TypeOK
    <3> QED  BY <3>1, <3>2 DEF Next
  <2> QED  BY <2>1, <2>2, <2>3
<1> QED  BY <1>1, <1>2 DEF SharedInv, SharedLate, SharedStaysShared

\* However many requests and processes there are, what a request shares with the
\* table stays the table's entry while the request runs.
THEOREM SharedEntriesStay == Spec => []SharedStaysShared
<1>1. Init => SharedInv
  BY InitInv DEF Init, NoRequest, SharedInv, SharedLate, SharedStaysShared
<1>2. SharedInv => SharedStaysShared
  BY DEF SharedInv
<1> QED  BY <1>1, <1>2, SharedStep, PTL DEF Spec
====
