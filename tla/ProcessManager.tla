---- MODULE ProcessManager ----
(***************************************************************************)
(* The process table of src/src/process_manager.rs: who asks for a file is *)
(* looked up by pid in a map the driver fills on demand, and so is its     *)
(* parent.  The exit notification of the system removes the entry of a     *)
(* process and the links of its children to it.                            *)
(*                                                                         *)
(* The system is external: processes start and exit; a process that has    *)
(* exited can be looked up by pid while something refers to it, and then   *)
(* its pid is used again.  Every process has a serial number, so that an   *)
(* entry left over from an earlier user of the pid can be told from one    *)
(* about the present user.  Requesters are the threads in pre_create and   *)
(* pre_set_info.                                                           *)
(***************************************************************************)
EXTENDS FltResource, FiniteSets

CONSTANTS
    Requesters,         \* threads of file operations
    Pids,               \* process identifiers
    Root,               \* the system process: it never exits, has no parent
    NoPid,
    MaxStarts,          \* bound on processes started
    Faults              \* may a query or an insertion fail

ASSUME ProcessManagerAssumption ==
    /\ Root \in Pids /\ NoPid \notin Pids
    /\ Requesters \intersect Pids = {}
    /\ MaxStarts \in Nat \ {0}
    /\ Faults \in BOOLEAN

VARIABLES
    os,         \* the system's processes, by pid
    starts,     \* processes started so far
    processes,  \* ProcessManager.processes
    lock,       \* processes_lock
    requests    \* requester -> the state of its callback

vars == <<os, starts, processes, lock, requests>>

Serials == 0 .. MaxStarts

Free == [state |-> "free", serial |-> 0, ppid |-> NoPid, parent |-> 0]

(***************************************************************************)
(* A ProcessInfo holds a name, here the serial of the process it was read  *)
(* from, and a parent pid.  Three fields are for properties alone: the     *)
(* serial of the parent, whether the parent had yet to exit when the entry *)
(* was added, and whether the process itself was read too late, after its  *)
(* exit notification.                                                      *)
(***************************************************************************)
NoInfo == [serial |-> 0, ppid |-> NoPid, parent |-> 0, timely |-> FALSE, late |-> FALSE]

NoRequest == [pc |-> "idle", pid |-> NoPid, target |-> NoPid, level |-> "own",
              info |-> NoInfo, shared |-> FALSE, parentInfo |-> NoInfo]

Init ==
    /\ os = [p \in Pids |-> IF p = Root
                            THEN [Free EXCEPT !.state = "running", !.serial = 1]
                            ELSE Free]
    /\ starts = 1
    /\ processes = [p \in Pids |-> NoInfo]
    /\ lock = Unlocked
    /\ requests = [r \in Requesters |-> NoRequest]

----------------------------------------------------------------------------
(* The system.                                                             *)

StartProcess(p, q) ==
    /\ os[p].state = "free" /\ os[q].state = "running" /\ starts < MaxStarts
    /\ starts' = starts + 1
    /\ os' = [os EXCEPT ![p] = [state |-> "running", serial |-> starts + 1,
                                ppid |-> q, parent |-> os[q].serial]]
    /\ UNCHANGED <<processes, lock, requests>>

\* A process does not end under one of its own file operations.
ExitProcess(p) ==
    /\ os[p].state = "running" /\ p # Root
    /\ \A r \in Requesters : requests[r].pid # p
    /\ os' = [os EXCEPT ![p].state = "exiting"]
    /\ UNCHANGED <<starts, processes, lock, requests>>

\* The last reference goes away and the pid may be used again.
ReleasePid(p) ==
    /\ os[p].state = "exited"
    /\ os' = [os EXCEPT ![p] = Free]
    /\ UNCHANGED <<starts, processes, lock, requests>>

\* PsLookupProcessByProcessId finds a process that has exited as well, as long
\* as it is referenced.
Visible(p) == os[p].state # "free"

----------------------------------------------------------------------------
(* process_callback, in the exiting process.                               *)

\* Mutants: the link is kept, or overwritten with a number.
UnlinkedNot(info, p) == info
UnlinkedZero(info, p) == IF info.ppid = p THEN [info EXCEPT !.ppid = 0] ELSE info

Unlinked(info, p) == IF info.ppid = p THEN [info EXCEPT !.ppid = NoPid] ELSE info

\* Mutants: only the links go, or the children go as well.
RemovedLinks(p) == [q \in Pids |-> Unlinked(processes[q], p)]
RemovedFamily(p) ==
    [q \in Pids |-> IF q = p \/ processes[q].ppid = p THEN NoInfo ELSE processes[q]]

Removed(p) ==
    [q \in Pids |-> IF q = p THEN NoInfo ELSE Unlinked(processes[q], p)]

RemoveProcess(p) ==
    /\ os[p].state = "exiting" /\ CanAcquireExclusive(lock, p)
    /\ processes' = Removed(p)
    /\ os' = [os EXCEPT ![p].state = "exited"]
    /\ UNCHANGED <<starts, lock, requests>>

----------------------------------------------------------------------------
(* A file operation: get_or_add_process_info for the requestor, then, if   *)
(* its own rules let it pass, get_or_add_parent_process_info, which holds  *)
(* the lock exclusively around a second get_or_add_process_info.           *)

Request(r, p) ==
    /\ requests[r].pc = "idle" /\ os[p].state = "running"
    /\ requests' = [requests EXCEPT ![r] =
         [NoRequest EXCEPT !.pc = "lookup", !.pid = p, !.target = p]]
    /\ UNCHANGED <<os, starts, processes, lock>>

\* The callback returns, without a parent if its lookup failed.
Leave(r) ==
    /\ requests' = [requests EXCEPT ![r] = NoRequest]
    /\ lock' = IF requests[r].level = "parent" THEN Release(lock, r) ELSE lock
    /\ UNCHANGED <<os, starts, processes>>

\* get_or_add_process_info returns info; shared: it is the map's own Arc.
Resolve(r, info, shared) ==
    IF requests[r].level = "own"
    THEN /\ requests' = [requests EXCEPT ![r].pc = "decide", ![r].info = info,
                                         ![r].shared = shared]
         /\ UNCHANGED lock
    ELSE /\ requests' = [requests EXCEPT ![r].pc = "check", ![r].level = "own",
                                         ![r].parentInfo = info]
         /\ lock' = Release(lock, r)

ProcessInfo(r) ==
    LET info == processes[requests[r].target]
    IN  /\ requests[r].pc = "lookup" /\ CanAcquireShared(lock, r)
        /\ IF info # NoInfo
           THEN Resolve(r, info, TRUE)
           ELSE /\ requests' = [requests EXCEPT ![r].pc = "query"]
                /\ UNCHANGED lock
        /\ UNCHANGED <<os, starts, processes>>

\* ProcessInfo::from_pid.  The two queries see one process: it is referenced.
FromPid(r) ==
    LET t == requests[r].target
        info == [serial |-> os[t].serial, ppid |-> os[t].ppid,
                 parent |-> os[t].parent, timely |-> FALSE,
                 late |-> os[t].state = "exited"]
    IN  /\ requests[r].pc = "query" /\ Visible(t)
        /\ requests' = IF requests[r].level = "own"
                       THEN [requests EXCEPT ![r].pc = "add", ![r].info = info]
                       ELSE [requests EXCEPT ![r].pc = "add", ![r].parentInfo = info]
        /\ UNCHANGED <<os, starts, processes, lock>>

Read(r) == IF requests[r].level = "own" THEN requests[r].info
                                        ELSE requests[r].parentInfo

\* The parent the info names is still to be notified of.
Timely(info) ==
    /\ info.ppid # NoPid /\ os[info.ppid].serial = info.parent
    /\ os[info.ppid].state \in {"running", "exiting"}

\* Mutant: insert in place of try_insert.
InsertedOver(p, info) == [processes EXCEPT ![p] = [info EXCEPT !.timely = Timely(info)]]

Inserted(p, info) ==
    IF processes[p] = NoInfo
    THEN [processes EXCEPT ![p] = [info EXCEPT !.timely = Timely(info)]]
    ELSE processes

\* add_process.  When another thread was first, its entry stays in the map
\* and the caller goes on with an info of its own.
AddProcess(r) ==
    LET t == requests[r].target
    IN  /\ requests[r].pc = "add" /\ CanAcquireExclusive(lock, r)
        /\ processes' = Inserted(t, Read(r))
        /\ Resolve(r, Read(r), processes[t] = NoInfo)
        /\ UNCHANGED <<os, starts>>

\* The process is not found, or a query, an allocation or a reservation fails.
FailLookup(r) ==
    /\ \/ requests[r].pc = "query" /\ (Faults \/ ~Visible(requests[r].target))
       \/ requests[r].pc = "add" /\ Faults /\ CanAcquireExclusive(lock, r)
    /\ Leave(r)

\* A rule for the requestor itself ends the operation.
DecideOwn(r) == requests[r].pc = "decide" /\ Leave(r)

\* The child's info is the map's while the map has it: see what links are cut.
ChildPpid(r) ==
    IF requests[r].shared THEN processes[requests[r].pid].ppid
                          ELSE requests[r].info.ppid

GetParent(r) ==
    /\ requests[r].pc = "decide" /\ CanAcquireExclusive(lock, r)
    /\ IF ChildPpid(r) = NoPid
       THEN /\ requests' = [requests EXCEPT ![r] = NoRequest]
            /\ UNCHANGED lock
       ELSE /\ requests' = [requests EXCEPT ![r].pc = "lookup", ![r].level = "parent",
                                            ![r].target = ChildPpid(r)]
            /\ lock' = AcquireExclusive(lock, r)
    /\ UNCHANGED <<os, starts, processes>>

CheckParent(r) == requests[r].pc = "check" /\ Leave(r)

----------------------------------------------------------------------------
System ==
    \E p \in Pids : ExitProcess(p) \/ ReleasePid(p) \/ \E q \in Pids : StartProcess(p, q)

Callback(r) ==
    \/ ProcessInfo(r) \/ FromPid(r) \/ AddProcess(r) \/ FailLookup(r)
    \/ DecideOwn(r) \/ GetParent(r) \/ CheckParent(r)

Next ==
    \/ System
    \/ \E p \in Pids : RemoveProcess(p)
    \/ \E r \in Requesters : Callback(r) \/ \E p \in Pids : Request(r, p)

Spec == Init /\ [][Next]_vars

\* A callback runs on, and so does an exit notification.  Strong fairness
\* because of the waits for the lock, which end: ERESOURCE queues the waiters.
Fairness ==
    /\ \A p \in Pids \ {Root} : SF_vars(RemoveProcess(p))
    /\ \A r \in Requesters : SF_vars(Callback(r))

FairSpec == Spec /\ Fairness

----------------------------------------------------------------------------
(* Properties.                                                             *)

Info == [serial : Serials, ppid : Pids \union {NoPid}, parent : Serials,
         timely : BOOLEAN, late : BOOLEAN]

Process == [state : {"free", "running", "exiting", "exited"}, serial : Serials,
            ppid : Pids \union {NoPid}, parent : Serials]

RequestState ==
    [pc : {"idle", "lookup", "query", "add", "decide", "check"},
     pid : Pids \union {NoPid}, target : Pids \union {NoPid},
     level : {"own", "parent"}, info : Info, shared : BOOLEAN, parentInfo : Info]

TypeOK ==
    /\ os \in [Pids -> Process]
    /\ starts \in Serials
    /\ processes \in [Pids -> Info]
    /\ lock \in Lock(Requesters \union Pids)
    /\ requests \in [Requesters -> RequestState]

\* The info a requestor goes by, the map's or its own.
ChildInfo(r) ==
    IF requests[r].shared THEN processes[requests[r].pid] ELSE requests[r].info

\* An entry read before the exit notification of its process is about the
\* present user of its pid, which has yet to be notified of: the entry was not
\* added behind the back of the notification, which alone deletes entries
\* (process_callback, add_process).
EntryIsCurrent ==
    \A p \in Pids : processes[p] # NoInfo /\ ~processes[p].late =>
        /\ os[p].serial = processes[p].serial /\ os[p].parent = processes[p].parent
        /\ os[p].state \in {"running", "exiting"}

\* The name the rules are searched for is the requestor's own, unless the pid
\* has an entry that was read after the exit notification of an earlier user
\* (get_or_add_process_info).
OwnNameUnlessLate ==
    \A r \in Requesters : requests[r].pc \in {"decide", "check"} /\ ~ChildInfo(r).late =>
        ChildInfo(r).serial = os[requests[r].pid].serial

\* When the child's entry was in the map before its parent exited, the lookup
\* returns the requestor's parent, and not another user of the pid: the exit
\* notification and get_or_add_parent_process_info exclude each other.  It may
\* return an entry that was read after a notification.
TimelyParentIsGenuine ==
    \A r \in Requesters :
        (/\ requests[r].pc = "check" /\ requests[r].shared
         /\ ChildInfo(r).timely /\ ~ChildInfo(r).late /\ ~requests[r].parentInfo.late)
            => requests[r].parentInfo.serial = os[requests[r].pid].parent

\* An Arc shared with the map stays the map's entry while the callback uses
\* it, so a link the notification cuts is cut for the callback as well.
SharedStaysShared ==
    \A r \in Requesters : requests[r].shared =>
        /\ processes[requests[r].pid].serial = requests[r].info.serial
        /\ processes[requests[r].pid].parent = requests[r].info.parent

\* No step replaces an entry: it stays as it was added until the notification
\* of its process removes it, except for the link to a parent that exited
\* (try_insert in add_process, remove_process).
EntryStays ==
    [][\A p \in Pids : processes[p] # NoInfo =>
         \/ processes'[p] = processes[p]
         \/ processes'[p] = NoInfo /\ os[p].state = "exiting"
         \/ /\ processes[p].ppid # NoPid /\ os[processes[p].ppid].state = "exiting"
            /\ processes'[p] = [processes[p] EXCEPT !.ppid = NoPid]]_vars

\* Every file operation gets its answer: the nested lookups, which acquire a
\* lock their thread already holds, never wait for themselves.
RequestCompletes ==
    \A r \in Requesters : requests[r].pc # "idle" ~> requests[r].pc = "idle"

\* Every exit notification ends.
NotificationCompletes ==
    \A p \in Pids \ {Root} : os[p].state = "exiting" ~> os[p].state # "exiting"
====
