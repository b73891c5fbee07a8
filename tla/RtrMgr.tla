------------------------------- MODULE RtrMgr -------------------------------
(***************************************************************************)
(* The connection manager (rtrlib/rtr_mgr.c) and the part of the socket    *)
(* life cycle it drives (rtrlib/rtr/rtr.c): groups of RTR sockets ordered  *)
(* by preference, fail-over to a less preferable group, switch-back to a   *)
(* more preferable one, and groups added and removed while threads run.    *)
(*                                                                         *)
(* Every socket has a thread of its own that runs the protocol and, inside *)
(* it, the manager's callback; one application thread calls the rtr_mgr_*  *)
(* functions.  What a thread still has to do is a sequence of tasks,       *)
(* work[p]: a step takes the first task and puts the tasks of the calls it *)
(* makes in its place, so the sequence is the thread's call stack.  Group  *)
(* status, socket state and thread ids are read and written without mutual *)
(* exclusion in the code, so reading and writing them are separate steps.  *)
(***************************************************************************)
EXTENDS Integers, Sequences, FiniteSetsExt

CONSTANTS
    Group,      \* groups, identified by their preference value
    Sockets,    \* Sockets[g]: the sockets array of group g
    GroupOf,    \* GroupOf[s]: the group s hands to the callback
    Configured, \* the groups passed to rtr_mgr_setup_sockets
    App,        \* the application thread
    Calls,      \* the functions the application calls
    Faults      \* what may go wrong: see CallAssumption

Sock == DOMAIN GroupOf
Proc == Sock \cup {App}

ASSUME GroupAssumption ==
    /\ Group \subseteq Nat
    /\ Configured \subseteq Group /\ Configured # {}
ASSUME SocketAssumption ==
    /\ GroupOf \in [Sock -> Group]
    /\ Sockets \in [Group -> Seq(Sock)]
    /\ \A g \in Group : /\ Sockets[g] # <<>>
                        /\ \A i \in DOMAIN Sockets[g] : GroupOf[Sockets[g][i]] = g
    /\ App \notin Sock
ASSUME CallAssumption ==
    /\ Calls \subseteq {"start", "stop", "add", "remove"}
    /\ Faults \subseteq {"outage",  \* a cache goes out of reach
                          "recovery",\* a cache comes back into reach
                          "cache",   \* a reachable cache answers with errors
                          "expire",  \* a socket loses its records
                          "thread"}  \* a thread cannot be started

Status == {"CLOSED", "CONNECTING", "ESTABLISHED", "ERROR"}

(* ERROR stands for RTR_ERROR_FATAL and RTR_ERROR_TRANSPORT, which the     *)
(* thread and the callback treat alike.                                    *)
State == {"CLOSED", "CONNECTING", "RESET", "SYNC", "ESTABLISHED", "FAST_RECONNECT",
          "NO_INCR_UPDATE", "NO_DATA", "ERROR", "SHUTDOWN"}

VARIABLES
    groups,     \* the groups in config->groups
    status,     \* group->status
    state,      \* rtr_socket->state
    last_update,\* rtr_socket->last_update # 0
    thread,     \* "none" iff thread_id = 0, else how far that thread is
    cancel,     \* sockets whose thread has been sent pthread_cancel
    work,       \* what each thread still has to do
    up,         \* sockets whose cache can be reached
    freed       \* groups whose memory has been freed

sockets == <<state, last_update, thread, cancel>>
data == <<groups, status, sockets, up, freed>>
vars == <<data, work>>

MembersOf(g) == {Sockets[g][i] : i \in DOMAIN Sockets[g]}

-----------------------------------------------------------------------------
(* Tasks                                                                   *)

Write(s, new)    == [fn |-> "write", s |-> s, new |-> new]
Callback(s, new) == [fn |-> "callback", s |-> s, new |-> new]
SetStatus(g, v)  == [fn |-> "set_status", g |-> g, v |-> v]
Close(g, k)      == [fn |-> "close_less", g |-> g, k |-> k]
IsSome(g)        == [fn |-> "is_some_established", g |-> g]
Best(g)          == [fn |-> "get_best_inactive", g |-> g]
Start(g, i)      == [fn |-> "start", g |-> g, i |-> i]
Create(g, i)     == [fn |-> "create", g |-> g, i |-> i]
Stop(s)          == [fn |-> "stop", s |-> s]
Cancel(s)        == [fn |-> "cancel", s |-> s]
Join(s)          == [fn |-> "join", s |-> s]
Closed(s)        == [fn |-> "closed", s |-> s]
Sleep(s)         == [fn |-> "sleep", s |-> s]
WaitEnd(s)       == [fn |-> "wait", s |-> s]
StopAll(k)       == [fn |-> "stop_all", k |-> k]
Add(g)           == [fn |-> "add", g |-> g]
Remove(g)        == [fn |-> "remove", g |-> g]
StopRemoved(g)   == [fn |-> "stop_removed", g |-> g]
StartFirst       == [fn |-> "start_first"]
Unlock           == [fn |-> "unlock"]
Free(g)          == [fn |-> "free", g |-> g]

At(p, fn) == work[p] # <<>> /\ work[p][1].fn = fn
Task(p)   == work[p][1]

(* Process p's first task is done, except for `tasks`, which come next.    *)
Continue(p, tasks) == work' = [work EXCEPT ![p] = tasks \o Tail(@)]

(* config->mutex.  The first round of close_less takes the read lock, the  *)
(* last one gives it back; rtr_mgr_add_group holds the write lock up to    *)
(* Unlock.  The other critical sections are one step each, except that of  *)
(* rtr_mgr_stop, whose read lock keeps out the application only.  A writer *)
(* that waits does not keep readers out, as is the default of the C        *)
(* library; where it does, close_less may join a thread whose callback     *)
(* waits for the lock behind that writer.                                  *)
ReadLocked  == \E p \in Proc : \E i \in DOMAIN work[p] :
                  work[p][i].fn = "close_less" /\ work[p][i].k # work[p][i].g
WriteLocked == \E i \in DOMAIN work[App] : work[App][i].fn = "unlock"

(* What the code may not do to a thread or to memory.  Its effect is       *)
(* undefined, and no step is taken from a state where it has happened: a   *)
(* thread has been created or joined twice, or a freed group is in use.    *)
InUse(g) == \/ \E s \in MembersOf(g) : thread[s] \notin {"none", "exited"}
            \/ \E p \in Proc : \E i \in DOMAIN work[p] :
                  LET t == work[p][i] IN
                  \/ t.fn \in {"set_status", "is_some_established", "get_best_inactive",
                               "start", "create"} /\ t.g = g
                  \/ t.fn = "close_less" /\ g \in {t.g, t.k}
                  \/ t.fn = "callback" /\ GroupOf[t.s] = g
Undefined == \/ \E s \in Sock : thread[s] = "lost"
             \/ \E g \in freed : InUse(g)

(* It is p's turn to run the task fn. *)
Turn(p, fn) == At(p, fn) /\ ~Undefined

(* The thread of a socket is between two rounds of rtr_fsm_start's loop.   *)
Looping(s) == thread[s] = "loop" /\ work[s] = <<>> /\ ~Undefined

-----------------------------------------------------------------------------
(* The manager's callback                                                  *)

(* rtr_mgr_config_status_is_synced *)
IsSynced(g) == \A s \in MembersOf(g) :
                  last_update[s] /\ state[s] \in {"ESTABLISHED", "RESET", "SYNC"}

Established(g) == <<SetStatus(g, "ESTABLISHED"), Close(g, g)>>

CbShutdown(g) ==
    IF \A s \in MembersOf(g) : state[s] = "SHUTDOWN"
    THEN <<SetStatus(g, "CLOSED")>> ELSE <<SetStatus(g, status[g])>>

AllError(g) == \A h \in groups : h < g => status[h] \in {"ERROR", "CLOSED"}

CbEstablished(g) ==
    IF status[g] = "CONNECTING"
    THEN IF IsSynced(g) THEN Established(g) ELSE <<SetStatus(g, "CONNECTING")>>
    ELSE IF status[g] = "ERROR"
    THEN IF AllError(g) /\ IsSynced(g) THEN Established(g) ELSE <<SetStatus(g, "ERROR")>>
    ELSE <<>>

\* Faulty variant: the other groups are closed before this one is synced.
CbConnectingCloses(g) == <<SetStatus(g, "CONNECTING"), Close(g, g)>>

CbConnecting(g) ==
    <<SetStatus(g, IF status[g] = "ERROR" THEN "ERROR" ELSE "CONNECTING")>>

\* Faulty variant: no other group is started.
CbErrorOnlyStatus(g) == <<SetStatus(g, "ERROR")>>

CbError(g) == <<SetStatus(g, "ERROR"), IsSome(g)>>

CbOther(g) == <<SetStatus(g, status[g])>>

(* rtr_mgr_cb up to its first write; the look at the other groups in the   *)
(* established callback takes the read lock.                               *)
RunCallback(p) ==
    /\ Turn(p, "callback")
    /\ LET g == GroupOf[Task(p).s]  new == Task(p).new IN
       /\ (new = "ESTABLISHED" /\ status[g] = "ERROR") => ~WriteLocked
       /\ Continue(p, IF new = "SHUTDOWN" THEN CbShutdown(g)
                      ELSE IF new = "ESTABLISHED" THEN CbEstablished(g)
                      ELSE IF new = "CONNECTING" THEN CbConnecting(g)
                      ELSE IF new \in {"ERROR", "NO_DATA"} THEN CbError(g)
                      ELSE CbOther(g))
    /\ UNCHANGED data

(* set_status *)
RunSetStatus(p) ==
    /\ Turn(p, "set_status")
    /\ status' = [status EXCEPT ![Task(p).g] = Task(p).v]
    /\ Continue(p, <<>>)
    /\ UNCHANGED <<groups, sockets, up, freed>>

\* Faulty variant: includes k itself.
NotBefore(k) == {h \in groups : h >= k}

(* The groups behind k in the list, which is sorted by preference. *)
Behind(k) == {h \in groups : h > k}

(* rtr_stop on every socket of g *)
StopSockets(g) == [i \in DOMAIN Sockets[g] |-> Stop(Sockets[g][i])]

(* rtr_mgr_close_less_preferable_groups: one round of its loop, over the   *)
(* first group behind k in the list.  The groups up to t.g are passed over *)
(* in the code, so the walk starts behind t.g.                             *)
RunClose(p) ==
    /\ Turn(p, "close_less") /\ ~WriteLocked
    /\ LET t == Task(p)  rest == Behind(t.k) IN
       Continue(p, IF rest = {} THEN <<>>
                   ELSE LET h == Min(rest) IN
                        IF status[h] # "CLOSED"
                        THEN StopSockets(h) \o <<SetStatus(h, "CLOSED"), Close(t.g, h)>>
                        ELSE <<Close(t.g, h)>>)
    /\ UNCHANGED data

(* is_some_rtr_mgr_group_established and the test of its result *)
RunIsSome(p) ==
    /\ Turn(p, "is_some_established") /\ ~WriteLocked
    /\ Continue(p, IF \E h \in groups : status[h] = "ESTABLISHED"
                   THEN <<>> ELSE <<Best(Task(p).g)>>)
    /\ UNCHANGED data

(* get_best_inactive_rtr_mgr_group and the start of what it returns *)
RunBest(p) ==
    /\ Turn(p, "get_best_inactive") /\ ~WriteLocked
    /\ LET idle == {h \in groups : h # Task(p).g /\ status[h] = "CLOSED"} IN
       Continue(p, IF idle = {} THEN <<>> ELSE <<Start(Min(idle), 1)>>)
    /\ UNCHANGED data

-----------------------------------------------------------------------------
(* Starting and stopping sockets                                           *)

\* Faulty variant: the test of thread_id is missing.
RunStartUntested(p) ==
    /\ Turn(p, "start")
    /\ Continue(p, <<Create(Task(p).g, Task(p).i)>>)
    /\ UNCHANGED data

(* rtr_mgr_start_sockets: the test of thread_id in rtr_start.  An error    *)
(* ends the loop and leaves the group's status as it is.                   *)
RunStart(p) ==
    /\ Turn(p, "start")
    /\ LET t == Task(p) IN
       Continue(p, IF thread[Sockets[t.g][t.i]] = "none" THEN <<Create(t.g, t.i)>> ELSE <<>>)
    /\ UNCHANGED data

(* pthread_create; after the last socket the group is CONNECTING.          *)
RunCreate(p) ==
    /\ Turn(p, "create")
    /\ LET t == Task(p)  s == Sockets[t.g][t.i] IN
       \/ /\ thread' = [thread EXCEPT ![s] = IF @ = "none" THEN "new" ELSE "lost"]
          /\ cancel' = cancel \ {s}
          /\ Continue(p, IF t.i = Len(Sockets[t.g]) THEN <<SetStatus(t.g, "CONNECTING")>>
                         ELSE <<Start(t.g, t.i + 1)>>)
       \/ /\ "thread" \in Faults
          /\ Continue(p, <<>>)
          /\ UNCHANGED <<thread, cancel>>
    /\ UNCHANGED <<groups, status, state, last_update, up, freed>>

(* rtr_stop: rtr_change_socket_state to RTR_SHUTDOWN *)
RunStop(p) ==
    /\ Turn(p, "stop")
    /\ LET s == Task(p).s IN
       /\ state' = [state EXCEPT ![s] = "SHUTDOWN"]
       /\ Continue(p, IF state[s] = "SHUTDOWN" THEN <<Cancel(s)>>
                      ELSE <<Callback(s, "SHUTDOWN"), Cancel(s)>>)
    /\ UNCHANGED <<groups, status, last_update, thread, cancel, up, freed>>

\* Faulty variant: relies on the state alone to end the thread.
RunCancelNot(p) ==
    /\ Turn(p, "cancel")
    /\ LET s == Task(p).s IN
       Continue(p, IF thread[s] = "none" THEN <<>> ELSE <<Join(s)>>)
    /\ UNCHANGED data

(* rtr_stop: the test of thread_id and pthread_cancel *)
RunCancel(p) ==
    /\ Turn(p, "cancel")
    /\ LET s == Task(p).s IN
       IF thread[s] = "none"
       THEN /\ Continue(p, <<>>)
            /\ UNCHANGED cancel
       ELSE /\ Continue(p, <<Join(s)>>)
            /\ cancel' = cancel \cup {s}
    /\ UNCHANGED <<groups, status, state, last_update, thread, up, freed>>

(* rtr_stop: pthread_join and what follows, up to thread_id = 0.  Joining  *)
(* a thread that another thread joins or has joined is undefined.          *)
RunJoin(p) ==
    /\ Turn(p, "join")
    /\ LET s == Task(p).s
           other == \E q \in Proc \ {p} : At(q, "join") /\ Task(q).s = s IN
       \/ /\ thread[s] = "exited" /\ ~other
          /\ thread' = [thread EXCEPT ![s] = "none"]
          /\ last_update' = [last_update EXCEPT ![s] = FALSE]
          /\ cancel' = cancel \ {s}
          /\ Continue(p, <<Closed(s)>>)
       \/ /\ thread[s] = "none" \/ other
          /\ thread' = [thread EXCEPT ![s] = "lost"]
          /\ Continue(p, <<>>)
          /\ UNCHANGED <<last_update, cancel>>
    /\ UNCHANGED <<groups, status, state, up, freed>>

(* rtr_stop: the last write of the state.  From thread_id = 0 on, another  *)
(* thread may start the socket again before this write.                    *)
RunClosed(p) ==
    /\ Turn(p, "closed")
    /\ state' = [state EXCEPT ![Task(p).s] = "CLOSED"]
    /\ Continue(p, <<>>)
    /\ UNCHANGED <<groups, status, last_update, thread, cancel, up, freed>>

-----------------------------------------------------------------------------
(* The socket threads                                                      *)

(* rtr_fsm_start up to its loop: the test for RTR_SHUTDOWN, the optional   *)
(* start callback of the application, then the write of RTR_CONNECTING.    *)
ThreadStart(s) ==
    /\ thread[s] = "new" /\ ~Undefined
    /\ \/ thread' = [thread EXCEPT ![s] = IF state[s] = "SHUTDOWN" THEN "exited" ELSE "begin"]
       \/ /\ "thread" \in Faults
          /\ thread' = [thread EXCEPT ![s] = "exited"]
    /\ UNCHANGED <<groups, status, state, last_update, cancel, work, up, freed>>

ThreadBegin(s) ==
    /\ thread[s] = "begin" /\ ~Undefined
    /\ thread' = [thread EXCEPT ![s] = "loop"]
    /\ state' = [state EXCEPT ![s] = "CONNECTING"]
    /\ UNCHANGED <<groups, status, last_update, cancel, work, up, freed>>

(* The state a round of the loop changes to.  Whether a session id is at   *)
(* hand when connecting is left open.                                      *)
Outcomes(s) ==
    LET fault(S) == IF "cache" \in Faults THEN S ELSE {}
        reach(S) == IF s \in up THEN S ELSE {"ERROR"} IN
    [CONNECTING     |-> reach({"RESET", "SYNC"}),
     RESET          |-> reach({"SYNC"}),
     SYNC           |-> reach({"ESTABLISHED"} \cup
                              fault({"ERROR", "NO_DATA", "NO_INCR_UPDATE", "FAST_RECONNECT"})),
     ESTABLISHED    |-> reach({"SYNC"} \cup fault({"ERROR"})),
     FAST_RECONNECT |-> {"CONNECTING"},
     NO_INCR_UPDATE |-> {"RESET"},
     NO_DATA        |-> {"RESET"},
     ERROR          |-> {"CONNECTING"}]

(* One round of the loop: what the thread does in its state, up to the     *)
(* write of the next state in rtr_change_socket_state.  A complete         *)
(* synchronisation sets last_update.  The wait in RTR_ESTABLISHED can be   *)
(* cancelled, the callback for an error met there included, and so can the *)
(* sleep that follows an error.                                            *)
Round(s) ==
    /\ Looping(s) /\ state[s] \in DOMAIN Outcomes(s)
    /\ ~(state[s] = "ESTABLISHED" /\ s \in cancel)
    /\ \E new \in Outcomes(s)[state[s]] :
       /\ work' = [work EXCEPT ![s] =
             IF state[s] = "ERROR" THEN <<Write(s, new), Sleep(s)>>
             ELSE IF state[s] = "ESTABLISHED" /\ new = "ERROR"
                  THEN <<Write(s, new), WaitEnd(s)>>
                  ELSE <<Write(s, new)>>]
       /\ last_update' = [last_update EXCEPT ![s] = @ \/ new = "ESTABLISHED"]
    /\ UNCHANGED <<groups, status, state, thread, cancel, up, freed>>

(* The write in rtr_change_socket_state, after its tests.                  *)
RunWrite(s) ==
    /\ Turn(s, "write")
    /\ state' = [state EXCEPT ![s] = Task(s).new]
    /\ Continue(s, <<Callback(s, Task(s).new)>>)
    /\ UNCHANGED <<groups, status, last_update, thread, cancel, up, freed>>

(* The records are purged as outdated, or a new session begins.            *)
Forget(s) ==
    /\ "expire" \in Faults
    /\ Looping(s) /\ state[s] \in {"CONNECTING", "RESET", "SYNC"} /\ last_update[s]
    /\ last_update' = [last_update EXCEPT ![s] = FALSE]
    /\ UNCHANGED <<groups, status, state, thread, cancel, work, up, freed>>

(* The sleep is over, or rtr_wait_for_sync returns. *)
Wake(s) ==
    /\ (Turn(s, "sleep") /\ s \notin cancel) \/ Turn(s, "wait")
    /\ Continue(s, <<>>)
    /\ UNCHANGED data

(* rtr_wait_for_sync calls the callback. *)
Waiting(s) == work[s] # <<>> /\ work[s][Len(work[s])].fn = "wait" /\ ~Undefined

(* The thread ends: it finds RTR_SHUTDOWN, or is cancelled where it can be.*)
Exit(s) ==
    /\ \/ Looping(s) /\ (state[s] = "SHUTDOWN" \/ (state[s] = "ESTABLISHED" /\ s \in cancel))
       \/ (Turn(s, "sleep") \/ Waiting(s)) /\ s \in cancel
    /\ thread' = [thread EXCEPT ![s] = "exited"]
    /\ work' = [work EXCEPT ![s] = <<>>]
    /\ UNCHANGED <<groups, status, state, last_update, cancel, up, freed>>

-----------------------------------------------------------------------------
(* The application                                                         *)

Idle(call) == work[App] = <<>> /\ call \in Calls /\ ~Undefined

Enter(tasks) == work' = [work EXCEPT ![App] = tasks]

(* rtr_mgr_start *)
MgrStart ==
    /\ Idle("start")
    /\ Enter(<<Start(Min(groups), 1)>>)
    /\ UNCHANGED data

(* rtr_mgr_stop *)
MgrStop ==
    /\ Idle("stop")
    /\ Enter(<<StopAll(-1)>>)
    /\ UNCHANGED data

RunStopAll ==
    /\ Turn(App, "stop_all")
    /\ LET rest == Behind(Task(App).k) IN
       Continue(App, IF rest = {} THEN <<>>
                     ELSE StopSockets(Min(rest)) \o <<StopAll(Min(rest))>>)
    /\ UNCHANGED data

Unused(g) == \A s \in MembersOf(g) : thread[s] \in {"none", "exited"}

(* rtr_mgr_add_group, up to the write lock.  The sockets of the new group  *)
(* must not be in use.                                                     *)
MgrAdd(g) ==
    /\ Idle("add") /\ (g \in groups \/ Unused(g))
    /\ Enter(<<Add(g)>>)
    /\ UNCHANGED data

(* Once it has the lock, it refuses a preference that is present already,  *)
(* or keeps the lock up to Unlock.  Nobody starts the sockets of a group   *)
(* that is not in the list: they are unused still.                         *)
RunAdd ==
    /\ Turn(App, "add") /\ ~ReadLocked
    /\ LET g == Task(App).g IN
       \/ /\ g \in groups
          /\ Continue(App, <<>>)
          /\ UNCHANGED <<groups, status, state, last_update, thread, freed>>
       \/ /\ g \notin groups /\ Unused(g)
          /\ groups' = groups \cup {g}
          /\ freed' = freed \ {g}
          /\ status' = [status EXCEPT ![g] = "CLOSED"]
          /\ state' = [s \in Sock |-> IF s \in MembersOf(g) THEN "CLOSED" ELSE state[s]]
          /\ last_update' = [s \in Sock |-> s \notin MembersOf(g) /\ last_update[s]]
          /\ thread' = [s \in Sock |-> IF s \in MembersOf(g) THEN "none" ELSE thread[s]]
          /\ Continue(App, <<StartFirst, Unlock>>)
    /\ UNCHANGED <<cancel, up>>

(* The start of the first group in rtr_mgr_add_group and _remove_group.    *)
RunStartFirst ==
    /\ Turn(App, "start_first")
    /\ LET g == Min(groups) IN
       Continue(App, IF status[g] = "CLOSED" THEN <<Start(g, 1)>> ELSE <<>>)
    /\ UNCHANGED data

RunUnlock ==
    /\ Turn(App, "unlock")
    /\ Continue(App, <<>>)
    /\ UNCHANGED data

(* rtr_mgr_remove_group, up to the write lock.                             *)
MgrRemove(g) ==
    /\ Idle("remove")
    /\ Enter(<<Remove(g)>>)
    /\ UNCHANGED data

(* The critical section, then the rest without lock.  The last group, and  *)
(* a group that is not in the list, are not removed.                       *)
RunRemove ==
    /\ Turn(App, "remove") /\ ~ReadLocked
    /\ LET g == Task(App).g IN
       \/ /\ g \notin groups \/ groups = {g}
          /\ Continue(App, <<>>)
          /\ UNCHANGED groups
       \/ /\ g \in groups /\ groups # {g}
          /\ groups' = groups \ {g}
          /\ Continue(App, <<StopRemoved(g), StartFirst, Free(g)>>)
    /\ UNCHANGED <<status, sockets, up, freed>>

RunStopRemoved ==
    /\ Turn(App, "stop_removed")
    /\ LET g == Task(App).g IN
       Continue(App, IF status[g] # "CLOSED"
                     THEN StopSockets(g) \o <<SetStatus(g, "CLOSED")>> ELSE <<>>)
    /\ UNCHANGED data

RunFree ==
    /\ Turn(App, "free")
    /\ freed' = freed \cup {Task(App).g}
    /\ Continue(App, <<>>)
    /\ UNCHANGED <<groups, status, sockets, up>>

-----------------------------------------------------------------------------
(* A cache goes out of reach, or comes back.                               *)
Outage(s) ==
    /\ "outage" \in Faults /\ s \in up
    /\ up' = up \ {s}
    /\ UNCHANGED <<groups, status, sockets, work, freed>>

Recovery(s) ==
    /\ "recovery" \in Faults /\ s \notin up
    /\ up' = up \cup {s}
    /\ UNCHANGED <<groups, status, sockets, work, freed>>

(* rtr_mgr_init, rtr_mgr_setup_sockets and rtr_init *)
Init ==
    /\ groups = Configured
    /\ status = [g \in Group |-> "CLOSED"]
    /\ state = [s \in Sock |-> "CLOSED"]
    /\ last_update = [s \in Sock |-> FALSE]
    /\ thread = [s \in Sock |-> "none"]
    /\ cancel = {}
    /\ work = [p \in Proc |-> <<>>]
    /\ up \in SUBSET Sock
    /\ freed = {}

(* What the application and the socket threads both do *)
RunTask(p) ==
    \/ RunCallback(p) \/ RunSetStatus(p) \/ RunStart(p) \/ RunCreate(p)
    \/ RunStop(p) \/ RunCancel(p) \/ RunJoin(p) \/ RunClosed(p)

SockStep(s) ==
    \/ RunTask(s) \/ RunClose(s) \/ RunIsSome(s) \/ RunBest(s)
    \/ ThreadStart(s) \/ ThreadBegin(s) \/ Round(s) \/ RunWrite(s) \/ Wake(s) \/ Exit(s)

AppStep ==
    \/ RunTask(App)
    \/ RunStopAll \/ RunAdd \/ RunStartFirst \/ RunUnlock
    \/ RunRemove \/ RunStopRemoved \/ RunFree

AppCall ==
    \/ MgrStart \/ MgrStop
    \/ \E g \in Group : MgrAdd(g) \/ MgrRemove(g)

Environment == \E s \in Sock : Forget(s) \/ Outage(s) \/ Recovery(s)

Next ==
    \/ \E s \in Sock : SockStep(s)
    \/ AppStep \/ AppCall \/ Environment

Spec == Init /\ [][Next]_vars

(* Threads are scheduled; caches, timers and the application owe nothing.  *)
Fairness ==
    /\ \A s \in Sock : WF_vars(SockStep(s))
    /\ WF_vars(AppStep)

FairSpec == Spec /\ Fairness

-----------------------------------------------------------------------------
(* Properties                                                              *)

Tasks == [fn : {"write", "callback"}, s : Sock, new : State]
         \cup [fn : {"set_status"}, g : Group, v : Status]
         \cup [fn : {"close_less"}, g : Group, k : Group]
         \cup [fn : {"is_some_established", "get_best_inactive", "add", "remove",
                     "stop_removed", "free"}, g : Group]
         \cup [fn : {"start", "create"}, g : Group, i : Nat]
         \cup [fn : {"stop", "cancel", "join", "closed", "sleep", "wait"}, s : Sock]
         \cup [fn : {"stop_all"}, k : Group \cup {-1}]
         \cup [fn : {"start_first", "unlock"}]

(* Every variable has its type. *)
MgrTypeOK ==
    /\ groups \subseteq Group /\ groups # {} /\ freed \subseteq Group
    /\ status \in [Group -> Status]
    /\ state \in [Sock -> State]
    /\ last_update \in [Sock -> BOOLEAN]
    /\ thread \in [Sock -> {"none", "new", "begin", "loop", "exited", "lost"}]
    /\ cancel \subseteq Sock /\ up \subseteq Sock
    /\ work \in [Proc -> Seq(Tasks)]

(* What the socket thread s may still have to do, given whether its socket *)
(* has been synchronised.                                                  *)
Sound(s, t, synced) ==
    /\ t.fn = "write" => t.s = s /\ t.new # "SHUTDOWN" /\ (t.new = "ESTABLISHED" => synced)
    /\ t.fn = "callback" => t.new = "SHUTDOWN" \/ (t.s = s /\ (t.new = "ESTABLISHED" => synced))
    /\ t.fn = "close_less" => t.g = GroupOf[s] /\ t.g <= t.k /\ synced
    /\ t.fn \in {"stop", "cancel", "join", "closed"} => GroupOf[s] < GroupOf[t.s] /\ synced

(* The inductive invariant behind Downhill and MakeBeforeBreak: only a     *)
(* running thread has tasks, and all of them are sound.                    *)
MgrInv == \A s \in Sock :
    /\ thread[s] \notin {"loop", "lost"} => work[s] = <<>>
    /\ \A i \in DOMAIN work[s] : Sound(s, work[s][i], last_update[s])

(* A socket thread that waits in pthread_join (rtr_stop, called by         *)
(* rtr_mgr_close_less_preferable_groups in its callback) waits for the     *)
(* thread of a less preferable group only.  Threads that wait for each     *)
(* other therefore never form a cycle.                                     *)
Downhill == \A s \in Sock : At(s, "join") => GroupOf[s] < GroupOf[Task(s).s]

(* Make before break: a socket thread takes another group's sockets down,  *)
(* and drops their records, only while its own socket has records of a     *)
(* complete synchronisation.                                               *)
MakeBeforeBreak ==
    \A s \in Sock : At(s, "stop") \/ At(s, "cancel") \/ At(s, "join") => last_update[s]

(* rtr.h says of thread_id: "Handle of the thread this socket is running   *)
(* in."  A socket never runs in two threads, and no thread is joined twice.*)
OneThread == \A s \in Sock : thread[s] # "lost"

(* A thread whose state has been set to RTR_CLOSED: its loop does nothing. *)
Stray(s) == thread[s] = "loop" /\ state[s] = "CLOSED" /\ work[s] = <<>>

(* Every call of the application returns: neither the locks, the wait for  *)
(* the write lock included, nor the joins of rtr_mgr_stop,                 *)
(* rtr_mgr_remove_group and the callbacks deadlock.  Only a stray thread,  *)
(* which can be waited for in vain, is excepted.                           *)
CallReturns ==
    (work[App] # <<>>) ~> (work[App] = <<>> \/ Undefined \/ \E s \in Sock : Stray(s))

(* rtr_mgr_conf_in_sync *)
InSync == \E g \in groups : \A s \in MembersOf(g) : last_update[s]

Running == \E s \in Sock : thread[s] = "loop"

(* "In case of failures, the connection manager establishes connections to *)
(* RTR servers of another group": when the manager runs and the caches of  *)
(* some group stay in reach, then, whatever the other caches do, data of a *)
(* complete group is at hand again and again.                              *)
Failover ==
    \A g \in Configured :
       <>[](Running /\ ~Undefined /\ MembersOf(g) \subseteq up) => []<>InSync
=============================================================================
