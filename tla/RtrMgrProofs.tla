---------------------------- MODULE RtrMgrProofs ----------------------------
(***************************************************************************)
(* The connection manager, for any groups, sockets, calls and faults:      *)
(* types, the order in which threads wait for each other, and make before  *)
(* break.                                                                  *)
(***************************************************************************)
EXTENDS RtrMgr, TLAPS, SequenceTheorems, WellFoundedInduction

-----------------------------------------------------------------------------
(* Operators                                                               *)

\* The list is walked in the order of preference: a first group exists.
LEMMA MinIn ==
    ASSUME NEW S \in SUBSET Nat, S # {}
    PROVE  Min(S) \in S
<1> DEFINE R == OpToRel(<, Nat)
<1>1. \E x \in S : \A y \in S : ~(<<y, x>> \in R)
  BY NatLessThanWellFounded, WFMin, Zenon
<1>2. PICK x \in S : \A y \in S : ~(<<y, x>> \in R)
  BY <1>1, Zenon
<1>3. \A y \in S : ~(y < x)
  <2> SUFFICES ASSUME NEW y \in S, y < x PROVE FALSE
    OBVIOUS
  <2>1. <<y, x>> \in Nat \X Nat
    OBVIOUS
  <2>2. <<y, x>>[1] < <<y, x>>[2]
    OBVIOUS
  <2>3. <<y, x>> \in R
    BY <2>1, <2>2, Zenon DEF OpToRel
  <2> QED
    BY <1>2, <2>3, Zenon
<1> HIDE DEF R
<1>4. \A y \in S : x =< y
  BY <1>3, SMT
<1> QED
  BY <1>4, Zenon DEF Min

\* What Continue leaves to do: the new tasks, then the old ones but the first.
LEMMA ContinueElements ==
    ASSUME NEW T, NEW w \in Seq(T), w # <<>>, NEW a \in Seq(T)
    PROVE  /\ a \o Tail(w) \in Seq(T)
           /\ \A i \in DOMAIN (a \o Tail(w)) :
                 \/ i \in DOMAIN a /\ (a \o Tail(w))[i] = a[i]
                 \/ \E j \in DOMAIN w : (a \o Tail(w))[i] = w[j]
<1>1. Tail(w) \in Seq(T) /\ Len(Tail(w)) = Len(w) - 1
      /\ \A i \in 1..Len(Tail(w)) : Tail(w)[i] = w[i + 1]
  BY HeadTailProperties
<1> DEFINE b == Tail(w)
           c == a \o b
<1> HIDE DEF b
<1>2. c \in Seq(T) /\ Len(c) = Len(a) + Len(b)
      /\ \A i \in 1..Len(a) + Len(b) : c[i] = IF i <= Len(a) THEN a[i] ELSE b[i - Len(a)]
  BY <1>1, ConcatProperties DEF b
<1> HIDE DEF c
<1>3. ASSUME NEW i \in DOMAIN c
      PROVE  \/ i \in DOMAIN a /\ c[i] = a[i]
             \/ \E j \in DOMAIN w : c[i] = w[j]
  <2>1. CASE i <= Len(a)
    BY <1>2, <1>3, <2>1
  <2>2. CASE i > Len(a)
    <3>1. i - Len(a) \in 1..Len(b) /\ c[i] = b[i - Len(a)]
      BY <1>2, <1>3, <2>2
    <3>2. c[i] = w[i - Len(a) + 1] /\ i - Len(a) + 1 \in DOMAIN w
      BY <1>1, <3>1 DEF b
    <3> QED
      BY <3>2, Zenon
  <2> QED
    BY <1>2, <2>1, <2>2
<1>4. c \in Seq(T)
  BY <1>2
<1> QED
  BY <1>3, <1>4, Zenon DEF b, c

\* What stopping a group's sockets, and then doing b, consists of.
LEMMA StopSocketsElements ==
    ASSUME NEW h \in Group, NEW b \in Seq(Tasks)
    PROVE  /\ StopSockets(h) \o b \in Seq(Tasks)
           /\ \A i \in DOMAIN (StopSockets(h) \o b) :
                 \/ \E s \in Sock : GroupOf[s] = h /\ (StopSockets(h) \o b)[i] = Stop(s)
                 \/ \E j \in DOMAIN b : (StopSockets(h) \o b)[i] = b[j]
<1> DEFINE a == StopSockets(h)
           c == a \o b
<1>1. Sockets[h] \in Seq(Sock)
  BY SocketAssumption
<1>2. \A i \in DOMAIN Sockets[h] : Sockets[h][i] \in Sock /\ GroupOf[Sockets[h][i]] = h
  BY <1>1, SocketAssumption
<1>3. \A s \in Sock : Stop(s) \in Tasks
  BY DEF Stop, Tasks
<1>4. DOMAIN a = 1..Len(Sockets[h]) /\ \A i \in DOMAIN a : a[i] = Stop(Sockets[h][i])
  BY <1>1 DEF StopSockets
<1>5. a \in [1..Len(Sockets[h]) -> Tasks]
  BY <1>1, <1>2, <1>3 DEF StopSockets
<1>6. a \in Seq(Tasks) /\ Len(a) = Len(Sockets[h])
  BY <1>1, <1>5
<1> HIDE DEF a
<1>7. c \in Seq(Tasks) /\ Len(c) = Len(a) + Len(b)
      /\ \A i \in 1..Len(a) + Len(b) : c[i] = IF i <= Len(a) THEN a[i] ELSE b[i - Len(a)]
  BY <1>6, ConcatProperties, Zenon
<1> HIDE DEF c
<1> DEFINE m == Len(a)
           n == Len(b)
<1>8. m \in Nat /\ n \in Nat /\ DOMAIN b = 1..n /\ DOMAIN c = 1..(m + n)
  BY <1>6, <1>7
<1>9. \A i \in 1..(m + n) : c[i] = IF i <= m THEN a[i] ELSE b[i - m]
  BY <1>7, Zenon
<1> HIDE DEF m, n
<1>10. ASSUME NEW i \in DOMAIN c
      PROVE  \/ \E s \in Sock : GroupOf[s] = h /\ c[i] = Stop(s)
             \/ \E j \in DOMAIN b : c[i] = b[j]
  <2>1. CASE i <= m
    <3>1. i \in DOMAIN Sockets[h] /\ i \in DOMAIN a /\ c[i] = a[i]
      BY <1>1, <1>4, <1>6, <1>8, <1>9, <1>10, <2>1 DEF m
    <3> QED
      BY <1>2, <1>4, <3>1, Zenon
  <2>2. CASE i > m
    <3>1. i - m \in DOMAIN b /\ c[i] = b[i - m]
      BY <1>8, <1>9, <1>10, <2>2
    <3> QED
      BY <3>1, Zenon
  <2> QED
    BY <1>8, <1>10, <2>1, <2>2
<1>11. c \in Seq(Tasks)
  BY <1>7
<1> QED
  BY <1>10, <1>11, Zenon DEF a, c

\* The fields of a task.
LEMMA TaskFields ==
    ASSUME NEW t \in Tasks
    PROVE  /\ t.fn \in {"write", "callback"} => t.s \in Sock /\ t.new \in State
           /\ t.fn = "set_status" => t.g \in Group /\ t.v \in Status
           /\ t.fn = "close_less" => t.g \in Group /\ t.k \in Group
           /\ t.fn \in {"is_some_established", "get_best_inactive", "add", "remove",
                        "stop_removed", "free"}
                 => t.g \in Group
           /\ t.fn \in {"start", "create"} => t.g \in Group /\ t.i \in Nat
           /\ t.fn \in {"stop", "cancel", "join", "closed"} => t.s \in Sock
           /\ t.fn = "stop_all" => t.k \in Group \cup {-1}
BY DEF Tasks

\* The tasks are what they should be.
LEMMA TaskTypes ==
    /\ \A s \in Sock, v \in State : Write(s, v) \in Tasks /\ Callback(s, v) \in Tasks
    /\ \A g \in Group, v \in Status : SetStatus(g, v) \in Tasks
    /\ \A g, k \in Group : Close(g, k) \in Tasks
    /\ \A g \in Group : /\ IsSome(g) \in Tasks /\ Best(g) \in Tasks
                         /\ Add(g) \in Tasks /\ Remove(g) \in Tasks
                         /\ StopRemoved(g) \in Tasks /\ Free(g) \in Tasks
    /\ \A g \in Group, i \in Nat : Start(g, i) \in Tasks /\ Create(g, i) \in Tasks
    /\ \A s \in Sock : /\ Stop(s) \in Tasks /\ Cancel(s) \in Tasks /\ Join(s) \in Tasks
                        /\ Closed(s) \in Tasks /\ Sleep(s) \in Tasks /\ WaitEnd(s) \in Tasks
    /\ \A k \in Group \cup {-1} : StopAll(k) \in Tasks
    /\ StartFirst \in Tasks /\ Unlock \in Tasks
<1>1. \A s \in Sock, v \in State : Write(s, v) \in Tasks /\ Callback(s, v) \in Tasks
  BY DEF Tasks, Write, Callback
<1>2. \A g \in Group, v \in Status : SetStatus(g, v) \in Tasks
  BY DEF Tasks, SetStatus
<1>3. \A g, k \in Group : Close(g, k) \in Tasks
  BY DEF Tasks, Close
<1>4. \A g \in Group : /\ IsSome(g) \in Tasks /\ Best(g) \in Tasks
                       /\ Add(g) \in Tasks /\ Remove(g) \in Tasks
                       /\ StopRemoved(g) \in Tasks /\ Free(g) \in Tasks
  BY DEF Tasks, IsSome, Best, Add, Remove, StopRemoved, Free
<1>5. \A g \in Group, i \in Nat : Start(g, i) \in Tasks /\ Create(g, i) \in Tasks
  BY DEF Tasks, Start, Create
<1>6. \A s \in Sock : /\ Stop(s) \in Tasks /\ Cancel(s) \in Tasks /\ Join(s) \in Tasks
                      /\ Closed(s) \in Tasks /\ Sleep(s) \in Tasks /\ WaitEnd(s) \in Tasks
  BY DEF Tasks, Stop, Cancel, Join, Closed, Sleep, WaitEnd
<1>7. \A k \in Group \cup {-1} : StopAll(k) \in Tasks
  BY DEF Tasks, StopAll
<1>8. StartFirst \in Tasks /\ Unlock \in Tasks
  BY DEF Tasks, StartFirst, Unlock
<1> QED
  BY <1>1, <1>2, <1>3, <1>4, <1>5, <1>6, <1>7, <1>8, Zenon

-----------------------------------------------------------------------------
(* The inductive invariant                                                 *)

\* A task stays sound when its socket is synchronised.
LEMMA SoundMonotone ==
    ASSUME NEW s, NEW t, NEW x \in BOOLEAN, NEW y \in BOOLEAN, x => y, Sound(s, t, x)
    PROVE  Sound(s, t, y)
BY DEF Sound

\* A step of p that puts the tasks a in place of its first one.
LEMMA TaskStep ==
    ASSUME MgrTypeOK, MgrInv, NEW p \in Proc, work[p] # <<>>,
           NEW a \in Seq(Tasks), Continue(p, a),
           last_update' \in [Sock -> BOOLEAN],
           p \in Sock => \A i \in DOMAIN a : Sound(p, a[i], last_update[p]),
           \A s \in Sock : work[s] # <<>> =>
              /\ last_update[s] => last_update'[s]
              /\ thread'[s] \in {"loop", "lost"}
    PROVE  MgrInv' /\ work' \in [Proc -> Seq(Tasks)]
<1>1. work \in [Proc -> Seq(Tasks)] /\ work[p] \in Seq(Tasks)
  BY DEF MgrTypeOK
<1> DEFINE c == a \o Tail(work[p])
<1>2. /\ c \in Seq(Tasks)
      /\ \A i \in DOMAIN c : \/ i \in DOMAIN a /\ c[i] = a[i]
                             \/ \E j \in DOMAIN work[p] : c[i] = work[p][j]
  BY <1>1, ContinueElements
<1>3. /\ work' \in [Proc -> Seq(Tasks)]
      /\ work'[p] = c
      /\ \A q \in Proc : q # p => work'[q] = work[q]
  BY <1>1, <1>2 DEF Continue
<1> HIDE DEF c
<1>4. ASSUME NEW s \in Sock
      PROVE  thread'[s] \notin {"loop", "lost"} => work'[s] = <<>>
  <2>1. s \in Proc
    BY Zenon DEF Proc
  <2>2. CASE s = p
    BY <2>2, Zenon
  <2>3. CASE s # p
    BY <1>3, <2>1, <2>3, Zenon
  <2> QED
    BY <2>2, <2>3, Zenon
<1>5. ASSUME NEW s \in Sock, NEW i \in DOMAIN (work'[s])
      PROVE  Sound(s, work'[s][i], last_update'[s])
  <2>1. /\ last_update[s] \in BOOLEAN /\ last_update'[s] \in BOOLEAN
        /\ \A j \in DOMAIN work[s] : Sound(s, work[s][j], last_update[s])
    BY DEF MgrTypeOK, MgrInv
  <2>2. s \in Proc
    BY Zenon DEF Proc
  <2>3. Sound(s, work'[s][i], last_update[s]) /\ work[s] # <<>>
    <3>1. CASE s = p
      <4>1. \/ i \in DOMAIN a /\ work'[s][i] = a[i]
            \/ \E j \in DOMAIN work[s] : work'[s][i] = work[s][j]
        BY <1>2, <1>3, <1>5, <3>1, Zenon
      <4> QED
        BY <2>1, <3>1, <4>1, Zenon
    <3>2. CASE s # p
      <4>1. work'[s] = work[s]
        BY <1>3, <2>2, <3>2, Zenon
      <4>2. work[s] # <<>>
        BY <1>5, <4>1
      <4> QED
        BY <1>5, <2>1, <4>1, <4>2, Zenon
    <3> QED
      BY <3>1, <3>2, Zenon
  <2> QED
    BY <2>1, <2>3, SoundMonotone, Zenon
<1> QED
  BY <1>3, <1>4, <1>5, Zenon DEF MgrInv

\* Only a running thread has tasks.
LEMMA HasTasks ==
    ASSUME MgrInv, NEW s \in Sock, work[s] # <<>>
    PROVE  thread[s] \in {"loop", "lost"}
BY DEF MgrInv

\* The task that p runs.
LEMMA CurrentTask ==
    ASSUME MgrTypeOK, MgrInv, NEW p \in Proc, NEW fn, Turn(p, fn)
    PROVE  /\ work[p] # <<>> /\ Task(p) \in Tasks /\ Task(p).fn = fn
           /\ p \in Sock => Sound(p, Task(p), last_update[p])
<1>1. work[p] # <<>> /\ Task(p).fn = fn
  BY DEF Turn, At, Task
<1>2. work[p] \in Seq(Tasks)
  BY DEF MgrTypeOK
<1>3. 1 \in DOMAIN work[p] /\ Task(p) \in Tasks
  BY <1>1, <1>2 DEF Task
<1>4. p \in Sock => Sound(p, Task(p), last_update[p])
  BY <1>3, Zenon DEF MgrInv, Task
<1> QED
  BY <1>1, <1>3, <1>4, Zenon

\* A step that changes nothing but what p has to do.
LEMMA PlainStep ==
    ASSUME MgrTypeOK, MgrInv, NEW p \in Proc, work[p] # <<>>,
           NEW a \in Seq(Tasks), Continue(p, a),
           p \in Sock => \A i \in DOMAIN a : Sound(p, a[i], last_update[p]),
           UNCHANGED data
    PROVE  MgrTypeOK' /\ MgrInv'
<1>1. last_update' = last_update /\ thread' = thread
  BY DEF data, sockets
<1>2. last_update' \in [Sock -> BOOLEAN]
  BY <1>1 DEF MgrTypeOK
<1>3. \A s \in Sock : work[s] # <<>> =>
         (last_update[s] => last_update'[s]) /\ thread'[s] \in {"loop", "lost"}
  BY <1>1, HasTasks, Zenon
<1>4. MgrInv' /\ work' \in [Proc -> Seq(Tasks)]
  BY <1>2, <1>3, TaskStep, Zenon
<1> QED
  BY <1>4 DEF MgrTypeOK, data, sockets

-----------------------------------------------------------------------------
(* The callback                                                            *)

LEMMA CallbackStep ==
    ASSUME MgrTypeOK, MgrInv, NEW p \in Proc, RunCallback(p)
    PROVE  MgrTypeOK' /\ MgrInv'
<1> DEFINE t == Task(p)
           g == GroupOf[t.s]
           a == IF t.new = "SHUTDOWN" THEN CbShutdown(g)
                ELSE IF t.new = "ESTABLISHED" THEN CbEstablished(g)
                ELSE IF t.new = "CONNECTING" THEN CbConnecting(g)
                ELSE IF t.new \in {"ERROR", "NO_DATA"} THEN CbError(g)
                ELSE CbOther(g)
<1>1. /\ work[p] # <<>> /\ t \in Tasks /\ t.fn = "callback"
      /\ p \in Sock => Sound(p, t, last_update[p])
  BY CurrentTask DEF RunCallback
<1>2. Continue(p, a) /\ UNCHANGED data
  BY Zenon DEF RunCallback
<1>3. t.s \in Sock
  BY <1>1, TaskFields, Zenon
<1>4. g \in Group /\ status[g] \in Status
  BY <1>3, SocketAssumption DEF MgrTypeOK
<1>5. p \in Sock => t.new = "SHUTDOWN"
                    \/ (t.s = p /\ (t.new = "ESTABLISHED" => last_update[p]))
  BY <1>1, Zenon DEF Sound
<1> HIDE DEF t
<1> DEFINE ok(x) == /\ x \in Seq(Tasks)
                    /\ p \in Sock => \A i \in DOMAIN x : Sound(p, x[i], last_update[p])
<1>6. \A v \in Status : ok(<<SetStatus(g, v)>>)
  <2> SUFFICES ASSUME NEW v \in Status PROVE ok(<<SetStatus(g, v)>>)
    OBVIOUS
  <2>1. SetStatus(g, v) \in Tasks
    BY <1>4, TaskTypes, Zenon
  <2>2. SetStatus(g, v).fn = "set_status"
    BY DEF SetStatus
  <2>3. Sound(p, SetStatus(g, v), last_update[p])
    BY <2>2 DEF Sound
  <2> HIDE DEF g
  <2> QED
    BY <2>1, <2>3
<1>7. ok(<<>>)
  OBVIOUS
<1>8. ok(CbError(g))
  <2>1. SetStatus(g, "ERROR") \in Tasks /\ IsSome(g) \in Tasks
    BY <1>4, TaskTypes DEF Status
  <2>2. SetStatus(g, "ERROR").fn = "set_status" /\ IsSome(g).fn = "is_some_established"
    BY DEF SetStatus, IsSome
  <2>3. Sound(p, SetStatus(g, "ERROR"), last_update[p]) /\ Sound(p, IsSome(g), last_update[p])
    BY <2>2 DEF Sound
  <2> HIDE DEF g
  <2> QED
    BY <2>1, <2>3 DEF CbError
<1>9. ASSUME t.new = "ESTABLISHED" PROVE ok(Established(g))
  <2>1. SetStatus(g, "ESTABLISHED") \in Tasks /\ Close(g, g) \in Tasks
    BY <1>4, TaskTypes DEF Status
  <2>2. /\ SetStatus(g, "ESTABLISHED").fn = "set_status"
        /\ Close(g, g).fn = "close_less" /\ Close(g, g).g = g /\ Close(g, g).k = g
    BY DEF SetStatus, Close
  <2>3. p \in Sock => g = GroupOf[p] /\ last_update[p]
    BY <1>5, <1>9
  <2>4. g <= g
    <3>1. g \in Nat
      BY <1>4, GroupAssumption, Zenon
    <3> HIDE DEF g
    <3> QED
      BY <3>1
  <2>5. /\ Sound(p, SetStatus(g, "ESTABLISHED"), last_update[p])
        /\ p \in Sock => Sound(p, Close(g, g), last_update[p])
    <3> HIDE DEF g
    <3> QED
      BY <2>2, <2>3, <2>4 DEF Sound
  <2> HIDE DEF g
  <2> QED
    BY <2>1, <2>5 DEF Established
<1>10. ok(a)
  <2> HIDE DEF g, ok
  <2>1. CASE t.new = "SHUTDOWN"
    BY <1>4, <1>6, <2>1 DEF CbShutdown, Status
  <2>2. CASE t.new = "ESTABLISHED"
    BY <1>6, <1>7, <1>9, <2>2 DEF CbEstablished, Status
  <2>3. CASE t.new \notin {"SHUTDOWN", "ESTABLISHED"}
    BY <1>4, <1>6, <1>8, <2>3 DEF CbConnecting, CbOther, Status
  <2> QED
    BY <2>1, <2>2, <2>3
<1> HIDE DEF a
<1> QED
  BY <1>1, <1>2, <1>10, PlainStep, Zenon

LEMMA SetStatusStep ==
    ASSUME MgrTypeOK, MgrInv, NEW p \in Proc, RunSetStatus(p)
    PROVE  MgrTypeOK' /\ MgrInv'
<1>1. work[p] # <<>> /\ Task(p) \in Tasks /\ Task(p).fn = "set_status"
  BY CurrentTask DEF RunSetStatus
<1>2. Task(p).g \in Group /\ Task(p).v \in Status
  BY <1>1, TaskFields, Zenon
<1>3. status' \in [Group -> Status]
  BY <1>2 DEF RunSetStatus, MgrTypeOK
<1>4. last_update' = last_update /\ thread' = thread /\ last_update' \in [Sock -> BOOLEAN]
  BY DEF RunSetStatus, sockets, MgrTypeOK
<1>5. \A s \in Sock : work[s] # <<>> =>
         (last_update[s] => last_update'[s]) /\ thread'[s] \in {"loop", "lost"}
  BY <1>4, HasTasks, Zenon
<1>6. <<>> \in Seq(Tasks) /\ \A i \in DOMAIN <<>> : Sound(p, <<>>[i], last_update[p])
  OBVIOUS
<1>7. Continue(p, <<>>)
  BY Zenon DEF RunSetStatus
<1>8. MgrInv' /\ work' \in [Proc -> Seq(Tasks)]
  BY <1>1, <1>4, <1>5, <1>6, <1>7, TaskStep, Zenon
<1> QED
  BY <1>3, <1>8 DEF MgrTypeOK, RunSetStatus, sockets

\* A thread stops the sockets of less preferable groups only.
LEMMA CloseStep ==
    ASSUME MgrTypeOK, MgrInv, NEW p \in Sock, RunClose(p)
    PROVE  MgrTypeOK' /\ MgrInv'
<1> DEFINE t == Task(p)
           rest == Behind(t.k)
           h == Min(rest)
           b == <<SetStatus(h, "CLOSED"), Close(t.g, h)>>
           a == IF rest = {} THEN <<>>
                ELSE IF status[h] # "CLOSED" THEN StopSockets(h) \o b ELSE <<Close(t.g, h)>>
<1>0. p \in Proc
  BY Zenon DEF Proc
<1>1. /\ work[p] # <<>> /\ t \in Tasks /\ t.fn = "close_less"
      /\ Sound(p, t, last_update[p])
  BY <1>0, CurrentTask DEF RunClose
<1>2. Continue(p, a) /\ UNCHANGED data
  BY Zenon DEF RunClose
<1>3. t.g \in Group /\ t.k \in Group
  BY <1>1, TaskFields, Zenon
<1>4. t.g = GroupOf[p] /\ t.g <= t.k /\ last_update[p]
  BY <1>1, Zenon DEF Sound
<1> HIDE DEF t
<1>5. Group \subseteq Nat /\ rest \in SUBSET Nat
  BY GroupAssumption, Zenon DEF MgrTypeOK, Behind
<1>6. ASSUME rest # {}
      PROVE  h \in Group /\ GroupOf[p] < h /\ GroupOf[p] <= h
  <2>1. h \in rest
    BY <1>5, <1>6, MinIn, Zenon
  <2> HIDE DEF h
  <2>2. h \in Group /\ h > t.k
    BY <2>1 DEF MgrTypeOK, Behind
  <2>3. h \in Nat /\ t.g \in Nat /\ t.k \in Nat
    BY <1>3, <1>5, <2>2, Zenon
  <2> HIDE DEF rest
  <2> QED
    BY <1>4, <2>2, <2>3
<1> HIDE DEF rest, h
<1> DEFINE ok(x) == x \in Seq(Tasks) /\ \A i \in DOMAIN x : Sound(p, x[i], last_update[p])
<1>7. ASSUME rest # {} PROVE ok(b) /\ ok(<<Close(t.g, h)>>)
  <2>1. SetStatus(h, "CLOSED") \in Tasks /\ Close(t.g, h) \in Tasks
    BY <1>3, <1>6, <1>7, TaskTypes DEF Status
  <2>2. /\ SetStatus(h, "CLOSED").fn = "set_status"
        /\ Close(t.g, h).fn = "close_less" /\ Close(t.g, h).g = t.g /\ Close(t.g, h).k = h
    BY DEF SetStatus, Close
  <2>3. Sound(p, SetStatus(h, "CLOSED"), last_update[p]) /\ Sound(p, Close(t.g, h), last_update[p])
    BY <1>4, <1>6, <1>7, <2>2 DEF Sound
  <2> QED
    BY <2>1, <2>3
<1> HIDE DEF b
<1>8. ASSUME rest # {} PROVE ok(StopSockets(h) \o b)
  <2> DEFINE c == StopSockets(h) \o b
  <2>1. /\ c \in Seq(Tasks)
        /\ \A i \in DOMAIN c : \/ \E s \in Sock : GroupOf[s] = h /\ c[i] = Stop(s)
                               \/ \E j \in DOMAIN b : c[i] = b[j]
    BY <1>6, <1>7, <1>8, StopSocketsElements
  <2>2. ASSUME NEW s \in Sock, GroupOf[s] = h PROVE Sound(p, Stop(s), last_update[p])
    <3>1. Stop(s).fn = "stop" /\ Stop(s).s = s
      BY DEF Stop
    <3> QED
      BY <1>4, <1>6, <1>8, <2>2, <3>1 DEF Sound
  <2> HIDE DEF c
  <2>3. \A i \in DOMAIN c : Sound(p, c[i], last_update[p])
    BY <1>7, <1>8, <2>1, <2>2, Zenon
  <2> QED
    BY <2>1, <2>3, Zenon DEF c
<1>9. ok(<<>>)
  OBVIOUS
<1>10. ok(a)
  <2> HIDE DEF ok
  <2> QED
    BY <1>7, <1>8, <1>9
<1> HIDE DEF a
<1> QED
  BY <1>0, <1>1, <1>2, <1>10, PlainStep, Zenon

LEMMA IsSomeStep ==
    ASSUME MgrTypeOK, MgrInv, NEW p \in Sock, RunIsSome(p)
    PROVE  MgrTypeOK' /\ MgrInv'
<1> DEFINE a == IF \E h \in groups : status[h] = "ESTABLISHED" THEN <<>> ELSE <<Best(Task(p).g)>>
<1>0. p \in Proc
  BY Zenon DEF Proc
<1>1. work[p] # <<>> /\ Task(p) \in Tasks /\ Task(p).fn = "is_some_established"
  BY <1>0, CurrentTask DEF RunIsSome
<1>2. Continue(p, a) /\ UNCHANGED data
  BY Zenon DEF RunIsSome
<1>3. Best(Task(p).g) \in Tasks /\ Best(Task(p).g).fn = "get_best_inactive"
  BY <1>1, TaskFields, TaskTypes DEF Best
<1>4. Sound(p, Best(Task(p).g), last_update[p])
  BY <1>3 DEF Sound
<1>5. a \in Seq(Tasks) /\ \A i \in DOMAIN a : Sound(p, a[i], last_update[p])
  BY <1>3, <1>4
<1> HIDE DEF a
<1> QED
  BY <1>0, <1>1, <1>2, <1>5, PlainStep, Zenon

LEMMA BestStep ==
    ASSUME MgrTypeOK, MgrInv, NEW p \in Sock, RunBest(p)
    PROVE  MgrTypeOK' /\ MgrInv'
<1> DEFINE idle == {h \in groups : h # Task(p).g /\ status[h] = "CLOSED"}
           h == Min(idle)
           a == IF idle = {} THEN <<>> ELSE <<Start(h, 1)>>
<1>0. p \in Proc
  BY Zenon DEF Proc
<1>1. work[p] # <<>>
  BY <1>0, CurrentTask DEF RunBest
<1>2. Continue(p, a) /\ UNCHANGED data
  BY Zenon DEF RunBest
<1>3. idle \in SUBSET Nat /\ idle \subseteq Group
  BY GroupAssumption, Zenon DEF MgrTypeOK
<1>4. ASSUME idle # {} PROVE Start(h, 1) \in Tasks
  <2>1. h \in idle
    BY <1>3, <1>4, MinIn, Zenon
  <2> HIDE DEF h
  <2> QED
    BY <1>3, <2>1, TaskTypes
<1>5. Start(h, 1).fn = "start"
  BY DEF Start
<1>6. Sound(p, Start(h, 1), last_update[p])
  BY <1>5 DEF Sound
<1> HIDE DEF h, idle
<1>7. a \in Seq(Tasks) /\ \A i \in DOMAIN a : Sound(p, a[i], last_update[p])
  BY <1>4, <1>6
<1> HIDE DEF a
<1> QED
  BY <1>0, <1>1, <1>2, <1>7, PlainStep, Zenon

-----------------------------------------------------------------------------
(* Starting and stopping sockets                                           *)

LEMMA StartStep ==
    ASSUME MgrTypeOK, MgrInv, NEW p \in Proc, RunStart(p)
    PROVE  MgrTypeOK' /\ MgrInv'
<1> DEFINE t == Task(p)
           a == IF thread[Sockets[t.g][t.i]] = "none" THEN <<Create(t.g, t.i)>> ELSE <<>>
<1>1. work[p] # <<>> /\ t \in Tasks /\ t.fn = "start"
  BY CurrentTask DEF RunStart
<1>2. Continue(p, a) /\ UNCHANGED data
  BY Zenon DEF RunStart
<1>3. Create(t.g, t.i) \in Tasks /\ Create(t.g, t.i).fn = "create"
  BY <1>1, TaskFields, TaskTypes DEF Create
<1>4. Sound(p, Create(t.g, t.i), last_update[p])
  BY <1>3 DEF Sound
<1>5. a \in Seq(Tasks) /\ \A i \in DOMAIN a : Sound(p, a[i], last_update[p])
  BY <1>3, <1>4
<1> HIDE DEF a
<1> QED
  BY <1>1, <1>2, <1>5, PlainStep, Zenon

LEMMA CreateStep ==
    ASSUME MgrTypeOK, MgrInv, NEW p \in Proc, RunCreate(p)
    PROVE  MgrTypeOK' /\ MgrInv'
<1> DEFINE t == Task(p)
           x == Sockets[t.g][t.i]
<1>1. work[p] # <<>> /\ t \in Tasks /\ t.fn = "create"
  BY CurrentTask DEF RunCreate
<1>2. t.g \in Group /\ t.i \in Nat /\ t.i + 1 \in Nat
  BY <1>1, TaskFields
<1>3. /\ SetStatus(t.g, "CONNECTING") \in Tasks
      /\ SetStatus(t.g, "CONNECTING").fn = "set_status"
  BY <1>2, TaskTypes, Zenon DEF Status, SetStatus
<1>4. Start(t.g, t.i + 1) \in Tasks /\ Start(t.g, t.i + 1).fn = "start"
  BY <1>2, TaskTypes DEF Start
<1> DEFINE u == SetStatus(t.g, "CONNECTING")
           v == Start(t.g, t.i + 1)
<1>5. PICK a \in {<<>>, <<u>>, <<v>>} : Continue(p, a)
  BY Zenon DEF RunCreate
<1>6. a \in Seq(Tasks) /\ \A i \in DOMAIN a : Sound(p, a[i], last_update[p])
  <2>1. u \in Tasks /\ Sound(p, u, last_update[p])
    BY <1>3 DEF Sound
  <2>2. v \in Tasks /\ Sound(p, v, last_update[p])
    BY <1>4 DEF Sound
  <2> HIDE DEF u, v
  <2>3. CASE a = <<>>
    BY <2>3
  <2>4. CASE a = <<u>>
    BY <2>1, <2>4
  <2>5. CASE a = <<v>>
    BY <2>2, <2>5
  <2> QED
    BY <1>5, <2>3, <2>4, <2>5, Zenon
<1>7. \/ /\ thread' = [thread EXCEPT ![x] = IF @ = "none" THEN "new" ELSE "lost"]
         /\ cancel' = cancel \ {x}
      \/ thread' = thread /\ cancel' = cancel
  BY Zenon DEF RunCreate
<1>8. UNCHANGED <<groups, status, state, last_update, up, freed>>
  BY Zenon DEF RunCreate
<1> HIDE DEF x, t
<1>9. /\ thread' \in [Sock -> {"none", "new", "begin", "loop", "exited", "lost"}]
      /\ cancel' \subseteq Sock
      /\ \A s \in Sock : thread[s] \in {"loop", "lost"} => thread'[s] \in {"loop", "lost"}
  BY <1>7, Zenon DEF MgrTypeOK
<1>10. last_update' = last_update /\ last_update' \in [Sock -> BOOLEAN]
  BY <1>8 DEF MgrTypeOK
<1>11. \A s \in Sock : work[s] # <<>> =>
         (last_update[s] => last_update'[s]) /\ thread'[s] \in {"loop", "lost"}
  BY <1>9, <1>10, HasTasks, Zenon
<1>12. MgrInv' /\ work' \in [Proc -> Seq(Tasks)]
  BY <1>1, <1>5, <1>6, <1>10, <1>11, TaskStep, Zenon
<1> QED
  BY <1>8, <1>9, <1>12 DEF MgrTypeOK

LEMMA StopStep ==
    ASSUME MgrTypeOK, MgrInv, NEW p \in Proc, RunStop(p)
    PROVE  MgrTypeOK' /\ MgrInv'
<1> DEFINE x == Task(p).s
           a == IF state[x] = "SHUTDOWN" THEN <<Cancel(x)>>
                ELSE <<Callback(x, "SHUTDOWN"), Cancel(x)>>
<1>1. /\ work[p] # <<>> /\ Task(p) \in Tasks /\ Task(p).fn = "stop"
      /\ p \in Sock => Sound(p, Task(p), last_update[p])
  BY CurrentTask DEF RunStop
<1>2. x \in Sock
  BY <1>1, TaskFields, Zenon
<1>3. p \in Sock => GroupOf[p] < GroupOf[x] /\ last_update[p]
  BY <1>1 DEF Sound
<1>4. /\ Continue(p, a) /\ state' = [state EXCEPT ![x] = "SHUTDOWN"]
      /\ UNCHANGED <<groups, status, last_update, thread, cancel, up, freed>>
  BY Zenon DEF RunStop
<1> HIDE DEF x
<1>5. /\ Callback(x, "SHUTDOWN") \in Tasks /\ Cancel(x) \in Tasks
      /\ Callback(x, "SHUTDOWN").fn = "callback" /\ Callback(x, "SHUTDOWN").new = "SHUTDOWN"
      /\ Cancel(x).fn = "cancel" /\ Cancel(x).s = x
  BY <1>2, TaskTypes, Zenon DEF State, Callback, Cancel
<1>6. p \in Sock => /\ Sound(p, Callback(x, "SHUTDOWN"), last_update[p])
                    /\ Sound(p, Cancel(x), last_update[p])
  BY <1>3, <1>5 DEF Sound
<1>7. a \in Seq(Tasks) /\ (p \in Sock => \A i \in DOMAIN a : Sound(p, a[i], last_update[p]))
  BY <1>5, <1>6
<1> HIDE DEF a
<1>8. last_update' = last_update /\ thread' = thread /\ last_update' \in [Sock -> BOOLEAN]
  BY <1>4 DEF MgrTypeOK
<1>9. \A s \in Sock : work[s] # <<>> =>
         (last_update[s] => last_update'[s]) /\ thread'[s] \in {"loop", "lost"}
  BY <1>8, HasTasks, Zenon
<1>10. MgrInv' /\ work' \in [Proc -> Seq(Tasks)]
  BY <1>1, <1>4, <1>7, <1>8, <1>9, TaskStep, Zenon
<1>11. state' \in [Sock -> State]
  BY <1>4, Zenon DEF MgrTypeOK, State
<1> QED
  BY <1>4, <1>10, <1>11 DEF MgrTypeOK

LEMMA CancelStep ==
    ASSUME MgrTypeOK, MgrInv, NEW p \in Proc, RunCancel(p)
    PROVE  MgrTypeOK' /\ MgrInv'
<1> DEFINE x == Task(p).s
           a == IF thread[x] = "none" THEN <<>> ELSE <<Join(x)>>
<1>1. /\ work[p] # <<>> /\ Task(p) \in Tasks /\ Task(p).fn = "cancel"
      /\ p \in Sock => Sound(p, Task(p), last_update[p])
  BY CurrentTask DEF RunCancel
<1>2. x \in Sock
  BY <1>1, TaskFields, Zenon
<1>3. p \in Sock => GroupOf[p] < GroupOf[x] /\ last_update[p]
  BY <1>1 DEF Sound
<1>4. /\ Continue(p, a) /\ (cancel' = cancel \/ cancel' = cancel \cup {x})
      /\ UNCHANGED <<groups, status, state, last_update, thread, up, freed>>
  BY Zenon DEF RunCancel
<1> HIDE DEF x
<1>5. Join(x) \in Tasks /\ Join(x).fn = "join" /\ Join(x).s = x
  BY <1>2, TaskTypes, Zenon DEF Join
<1>6. p \in Sock => Sound(p, Join(x), last_update[p])
  BY <1>3, <1>5 DEF Sound
<1>7. a \in Seq(Tasks) /\ (p \in Sock => \A i \in DOMAIN a : Sound(p, a[i], last_update[p]))
  BY <1>5, <1>6
<1> HIDE DEF a
<1>8. last_update' = last_update /\ thread' = thread /\ last_update' \in [Sock -> BOOLEAN]
  BY <1>4 DEF MgrTypeOK
<1>9. \A s \in Sock : work[s] # <<>> =>
         (last_update[s] => last_update'[s]) /\ thread'[s] \in {"loop", "lost"}
  BY <1>8, HasTasks, Zenon
<1>10. MgrInv' /\ work' \in [Proc -> Seq(Tasks)]
  BY <1>1, <1>4, <1>7, <1>8, <1>9, TaskStep, Zenon
<1>11. cancel' \subseteq Sock
  BY <1>2, <1>4 DEF MgrTypeOK
<1> QED
  BY <1>4, <1>10, <1>11 DEF MgrTypeOK

\* A thread that has ended has nothing left to do, so dropping its records
\* when it is joined touches no task.
LEMMA JoinStep ==
    ASSUME MgrTypeOK, MgrInv, NEW p \in Proc, RunJoin(p)
    PROVE  MgrTypeOK' /\ MgrInv'
<1> DEFINE x == Task(p).s
<1>1. /\ work[p] # <<>> /\ Task(p) \in Tasks /\ Task(p).fn = "join"
      /\ p \in Sock => Sound(p, Task(p), last_update[p])
  BY CurrentTask DEF RunJoin
<1>2. x \in Sock
  BY <1>1, TaskFields, Zenon
<1>3. p \in Sock => GroupOf[p] < GroupOf[x] /\ last_update[p]
  BY <1>1 DEF Sound
<1>4. \/ /\ thread[x] = "exited"
         /\ thread' = [thread EXCEPT ![x] = "none"]
         /\ last_update' = [last_update EXCEPT ![x] = FALSE]
         /\ cancel' = cancel \ {x}
         /\ Continue(p, <<Closed(x)>>)
      \/ /\ thread' = [thread EXCEPT ![x] = "lost"]
         /\ last_update' = last_update /\ cancel' = cancel
         /\ Continue(p, <<>>)
  BY Zenon DEF RunJoin
<1>5. UNCHANGED <<groups, status, state, up, freed>>
  BY Zenon DEF RunJoin
<1> HIDE DEF x
<1>6. Closed(x) \in Tasks /\ Closed(x).fn = "closed" /\ Closed(x).s = x
  BY <1>2, TaskTypes, Zenon DEF Closed
<1>7. p \in Sock => Sound(p, Closed(x), last_update[p])
  BY <1>3, <1>6 DEF Sound
<1>8. /\ thread' \in [Sock -> {"none", "new", "begin", "loop", "exited", "lost"}]
      /\ cancel' \subseteq Sock /\ last_update' \in [Sock -> BOOLEAN]
  <2>1. CASE last_update' = last_update /\ cancel' = cancel
    BY <1>4, <2>1, Zenon DEF MgrTypeOK
  <2>2. CASE last_update' = [last_update EXCEPT ![x] = FALSE] /\ cancel' = cancel \ {x}
    BY <1>4, <2>2, Zenon DEF MgrTypeOK
  <2> QED
    BY <1>4, <2>1, <2>2, Zenon
<1>9. \A s \in Sock : work[s] # <<>> =>
         (last_update[s] => last_update'[s]) /\ thread'[s] \in {"loop", "lost"}
  <2> SUFFICES ASSUME NEW s \in Sock, work[s] # <<>>
               PROVE  (last_update[s] => last_update'[s]) /\ thread'[s] \in {"loop", "lost"}
    BY Zenon
  <2>1. thread[s] \in {"loop", "lost"}
    BY HasTasks, Zenon
  <2> QED
    BY <1>2, <1>4, <2>1 DEF MgrTypeOK
<1>10. MgrInv' /\ work' \in [Proc -> Seq(Tasks)]
  <2> DEFINE ok(a) == /\ a \in Seq(Tasks)
                      /\ p \in Sock => \A i \in DOMAIN a : Sound(p, a[i], last_update[p])
  <2>1. ok(<<>>) /\ ok(<<Closed(x)>>)
    BY <1>6, <1>7
  <2>2. PICK a : ok(a) /\ Continue(p, a)
    <3> HIDE DEF ok
    <3> QED
      BY <1>4, <2>1, Zenon
  <2> QED
    BY <1>1, <1>8, <1>9, <2>2, TaskStep, Zenon
<1> QED
  BY <1>5, <1>8, <1>10 DEF MgrTypeOK

LEMMA ClosedStep ==
    ASSUME MgrTypeOK, MgrInv, NEW p \in Proc, RunClosed(p)
    PROVE  MgrTypeOK' /\ MgrInv'
<1>1. work[p] # <<>>
  BY CurrentTask DEF RunClosed
<1>2. state' \in [Sock -> State]
  BY Zenon DEF RunClosed, MgrTypeOK, State
<1>3. last_update' = last_update /\ thread' = thread /\ last_update' \in [Sock -> BOOLEAN]
  BY DEF RunClosed, MgrTypeOK
<1>4. \A s \in Sock : work[s] # <<>> =>
         (last_update[s] => last_update'[s]) /\ thread'[s] \in {"loop", "lost"}
  BY <1>3, HasTasks, Zenon
<1>5. <<>> \in Seq(Tasks) /\ \A i \in DOMAIN <<>> : Sound(p, <<>>[i], last_update[p])
  OBVIOUS
<1>6. Continue(p, <<>>)
  BY Zenon DEF RunClosed
<1>7. MgrInv' /\ work' \in [Proc -> Seq(Tasks)]
  BY <1>1, <1>3, <1>4, <1>5, <1>6, TaskStep, Zenon
<1> QED
  BY <1>2, <1>7 DEF MgrTypeOK, RunClosed

-----------------------------------------------------------------------------
(* The socket threads                                                      *)

\* A step of the thread of x alone.
LEMMA ThreadFrame ==
    ASSUME MgrInv, NEW x \in Sock,
           \A s \in Sock : s # x => /\ work'[s] = work[s] /\ thread'[s] = thread[s]
                                    /\ last_update'[s] = last_update[s],
           thread'[x] \notin {"loop", "lost"} => work'[x] = <<>>,
           \A i \in DOMAIN (work'[x]) : Sound(x, work'[x][i], last_update'[x])
    PROVE  MgrInv'
BY Zenon DEF MgrInv

LEMMA ThreadStartStep ==
    ASSUME MgrTypeOK, MgrInv, NEW x \in Sock, ThreadStart(x) \/ ThreadBegin(x)
    PROVE  MgrTypeOK' /\ MgrInv'
<1>1. PICK v \in {"exited", "begin", "loop"} : thread' = [thread EXCEPT ![x] = v]
  BY Zenon DEF ThreadStart, ThreadBegin
<1>2. /\ thread[x] \in {"new", "begin"}
      /\ state' = state \/ state' = [state EXCEPT ![x] = "CONNECTING"]
      /\ UNCHANGED <<groups, status, last_update, cancel, work, up, freed>>
  BY Zenon DEF ThreadStart, ThreadBegin
<1>3. thread' \in [Sock -> {"none", "new", "begin", "loop", "exited", "lost"}]
  BY <1>1, Zenon DEF MgrTypeOK
<1>4. state' \in [Sock -> State]
  BY <1>2, Zenon DEF MgrTypeOK, State
<1>5. work[x] = <<>>
  BY <1>2 DEF MgrInv
<1>6. \A s \in Sock : s # x => thread'[s] = thread[s]
  BY <1>1 DEF MgrTypeOK
<1>7. MgrInv'
  BY <1>2, <1>5, <1>6, ThreadFrame
<1> QED
  BY <1>2, <1>3, <1>4, <1>7 DEF MgrTypeOK

LEMMA RoundStep ==
    ASSUME MgrTypeOK, MgrInv, NEW x \in Sock, Round(x)
    PROVE  MgrTypeOK' /\ MgrInv'
<1>1. PICK new \in Outcomes(x)[state[x]] :
        /\ work' = [work EXCEPT ![x] =
              IF state[x] = "ERROR" THEN <<Write(x, new), Sleep(x)>>
              ELSE IF state[x] = "ESTABLISHED" /\ new = "ERROR"
                   THEN <<Write(x, new), WaitEnd(x)>>
                   ELSE <<Write(x, new)>>]
        /\ last_update' = [last_update EXCEPT ![x] = @ \/ new = "ESTABLISHED"]
  BY Zenon DEF Round
<1>2. /\ thread[x] = "loop" /\ state[x] \in DOMAIN Outcomes(x)
      /\ UNCHANGED <<groups, status, state, thread, cancel, up, freed>>
  BY Zenon DEF Round, Looping
<1>3. new \in State \ {"SHUTDOWN"}
  BY <1>1, <1>2 DEF Outcomes, State
<1> DEFINE w == Write(x, new)
           c == IF state[x] = "ERROR" THEN <<w, Sleep(x)>>
                ELSE IF state[x] = "ESTABLISHED" /\ new = "ERROR" THEN <<w, WaitEnd(x)>>
                ELSE <<w>>
<1>4. x \in Proc /\ work \in [Proc -> Seq(Tasks)] /\ last_update \in [Sock -> BOOLEAN]
  BY Zenon DEF Proc, MgrTypeOK
<1>5. /\ last_update' \in [Sock -> BOOLEAN]
      /\ new = "ESTABLISHED" => last_update'[x]
      /\ \A s \in Sock : s # x => last_update'[s] = last_update[s]
  BY <1>1, <1>4, Zenon
<1>6. /\ w \in Tasks /\ w.fn = "write" /\ w.s = x /\ w.new = new
      /\ Sleep(x) \in Tasks /\ Sleep(x).fn = "sleep"
      /\ WaitEnd(x) \in Tasks /\ WaitEnd(x).fn = "wait"
  BY <1>3, TaskTypes, Zenon DEF Write, Sleep, WaitEnd
<1>7. /\ Sound(x, w, last_update'[x])
      /\ Sound(x, Sleep(x), last_update'[x]) /\ Sound(x, WaitEnd(x), last_update'[x])
  BY <1>3, <1>5, <1>6 DEF Sound
<1> HIDE DEF w
<1>8. c \in Seq(Tasks) /\ \A i \in DOMAIN c : Sound(x, c[i], last_update'[x])
  BY <1>6, <1>7
<1>9. work' = [work EXCEPT ![x] = c]
  BY <1>1, Zenon DEF w
<1> HIDE DEF c
<1>10. work' \in [Proc -> Seq(Tasks)] /\ work'[x] = c
       /\ \A s \in Sock : s # x => work'[s] = work[s]
  BY <1>4, <1>8, <1>9 DEF Proc
<1>11. MgrInv'
  BY <1>2, <1>5, <1>8, <1>10, ThreadFrame
<1> QED
  BY <1>2, <1>5, <1>10, <1>11 DEF MgrTypeOK

LEMMA WriteStep ==
    ASSUME MgrTypeOK, MgrInv, NEW p \in Sock, RunWrite(p)
    PROVE  MgrTypeOK' /\ MgrInv'
<1> DEFINE new == Task(p).new
           a == <<Callback(p, new)>>
<1>0. p \in Proc
  BY Zenon DEF Proc
<1>1. /\ work[p] # <<>> /\ Task(p) \in Tasks /\ Task(p).fn = "write"
      /\ Sound(p, Task(p), last_update[p])
  BY <1>0, CurrentTask DEF RunWrite
<1>2. new \in State
  BY <1>1, TaskFields, Zenon
<1>3. new = "ESTABLISHED" => last_update[p]
  BY <1>1 DEF Sound
<1>4. /\ Continue(p, a) /\ state' = [state EXCEPT ![p] = new]
      /\ UNCHANGED <<groups, status, last_update, thread, cancel, up, freed>>
  BY Zenon DEF RunWrite
<1> HIDE DEF new
<1>5. /\ Callback(p, new) \in Tasks /\ Callback(p, new).fn = "callback"
      /\ Callback(p, new).s = p /\ Callback(p, new).new = new
  BY <1>2, TaskTypes, Zenon DEF Callback
<1>6. Sound(p, Callback(p, new), last_update[p])
  BY <1>3, <1>5 DEF Sound
<1>7. a \in Seq(Tasks) /\ \A i \in DOMAIN a : Sound(p, a[i], last_update[p])
  BY <1>5, <1>6
<1> HIDE DEF a
<1>8. last_update' = last_update /\ thread' = thread /\ last_update' \in [Sock -> BOOLEAN]
  BY <1>4 DEF MgrTypeOK
<1>9. \A s \in Sock : work[s] # <<>> =>
         (last_update[s] => last_update'[s]) /\ thread'[s] \in {"loop", "lost"}
  BY <1>8, HasTasks, Zenon
<1>10. MgrInv' /\ work' \in [Proc -> Seq(Tasks)]
  BY <1>0, <1>1, <1>4, <1>7, <1>8, <1>9, TaskStep, Zenon
<1>11. state' \in [Sock -> State]
  BY <1>2, <1>4, Zenon DEF MgrTypeOK
<1> QED
  BY <1>4, <1>10, <1>11 DEF MgrTypeOK

\* Records expire between two rounds of the loop, when nothing is pending.
LEMMA ForgetStep ==
    ASSUME MgrTypeOK, MgrInv, NEW x \in Sock, Forget(x)
    PROVE  MgrTypeOK' /\ MgrInv'
<1>1. /\ work[x] = <<>> /\ thread[x] = "loop"
      /\ last_update' = [last_update EXCEPT ![x] = FALSE]
      /\ UNCHANGED <<groups, status, state, thread, cancel, work, up, freed>>
  BY Zenon DEF Forget, Looping
<1>2. /\ last_update' \in [Sock -> BOOLEAN]
      /\ \A s \in Sock : s # x => last_update'[s] = last_update[s]
  BY <1>1, Zenon DEF MgrTypeOK
<1>3. work'[x] = <<>> /\ \A s \in Sock : work'[s] = work[s] /\ thread'[s] = thread[s]
  BY <1>1, Zenon
<1>4. DOMAIN (work'[x]) = {}
  BY <1>3
<1>5. MgrInv'
  BY <1>2, <1>3, <1>4, ThreadFrame, Zenon
<1> QED
  BY <1>1, <1>2, <1>5 DEF MgrTypeOK

LEMMA WakeStep ==
    ASSUME MgrTypeOK, MgrInv, NEW p \in Sock, Wake(p)
    PROVE  MgrTypeOK' /\ MgrInv'
<1>1. p \in Proc
  BY Zenon DEF Proc
<1>2. work[p] # <<>> /\ Continue(p, <<>>) /\ UNCHANGED data
  BY Zenon DEF Wake, Turn, At
<1>3. <<>> \in Seq(Tasks) /\ \A i \in DOMAIN <<>> : Sound(p, <<>>[i], last_update[p])
  OBVIOUS
<1> QED
  BY <1>1, <1>2, <1>3, PlainStep, Zenon

LEMMA ExitStep ==
    ASSUME MgrTypeOK, MgrInv, NEW x \in Sock, Exit(x)
    PROVE  MgrTypeOK' /\ MgrInv'
<1>1. /\ thread' = [thread EXCEPT ![x] = "exited"]
      /\ work' = [work EXCEPT ![x] = <<>>]
      /\ UNCHANGED <<groups, status, state, last_update, cancel, up, freed>>
  BY Zenon DEF Exit
<1>2. x \in Proc /\ \A s \in Sock : s \in Proc
  BY Zenon DEF Proc
<1>3. /\ thread' \in [Sock -> {"none", "new", "begin", "loop", "exited", "lost"}]
      /\ \A s \in Sock : s # x => thread'[s] = thread[s]
  BY <1>1, Zenon DEF MgrTypeOK
<1>4. /\ work' \in [Proc -> Seq(Tasks)] /\ work'[x] = <<>>
      /\ \A s \in Sock : s # x => work'[s] = work[s]
  BY <1>1, <1>2 DEF MgrTypeOK
<1>5. MgrInv'
  BY <1>1, <1>3, <1>4, ThreadFrame
<1> QED
  BY <1>1, <1>3, <1>4, <1>5 DEF MgrTypeOK

-----------------------------------------------------------------------------
(* The application                                                         *)

\* A call changes nothing that a thread of a socket depends on, unless that
\* thread has nothing to do.
LEMMA EnterStep ==
    ASSUME MgrTypeOK, MgrInv, NEW a \in Seq(Tasks), Enter(a),
           \A s \in Sock : \/ thread'[s] = thread[s] /\ last_update'[s] = last_update[s]
                           \/ work[s] = <<>>
    PROVE  MgrInv' /\ work' \in [Proc -> Seq(Tasks)]
<1>1. \A s \in Sock : s \in Proc /\ s # App
  BY SocketAssumption, Zenon DEF Proc
<1>2. /\ work' \in [Proc -> Seq(Tasks)]
      /\ \A s \in Sock : work'[s] = work[s]
  BY <1>1, Zenon DEF Enter, MgrTypeOK
<1>3. ASSUME NEW s \in Sock
      PROVE  /\ thread'[s] \notin {"loop", "lost"} => work'[s] = <<>>
             /\ \A i \in DOMAIN (work'[s]) : Sound(s, work'[s][i], last_update'[s])
  <2>1. CASE work[s] = <<>>
    BY <1>2, <2>1
  <2>2. CASE thread'[s] = thread[s] /\ last_update'[s] = last_update[s]
    BY <1>2, <2>2, Zenon DEF MgrInv
  <2> QED
    BY <2>1, <2>2, Zenon
<1> QED
  BY <1>2, <1>3, Zenon DEF MgrInv

\* A step of the application alone.
LEMMA AppPlain ==
    ASSUME MgrTypeOK, MgrInv, NEW a \in Seq(Tasks), UNCHANGED data,
           Enter(a) \/ (work[App] # <<>> /\ Continue(App, a))
    PROVE  MgrTypeOK' /\ MgrInv'
<1>1. App \in Proc /\ App \notin Sock
  BY SocketAssumption, Zenon DEF Proc
<1>2. CASE Enter(a)
  <2>1. thread' = thread /\ last_update' = last_update
    BY DEF data, sockets
  <2>2. MgrInv' /\ work' \in [Proc -> Seq(Tasks)]
    BY <1>2, <2>1, EnterStep, Zenon
  <2> QED
    BY <2>2 DEF MgrTypeOK, data, sockets
<1>3. CASE work[App] # <<>> /\ Continue(App, a)
  BY <1>1, <1>3, PlainStep, Zenon
<1> QED
  BY <1>2, <1>3, Zenon

\* The first group of the list.
LEMMA FirstGroup ==
    ASSUME MgrTypeOK
    PROVE  Min(groups) \in groups /\ Min(groups) \in Group
<1>1. groups \in SUBSET Nat /\ groups # {} /\ groups \subseteq Group
  BY GroupAssumption, Zenon DEF MgrTypeOK
<1> QED
  BY <1>1, MinIn, Zenon

LEMMA StartStopCalls ==
    ASSUME MgrTypeOK, MgrInv, MgrStart \/ MgrStop
    PROVE  MgrTypeOK' /\ MgrInv'
<1>1. 1 \in Nat /\ -1 \in Group \cup {-1}
  OBVIOUS
<1>2. Start(Min(groups), 1) \in Tasks /\ StopAll(-1) \in Tasks
  BY <1>1, FirstGroup, TaskTypes, Zenon
<1>3. UNCHANGED data /\ (Enter(<<Start(Min(groups), 1)>>) \/ Enter(<<StopAll(-1)>>))
  BY Zenon DEF MgrStart, MgrStop
<1> DEFINE u == Start(Min(groups), 1)
           v == StopAll(-1)
<1> HIDE DEF u, v
<1>4. <<u>> \in Seq(Tasks) /\ <<v>> \in Seq(Tasks)
  BY <1>2 DEF u, v
<1> QED
  BY <1>3, <1>4, AppPlain, Zenon DEF u, v

LEMMA StopAllStep ==
    ASSUME MgrTypeOK, MgrInv, RunStopAll
    PROVE  MgrTypeOK' /\ MgrInv'
<1> DEFINE rest == Behind(Task(App).k)
           h == Min(rest)
           v == StopAll(h)
           a == IF rest = {} THEN <<>> ELSE StopSockets(h) \o <<v>>
<1>1. /\ work[App] # <<>> /\ UNCHANGED data
      /\ Continue(App, IF rest = {} THEN <<>> ELSE StopSockets(h) \o <<StopAll(h)>>)
  BY Zenon DEF RunStopAll, Turn, At
<1>2. rest \in SUBSET Nat /\ rest \subseteq Group
  BY GroupAssumption, Zenon DEF MgrTypeOK, Behind
<1>3. ASSUME rest # {} PROVE h \in Group
  BY <1>2, <1>3, MinIn, Zenon
<1> HIDE DEF h, rest
<1>4. ASSUME rest # {} PROVE v \in Tasks
  BY <1>3, <1>4, TaskTypes, Zenon
<1>5. Continue(App, a)
  BY <1>1, Zenon
<1> HIDE DEF v
<1>6. a \in Seq(Tasks)
  <2>1. CASE rest = {}
    BY <2>1
  <2>2. CASE rest # {}
    <3>1. <<v>> \in Seq(Tasks)
      BY <1>4, <2>2
    <3>2. StopSockets(h) \o <<v>> \in Seq(Tasks)
      BY <1>3, <2>2, <3>1, StopSocketsElements, Zenon
    <3> QED
      BY <2>2, <3>2, Zenon
  <2> QED
    BY <2>1, <2>2, Zenon
<1> HIDE DEF a
<1> QED
  BY <1>1, <1>5, <1>6, AppPlain, Zenon

LEMMA StartFirstStep ==
    ASSUME MgrTypeOK, MgrInv, RunStartFirst \/ RunUnlock
    PROVE  MgrTypeOK' /\ MgrInv'
<1> DEFINE u == Start(Min(groups), 1)
<1>1. /\ work[App] # <<>> /\ UNCHANGED data
      /\ Continue(App, <<u>>) \/ Continue(App, <<>>)
  BY Zenon DEF RunStartFirst, RunUnlock, Turn, At
<1>2. 1 \in Nat
  OBVIOUS
<1>3. u \in Tasks
  BY <1>2, FirstGroup, TaskTypes, Zenon
<1> HIDE DEF u
<1>4. <<u>> \in Seq(Tasks) /\ <<>> \in Seq(Tasks)
  BY <1>3
<1> QED
  BY <1>1, <1>4, AppPlain, Zenon

LEMMA StopRemovedStep ==
    ASSUME MgrTypeOK, MgrInv, RunStopRemoved
    PROVE  MgrTypeOK' /\ MgrInv'
<1> DEFINE g == Task(App).g
           v == SetStatus(g, "CLOSED")
<1>0. App \in Proc
  BY Zenon DEF Proc
<1>1. work[App] # <<>> /\ Task(App) \in Tasks /\ Task(App).fn = "stop_removed"
  BY <1>0, CurrentTask DEF RunStopRemoved
<1>2. g \in Group /\ "CLOSED" \in Status
  BY <1>1, TaskFields, Zenon DEF Status
<1>3. UNCHANGED data /\ (Continue(App, StopSockets(g) \o <<v>>) \/ Continue(App, <<>>))
  BY Zenon DEF RunStopRemoved
<1> HIDE DEF g
<1>4. v \in Tasks
  BY <1>2, TaskTypes, Zenon
<1> HIDE DEF v
<1>5. <<v>> \in Seq(Tasks) /\ <<>> \in Seq(Tasks)
  BY <1>4
<1>6. StopSockets(g) \o <<v>> \in Seq(Tasks)
  BY <1>2, <1>5, StopSocketsElements, Zenon
<1> QED
  BY <1>1, <1>3, <1>5, <1>6, AppPlain, Zenon

LEMMA FreeStep ==
    ASSUME MgrTypeOK, MgrInv, RunFree
    PROVE  MgrTypeOK' /\ MgrInv'
<1>1. App \in Proc /\ App \notin Sock
  BY SocketAssumption, Zenon DEF Proc
<1>2. work[App] # <<>> /\ Task(App) \in Tasks /\ Task(App).fn = "free"
  BY <1>1, CurrentTask DEF RunFree
<1>3. Task(App).g \in Group
  BY <1>2, TaskFields, Zenon
<1>4. /\ Continue(App, <<>>) /\ freed' = freed \cup {Task(App).g}
      /\ UNCHANGED <<groups, status, sockets, up>>
  BY Zenon DEF RunFree
<1>5. last_update' = last_update /\ thread' = thread /\ last_update' \in [Sock -> BOOLEAN]
  BY <1>4 DEF sockets, MgrTypeOK
<1>6. \A s \in Sock : work[s] # <<>> =>
         (last_update[s] => last_update'[s]) /\ thread'[s] \in {"loop", "lost"}
  BY <1>5, HasTasks, Zenon
<1>7. <<>> \in Seq(Tasks)
  OBVIOUS
<1>8. MgrInv' /\ work' \in [Proc -> Seq(Tasks)]
  BY <1>1, <1>2, <1>4, <1>5, <1>6, <1>7, TaskStep, Zenon
<1> QED
  BY <1>3, <1>4, <1>8 DEF MgrTypeOK, sockets

LEMMA AddRemoveCalls ==
    ASSUME MgrTypeOK, MgrInv, NEW g \in Group, MgrAdd(g) \/ MgrRemove(g)
    PROVE  MgrTypeOK' /\ MgrInv'
<1> DEFINE u == Add(g)
           v == Remove(g)
<1>1. UNCHANGED data /\ (Enter(<<u>>) \/ Enter(<<v>>))
  BY Zenon DEF MgrAdd, MgrRemove
<1>2. u \in Tasks /\ v \in Tasks
  BY TaskTypes, Zenon
<1> HIDE DEF u, v
<1>3. <<u>> \in Seq(Tasks) /\ <<v>> \in Seq(Tasks)
  BY <1>2
<1> QED
  BY <1>1, <1>3, AppPlain, Zenon

LEMMA RemoveStep ==
    ASSUME MgrTypeOK, MgrInv, RunRemove
    PROVE  MgrTypeOK' /\ MgrInv'
<1> DEFINE g == Task(App).g
           u == StopRemoved(g)
           v == Free(g)
           a == <<u, StartFirst, v>>
<1>1. App \in Proc /\ App \notin Sock
  BY SocketAssumption, Zenon DEF Proc
<1>2. work[App] # <<>> /\ Task(App) \in Tasks /\ Task(App).fn = "remove"
  BY <1>1, CurrentTask DEF RunRemove
<1>3. g \in Group
  BY <1>2, TaskFields, Zenon
<1>4. /\ \/ groups' = groups /\ Continue(App, <<>>)
         \/ groups # {g} /\ groups' = groups \ {g} /\ Continue(App, a)
      /\ UNCHANGED <<status, sockets, up, freed>>
  BY Zenon DEF RunRemove
<1> HIDE DEF g
<1>5. u \in Tasks /\ v \in Tasks /\ StartFirst \in Tasks
  BY <1>3, TaskTypes, Zenon
<1> HIDE DEF u, v
<1>6. a \in Seq(Tasks) /\ <<>> \in Seq(Tasks)
  BY <1>5
<1> HIDE DEF a
<1>7. last_update' = last_update /\ thread' = thread /\ last_update' \in [Sock -> BOOLEAN]
  BY <1>4 DEF sockets, MgrTypeOK
<1>8. \A s \in Sock : work[s] # <<>> =>
         (last_update[s] => last_update'[s]) /\ thread'[s] \in {"loop", "lost"}
  BY <1>7, HasTasks, Zenon
<1>9. MgrInv' /\ work' \in [Proc -> Seq(Tasks)]
  BY <1>1, <1>2, <1>4, <1>6, <1>7, <1>8, TaskStep, Zenon
<1>10. groups' \subseteq Group /\ groups' # {}
  BY <1>4 DEF MgrTypeOK
<1> QED
  BY <1>4, <1>9, <1>10 DEF MgrTypeOK, sockets

\* The sockets of a group that is added have no running thread.
LEMMA AddStep ==
    ASSUME MgrTypeOK, MgrInv, RunAdd
    PROVE  MgrTypeOK' /\ MgrInv'
<1> DEFINE g == Task(App).g
           a == <<StartFirst, Unlock>>
<1>1. App \in Proc /\ App \notin Sock
  BY SocketAssumption, Zenon DEF Proc
<1>2. work[App] # <<>> /\ Task(App) \in Tasks /\ Task(App).fn = "add"
  BY <1>1, CurrentTask DEF RunAdd
<1>3. g \in Group
  BY <1>2, TaskFields, Zenon
<1>4. StartFirst \in Tasks /\ Unlock \in Tasks
  BY TaskTypes, Zenon
<1>5. a \in Seq(Tasks) /\ <<>> \in Seq(Tasks)
  BY <1>4
<1>6. CASE Continue(App, <<>>) /\ UNCHANGED <<groups, status, state, last_update, thread, freed>>
           /\ UNCHANGED <<cancel, up>>
  <2>1. UNCHANGED data
    BY <1>6 DEF data, sockets
  <2> QED
    BY <1>2, <1>5, <1>6, <2>1, AppPlain, Zenon
<1>7. CASE /\ Unused(g)
           /\ groups' = groups \cup {g} /\ freed' = freed \ {g}
           /\ status' = [status EXCEPT ![g] = "CLOSED"]
           /\ state' = [s \in Sock |-> IF s \in MembersOf(g) THEN "CLOSED" ELSE state[s]]
           /\ last_update' = [s \in Sock |-> s \notin MembersOf(g) /\ last_update[s]]
           /\ thread' = [s \in Sock |-> IF s \in MembersOf(g) THEN "none" ELSE thread[s]]
           /\ Continue(App, a) /\ UNCHANGED <<cancel, up>>
  <2> HIDE DEF a, g
  <2>1. ASSUME NEW s \in Sock, work[s] # <<>>
        PROVE  (last_update[s] => last_update'[s]) /\ thread'[s] \in {"loop", "lost"}
    <3>1. thread[s] \in {"loop", "lost"}
      BY <2>1, HasTasks, Zenon
    <3>2. s \notin MembersOf(g)
      BY <1>7, <3>1 DEF Unused
    <3>3. thread'[s] = thread[s] /\ (last_update[s] => last_update'[s])
      BY <1>7, <3>2, Zenon
    <3> QED
      BY <3>1, <3>3, Zenon
  <2>2. status' \in [Group -> Status] /\ state' \in [Sock -> State]
    BY <1>7, Zenon DEF MgrTypeOK, Status, State
  <2>3. /\ last_update' \in [Sock -> BOOLEAN]
        /\ thread' \in [Sock -> {"none", "new", "begin", "loop", "exited", "lost"}]
    BY <1>7, Zenon DEF MgrTypeOK
  <2>4. groups' \subseteq Group /\ groups' # {} /\ freed' \subseteq Group
        /\ cancel' \subseteq Sock /\ up' \subseteq Sock
    BY <1>3, <1>7 DEF MgrTypeOK
  <2>5. MgrInv' /\ work' \in [Proc -> Seq(Tasks)]
    BY <1>1, <1>2, <1>5, <1>7, <2>1, <2>3, TaskStep, Zenon
  <2> QED
    BY <2>2, <2>3, <2>4, <2>5, Zenon DEF MgrTypeOK
<1> QED
  BY <1>6, <1>7, Zenon DEF RunAdd

-----------------------------------------------------------------------------
(* The theorems                                                            *)

LEMMA InitInv ==
    ASSUME Init
    PROVE  MgrTypeOK /\ MgrInv
<1>1. groups \subseteq Group /\ groups # {} /\ freed \subseteq Group
      /\ cancel \subseteq Sock /\ up \subseteq Sock
  BY GroupAssumption DEF Init
<1>2. status \in [Group -> Status] /\ state \in [Sock -> State]
  BY Zenon DEF Init, Status, State
<1>3. /\ last_update \in [Sock -> BOOLEAN]
      /\ thread \in [Sock -> {"none", "new", "begin", "loop", "exited", "lost"}]
  BY Zenon DEF Init
<1>4. <<>> \in Seq(Tasks) /\ DOMAIN <<>> = {}
  OBVIOUS
<1>5. work \in [Proc -> Seq(Tasks)]
  BY <1>4, Zenon DEF Init
<1>6. \A s \in Sock : work[s] = <<>>
  BY Zenon DEF Init, Proc
<1>7. MgrInv
  BY <1>4, <1>6, Zenon DEF MgrInv
<1> QED
  BY <1>1, <1>2, <1>3, <1>5, <1>7, Zenon DEF MgrTypeOK

LEMMA TaskInv ==
    ASSUME MgrTypeOK, MgrInv, NEW p \in Proc, RunTask(p)
    PROVE  MgrTypeOK' /\ MgrInv'
BY CallbackStep, SetStatusStep, StartStep, CreateStep, StopStep, CancelStep, JoinStep,
   ClosedStep, Zenon DEF RunTask

LEMMA SockInv ==
    ASSUME MgrTypeOK, MgrInv, NEW s \in Sock, SockStep(s)
    PROVE  MgrTypeOK' /\ MgrInv'
<1>1. s \in Proc
  BY Zenon DEF Proc
<1> QED
  BY <1>1, TaskInv, CloseStep, IsSomeStep, BestStep, ThreadStartStep, RoundStep, WriteStep,
     WakeStep, ExitStep, Zenon DEF SockStep

LEMMA AppInv ==
    ASSUME MgrTypeOK, MgrInv, AppStep \/ AppCall
    PROVE  MgrTypeOK' /\ MgrInv'
<1>1. App \in Proc
  BY Zenon DEF Proc
<1>2. CASE AppStep
  BY <1>1, <1>2, TaskInv, StopAllStep, AddStep, StartFirstStep, RemoveStep, StopRemovedStep,
     FreeStep, Zenon DEF AppStep
<1>3. CASE AppCall
  BY <1>3, StartStopCalls, AddRemoveCalls, Zenon DEF AppCall
<1> QED
  BY <1>2, <1>3, Zenon

LEMMA EnvironmentInv ==
    ASSUME MgrTypeOK, MgrInv, Environment
    PROVE  MgrTypeOK' /\ MgrInv'
<1>1. PICK s \in Sock : Forget(s) \/ Outage(s) \/ Recovery(s)
  BY Zenon DEF Environment
<1>2. CASE Forget(s)
  BY <1>2, ForgetStep, Zenon
<1>3. CASE Outage(s) \/ Recovery(s)
  <2>1. /\ up' \subseteq Sock
        /\ UNCHANGED <<groups, status, state, last_update, thread, cancel, work, freed>>
    BY <1>3 DEF Outage, Recovery, sockets, MgrTypeOK
  <2>2. MgrInv'
    BY <2>1, Zenon DEF MgrInv
  <2> QED
    BY <2>1, <2>2 DEF MgrTypeOK
<1> QED
  BY <1>1, <1>2, <1>3, Zenon

LEMMA NextInv ==
    ASSUME MgrTypeOK, MgrInv, [Next]_vars
    PROVE  MgrTypeOK' /\ MgrInv'
<1>1. CASE Next
  BY <1>1, SockInv, AppInv, EnvironmentInv, Zenon DEF Next
<1>2. CASE UNCHANGED vars
  <2>1. /\ UNCHANGED <<groups, status, up, freed, work>>
        /\ UNCHANGED <<state, last_update, thread, cancel>>
    BY <1>2 DEF vars, data, sockets
  <2>2. MgrInv'
    BY <2>1, Zenon DEF MgrInv
  <2> QED
    BY <2>1, <2>2 DEF MgrTypeOK
<1> QED
  BY <1>1, <1>2

\* Every variable of the manager has its type, in every configuration.
THEOREM MgrTypeCorrect == Spec => []MgrTypeOK
<1>1. Init => MgrTypeOK /\ MgrInv
  BY InitInv
<1>2. (MgrTypeOK /\ MgrInv) /\ [Next]_vars => (MgrTypeOK /\ MgrInv)'
  BY NextInv
<1> QED
  BY <1>1, <1>2, PTL DEF Spec

\* The tasks of every socket thread are sound.
THEOREM MgrInvariant == Spec => []MgrInv
<1>1. Init => MgrTypeOK /\ MgrInv
  BY InitInv
<1>2. (MgrTypeOK /\ MgrInv) /\ [Next]_vars => (MgrTypeOK /\ MgrInv)'
  BY NextInv
<1> QED
  BY <1>1, <1>2, PTL DEF Spec

\* The first task of a thread is one of its tasks.
LEMMA FirstTask ==
    ASSUME MgrTypeOK, MgrInv, NEW s \in Sock, NEW fn, At(s, fn)
    PROVE  Task(s).fn = fn /\ Sound(s, Task(s), last_update[s])
<1>1. s \in Proc
  BY Zenon DEF Proc
<1>2. work[s] \in Seq(Tasks) /\ work[s] # <<>>
  BY <1>1 DEF MgrTypeOK, At
<1>3. 1 \in DOMAIN work[s]
  BY <1>2
<1> QED
  BY <1>3, Zenon DEF At, Task, MgrInv

\* rtr_mgr_close_less_preferable_groups makes a thread wait only for threads
\* of less preferable groups, however many groups and sockets there are, so
\* the threads never wait for each other in a cycle.
THEOREM NoJoinCycle == Spec => []Downhill
<1>1. MgrTypeOK /\ MgrInv => Downhill
  <2> SUFFICES ASSUME MgrTypeOK, MgrInv, NEW s \in Sock, At(s, "join")
               PROVE  GroupOf[s] < GroupOf[Task(s).s]
    BY Zenon DEF Downhill
  <2>1. Task(s).fn = "join" /\ Sound(s, Task(s), last_update[s])
    BY FirstTask, Zenon
  <2> QED
    BY <2>1 DEF Sound
<1> QED
  BY <1>1, MgrTypeCorrect, MgrInvariant, PTL

\* The sockets of a less preferable group are stopped, and their records
\* dropped, only by a thread whose own socket has completed a
\* synchronisation and still has its records.
THEOREM SwitchKeepsData == Spec => []MakeBeforeBreak
<1>1. MgrTypeOK /\ MgrInv => MakeBeforeBreak
  <2> SUFFICES ASSUME MgrTypeOK, MgrInv, NEW s \in Sock,
                      At(s, "stop") \/ At(s, "cancel") \/ At(s, "join")
               PROVE  last_update[s]
    BY Zenon DEF MakeBeforeBreak
  <2>1. Task(s).fn \in {"stop", "cancel", "join"} /\ Sound(s, Task(s), last_update[s])
    BY FirstTask, Zenon
  <2> QED
    BY <2>1 DEF Sound
<1> QED
  BY <1>1, MgrTypeCorrect, MgrInvariant, PTL
=============================================================================
