---- MODULE Server_proofs ----
(***************************************************************************)
(* Theorems about Server, for any number of connections and timers.        *)
(***************************************************************************)
EXTENDS Server, Integers, WellFoundedInduction, TLAPS

\* What is needed of the types.
Types ==
    /\ servertype \in {"SUPER_PEER", "TRACKER"}
    /\ step \in Nat
    /\ thread \in [Threads -> RsThread]
    /\ accepting \in [TcpListeners -> Conns \union {NoConn}]
    /\ io \in BOOLEAN

\* A listener of the tracker that has been let run, or that loops, has its
\* tracker object, unless it went on before it was let run.
ListenersWait ==
    \A l \in UdpListeners :
        /\ thread[l].at \in {"created", "waiting"} => thread[l].loop_flag
        /\ l \notin early =>
            /\ thread[l].can_run = "true" => l \in tracker_made
            /\ thread[l].at \in {"looping", "ended"} => thread[l].can_run = "true"

\* There are no timers until main is about to connect to the tracker, and then
\* main goes on with the socket or is past it.
TimersComeLate == DOMAIN timer_vector # {} => io \/ MainLoops

CrashedIsDown == crash # "none" => ~up

IInv == Types /\ ListenersWait /\ TimersComeLate /\ CrashedIsDown /\ HandlersHaveTheirObjects

-----------------------------------------------------------------------------
(* Numbers.                                                                *)

\* A set of natural numbers that is not empty has a least element.
LEMMA LeastElement ==
    ASSUME NEW T \in SUBSET Nat, T # {}
    PROVE  \E x \in T : \A y \in T : x <= y
  <1> DEFINE R == OpToRel(<, Nat)
  <1>1. IsWellFoundedOn(R, Nat)
    BY NatLessThanWellFounded
  <1>2. \A x, y \in Nat : <<y, x>> \in R <=> y < x
    BY DEF OpToRel
  <1> HIDE DEF R
  <1>3. PICK x \in T : \A y \in T : <<y, x>> \notin R
    BY <1>1, WFMin
  <1>4. ASSUME NEW y \in T
        PROVE  x <= y
    <2>1. x \in Nat /\ y \in Nat /\ ~ (y < x)
      BY <1>2, <1>3
    <2>2. QED
      BY <2>1
  <1>5. QED
    BY <1>4

\* Min finds the least element.
LEMMA MinIsLeast ==
    ASSUME NEW T \in SUBSET Nat, T # {}
    PROVE  Min(T) \in T /\ \A y \in T : Min(T) <= y
  BY LeastElement DEF Min

-----------------------------------------------------------------------------
(* The operators.                                                          *)

\* The names of the threads.
LEMMA ThreadNames ==
    /\ UdpListeners \subseteq Threads
    /\ UdpListeners \subseteq Watched
    /\ \A x \in Conns : x \in Threads /\ x \notin UdpListeners
    /\ \A x \in TcpListeners : x \notin UdpListeners
  BY ServerAssumption DEF UdpListeners, Threads, TcpListeners, Others, Conns, Watched

\* The two programs.
LEMMA SuperPeerProgram ==
    ASSUME servertype = "SUPER_PEER"
    PROVE  /\ Len(Program) = 4
           /\ DOMAIN Program = 1 .. 4
           /\ \A i \in 1 .. 4 : Program[i] \notin UdpListeners
           /\ \A i \in 1 .. 4 : Program[i] = "timer" <=> i = 3
           /\ \A i \in 1 .. 4 : Program[i] = "trackerprotocol" <=> i = 4
  BY DEF Program, UdpListeners

LEMMA TrackerProgram ==
    ASSUME servertype = "TRACKER"
    PROVE  /\ Len(Program) = 2
           /\ DOMAIN Program = 1 .. 2
  BY DEF Program

\* What the operators of RsThread do to the fields.
LEMMA ThreadFields ==
    ASSUME NEW t \in RsThread
    PROVE  /\ NewThread \in RsThread
           /\ thread_create(t) \in RsThread
           /\ thread_create(t).can_run = t.can_run
           /\ thread_create(t).loop_flag
           /\ thread_create(t).at = "created"
           /\ let_run(t) \in RsThread
           /\ let_run(t).can_run = "true"
           /\ let_run(t).loop_flag = t.loop_flag
           /\ let_run(t).at = t.at
           /\ begin_loop(t) \in RsThread
           /\ begin_loop(t).can_run = t.can_run
           /\ begin_loop(t).loop_flag = t.loop_flag
           /\ begin_loop(t).at = "looping"
           /\ end_loop(t) \in RsThread
           /\ \A can_run \in {"false", "true"} :
                /\ enter_loop(t, can_run) \in RsThread
                /\ enter_loop(t, can_run).can_run = can_run
                /\ enter_loop(t, can_run).loop_flag = t.loop_flag
                /\ enter_loop(t, can_run).at =
                    IF can_run = "false" /\ t.loop_flag THEN "waiting" ELSE "looping"
  BY DEF RsThread, NewThread, thread_create, let_run, begin_loop, end_loop, enter_loop

LEMMA InitIInv == Init => IInv
  <1> SUFFICES ASSUME Init PROVE IInv
    OBVIOUS
  <1> USE DEF Init
  <1>1. NewThread \in RsThread
    BY DEF NewThread, RsThread
  <1>2. Types
    BY <1>1, ThreadNames DEF Types
  <1>3. ListenersWait
    BY ThreadNames DEF ListenersWait, NewThread
  <1>4. TimersComeLate /\ CrashedIsDown /\ HandlersHaveTheirObjects
    BY DEF TimersComeLate, CrashedIsDown, HandlersHaveTheirObjects
  <1>5. QED
    BY <1>2, <1>3, <1>4 DEF IInv

-----------------------------------------------------------------------------
(* The steps.                                                              *)

\* main lets a listener run only when it is about to make its tracker object.
LEMMA StartNextListeners ==
    ASSUME IInv, NEW next \in Nat, StartNext(next),
           tracker_made \subseteq tracker_made',
           \A x \in Started : x \in UdpListeners => x \in tracker_made'
    PROVE  /\ thread' \in [Threads -> RsThread]
           /\ ListenersWait'
  <1> DEFINE created == IF next \in DOMAIN Program THEN {Program[next]} ELSE {}
  <1>1. \A x \in Threads : thread[x] \in RsThread
    BY DEF IInv, Types
  <1>2. /\ thread' = [x \in Threads |->
                IF x \in Started THEN let_run(thread[x])
                ELSE IF x \in created THEN thread_create(thread[x])
                ELSE thread[x]]
        /\ early' = early
    BY DEF StartNext
  <1> HIDE DEF created
  <1>3. ASSUME NEW x \in Threads
        PROVE  /\ thread'[x] \in RsThread
               /\ thread'[x].at # thread[x].at => thread'[x].at = "created"
               /\ thread'[x].at = "created" => thread'[x].loop_flag \/ thread[x].at = "created"
               /\ thread'[x].loop_flag = thread[x].loop_flag \/ thread'[x].loop_flag
               /\ \/ thread'[x].can_run = thread[x].can_run
                  \/ x \in Started /\ thread'[x].can_run = "true"
    <2>1. CASE x \in Started
      BY <2>1, <1>1, <1>2, ThreadFields
    <2>2. CASE x \notin Started /\ x \in created
      BY <2>2, <1>1, <1>2, ThreadFields
    <2>3. CASE x \notin Started /\ x \notin created
      BY <2>3, <1>1, <1>2
    <2>4. QED
      BY <2>1, <2>2, <2>3
  <1>4. thread' \in [Threads -> RsThread]
    BY <1>2, <1>3
  <1>5. ASSUME NEW l \in UdpListeners
        PROVE  /\ thread'[l].at \in {"created", "waiting"} => thread'[l].loop_flag
               /\ l \notin early' =>
                    /\ thread'[l].can_run = "true" => l \in tracker_made'
                    /\ thread'[l].at \in {"looping", "ended"} => thread'[l].can_run = "true"
    BY <1>2, <1>3, ThreadNames DEF IInv, ListenersWait
  <1>6. QED
    BY <1>4, <1>5 DEF ListenersWait

LEMMA SuperPeerMainIInv ==
    ASSUME IInv, NEW next \in 1 .. Len(Program) + 1, SuperPeerMain(next)
    PROVE  IInv'
  <1>1. /\ servertype = "SUPER_PEER" /\ servertype' = servertype
        /\ StartNext(next) /\ tracker_made' = tracker_made
        /\ up /\ up' = up /\ crash' = crash /\ early' = early /\ accepting' = accepting
        /\ next > step /\ step' = next
        /\ timer_vector' = IF "timer" \in Started \union PassedOver(next)
                           THEN add_timers ELSE timer_vector
        /\ io' \in NewIo(next)
    BY DEF SuperPeerMain, StartNext, fate, conns
  <1>2. next \in 1 .. 5 /\ Program' = Program /\ step \in Nat /\ io \in BOOLEAN
    BY <1>1, SuperPeerProgram DEF Program, IInv, Types
  <1>3. \A x \in Started : x \notin UdpListeners
    BY <1>1, <1>2, SuperPeerProgram DEF Started
  <1>4. thread' \in [Threads -> RsThread] /\ ListenersWait'
    BY <1>1, <1>2, <1>3, StartNextListeners
  <1>5. io' \in BOOLEAN /\ (io => io')
    BY <1>1, <1>2 DEF NewIo, socket_connect
  <1>6. Types'
    BY <1>1, <1>2, <1>4, <1>5 DEF Types, IInv
  <1>7. TimersComeLate'
    <2>1. CASE next = 5
      <3>1. Len(Program)' = 4 /\ step' = 5
        BY <2>1, <1>1, <1>2, SuperPeerProgram
      <3>2. QED
        BY <3>1 DEF TimersComeLate, MainLoops
    <2>2. CASE next = 4
      <3>1. io'
        BY <2>2, <1>1, SuperPeerProgram DEF NewIo
      <3>2. QED
        BY <3>1 DEF TimersComeLate
    <2>3. CASE next < 4
      <3>1. "timer" \notin Started \union PassedOver(next)
        BY <2>3, <1>1, <1>2, SuperPeerProgram DEF Started, PassedOver
      <3>2. ~ MainLoops
        BY <2>3, <1>1, <1>2, SuperPeerProgram DEF MainLoops
      <3>3. QED
        BY <3>1, <3>2, <1>1, <1>5 DEF IInv, TimersComeLate
    <2>4. QED
      BY <2>1, <2>2, <2>3, <1>2
  <1>8. CrashedIsDown' /\ HandlersHaveTheirObjects'
    BY <1>1 DEF IInv, CrashedIsDown, HandlersHaveTheirObjects
  <1>9. QED
    BY <1>4, <1>6, <1>7, <1>8 DEF IInv

LEMMA TrackerMainIInv ==
    ASSUME IInv, NEW next \in 1 .. Len(Program) + 1, TrackerMain(next)
    PROVE  IInv'
  <1>1. /\ servertype = "TRACKER" /\ servertype' = servertype
        /\ StartNext(next)
        /\ tracker_made' = tracker_made \union Started \union PassedOver(next)
        /\ up /\ up' = up /\ crash' = crash /\ early' = early /\ accepting' = accepting
        /\ next > step /\ step' = next
        /\ timer_vector' = timer_vector /\ io' = io
    BY DEF TrackerMain, StartNext, fate, conns
  <1>2. next \in 1 .. 3 /\ Program' = Program /\ step \in Nat
    BY <1>1, TrackerProgram DEF Program, IInv, Types
  <1>3. thread' \in [Threads -> RsThread] /\ ListenersWait'
    BY <1>1, <1>2, StartNextListeners
  <1>4. Types'
    BY <1>1, <1>2, <1>3 DEF Types, IInv
  <1>5. TimersComeLate'
    BY <1>1, <1>2, TrackerProgram DEF IInv, TimersComeLate, MainLoops
  <1>6. CrashedIsDown' /\ HandlersHaveTheirObjects'
    BY <1>1 DEF IInv, CrashedIsDown, HandlersHaveTheirObjects
  <1>7. QED
    BY <1>3, <1>4, <1>5, <1>6 DEF IInv

\* A step of a thread that leaves the listeners alone keeps what they have.
LEMMA OtherThread ==
    ASSUME IInv, NEW x \in Threads, x \notin UdpListeners, NEW t \in RsThread,
           thread' = [thread EXCEPT ![x] = t],
           early \subseteq early', tracker_made' = tracker_made
    PROVE  /\ thread' \in [Threads -> RsThread]
           /\ ListenersWait'
  <1>1. thread' \in [Threads -> RsThread]
    BY DEF IInv, Types
  <1>2. \A l \in UdpListeners : thread'[l] = thread[l]
    BY ThreadNames DEF IInv, Types
  <1>3. QED
    BY <1>1, <1>2 DEF IInv, ListenersWait

\* A step keeps the invariant that leaves main and the timers alone, and crashes
\* for nothing but a deleted object.
LEMMA RestIInv ==
    ASSUME IInv, UNCHANGED start, early \subseteq early',
           UNCHANGED fate \/ (up' = FALSE /\ crash' = "deleted"),
           DOMAIN timer_vector' = DOMAIN timer_vector,
           accepting' \in [TcpListeners -> Conns \union {NoConn}],
           thread' \in [Threads -> RsThread], ListenersWait'
    PROVE  IInv'
  <1>1. /\ servertype' = servertype /\ step' = step /\ io' = io
        /\ tracker_made' = tracker_made /\ Program' = Program
    BY DEF start, Program
  <1>2. Types' /\ TimersComeLate' /\ CrashedIsDown'
    BY <1>1 DEF IInv, Types, TimersComeLate, MainLoops, CrashedIsDown, fate
  <1>3. HandlersHaveTheirObjects'
    BY <1>1 DEF IInv, HandlersHaveTheirObjects, MainLoops, fate
  <1>4. QED
    BY <1>2, <1>3 DEF IInv

LEMMA EnterLoopIInv ==
    ASSUME IInv, NEW x \in Threads, EnterLoop(x)
    PROVE  IInv'
  <1>1. PICK can_run \in Readings(thread[x]) :
            /\ thread' = [thread EXCEPT ![x] = enter_loop(thread[x], can_run)]
            /\ early' = IF can_run = "true" /\ thread[x].can_run = "unset"
                        THEN early \union ({x} \intersect Watched) ELSE early
    BY DEF EnterLoop
  <1>2. /\ thread[x].at = "created" /\ tracker_made' = tracker_made
        /\ UNCHANGED <<start, fate, timer_vector, accepting>>
    BY DEF EnterLoop, start, timing, conns
  <1>3. thread \in [Threads -> RsThread] /\ thread[x] \in RsThread
    BY DEF IInv, Types
  <1>4. /\ can_run \in {"false", "true"}
        /\ thread[x].can_run # "unset" => can_run = thread[x].can_run
    BY <1>3 DEF Readings, RsThread
  <1>5. /\ thread'[x] \in RsThread
        /\ thread'[x].can_run = can_run
        /\ thread'[x].loop_flag = thread[x].loop_flag
        /\ thread'[x].at = IF can_run = "false" /\ thread[x].loop_flag
                           THEN "waiting" ELSE "looping"
        /\ \A y \in Threads \ {x} : thread'[y] = thread[y]
    BY <1>1, <1>3, <1>4, ThreadFields
  <1>6. thread' \in [Threads -> RsThread] /\ early \subseteq early'
    BY <1>1, <1>3, <1>5
  <1>7. ASSUME NEW l \in UdpListeners
        PROVE  /\ thread'[l].at \in {"created", "waiting"} => thread'[l].loop_flag
               /\ l \notin early' =>
                    /\ thread'[l].can_run = "true" => l \in tracker_made'
                    /\ thread'[l].at \in {"looping", "ended"} => thread'[l].can_run = "true"
    <2>1. CASE l = x
      BY <2>1, <1>1, <1>2, <1>4, <1>5, ThreadNames DEF IInv, ListenersWait
    <2>2. CASE l # x
      BY <2>2, <1>2, <1>5, <1>6, ThreadNames DEF IInv, ListenersWait
    <2>3. QED
      BY <2>1, <2>2
  <1>8. ListenersWait'
    BY <1>7 DEF ListenersWait
  <1>9. QED
    BY <1>2, <1>6, <1>8, RestIInv DEF IInv, Types

LEMMA BeginLoopIInv ==
    ASSUME IInv, NEW x \in Threads, BeginLoop(x)
    PROVE  IInv'
  <1>1. /\ thread' = [thread EXCEPT ![x] = begin_loop(thread[x])]
        /\ MayLoop(thread[x]) /\ Finds(x)
        /\ UNCHANGED <<start, timer_vector, accepting, tracker_made, early>>
    BY DEF BeginLoop, start, timing, conns
  <1>2. thread \in [Threads -> RsThread] /\ thread[x] \in RsThread
    BY DEF IInv, Types
  <1>3. /\ thread'[x] \in RsThread
        /\ thread'[x].can_run = thread[x].can_run
        /\ thread'[x].loop_flag = thread[x].loop_flag
        /\ thread'[x].at = "looping"
        /\ \A y \in Threads \ {x} : thread'[y] = thread[y]
    BY <1>1, <1>2, ThreadFields
  <1>4. thread' \in [Threads -> RsThread]
    BY <1>1, <1>2, <1>3
  <1>5. ASSUME NEW l \in UdpListeners
        PROVE  /\ thread'[l].at \in {"created", "waiting"} => thread'[l].loop_flag
               /\ l \notin early' =>
                    /\ thread'[l].can_run = "true" => l \in tracker_made'
                    /\ thread'[l].at \in {"looping", "ended"} => thread'[l].can_run = "true"
    <2>1. CASE l = x
      <3>1. thread[l].loop_flag /\ thread[l].can_run = "true"
        BY <2>1, <1>1 DEF IInv, ListenersWait, MayLoop
      <3>2. QED
        BY <3>1, <2>1, <1>1, <1>3 DEF IInv, ListenersWait
    <2>2. CASE l # x
      BY <2>2, <1>1, <1>3, ThreadNames DEF IInv, ListenersWait
    <2>3. QED
      BY <2>1, <2>2
  <1>6. ListenersWait'
    BY <1>5 DEF ListenersWait
  <1>7. QED
    BY <1>1, <1>4, <1>6, RestIInv DEF Finds, IInv, Types

LEMMA ConnectionIInv ==
    ASSUME IInv, NEW c \in Conns, ConnectionRuns(c) \/ ConnectionEnds(c)
    PROVE  IInv'
  <1>1. c \in Threads /\ c \notin UdpListeners /\ thread[c] \in RsThread
    BY ThreadNames DEF IInv, Types
  <1>2. /\ UNCHANGED <<start, timer_vector, tracker_made, early>>
        /\ accepting' \in [TcpListeners -> Conns \union {NoConn}]
    BY DEF ConnectionRuns, ConnectionEnds, start, timing, conns, IInv, Types
  <1>3. CASE ConnectionRuns(c)
    <2>1. UNCHANGED <<thread, start>> /\ Finds(c)
      BY <1>3 DEF ConnectionRuns
    <2>2. thread' \in [Threads -> RsThread] /\ ListenersWait'
      BY <2>1, <1>2 DEF IInv, Types, ListenersWait
    <2>3. QED
      BY <2>1, <2>2, <1>2, RestIInv DEF Finds
  <1>4. CASE ConnectionEnds(c)
    <2>1. thread' = [thread EXCEPT ![c] = end_loop(thread[c])] /\ UNCHANGED <<start, fate>>
      BY <1>4 DEF ConnectionEnds
    <2>2. thread' \in [Threads -> RsThread] /\ ListenersWait'
      BY <2>1, <1>1, <1>2, ThreadFields, OtherThread
    <2>3. QED
      BY <2>1, <2>2, <1>2, RestIInv
  <1>5. QED
    BY <1>3, <1>4

LEMMA AcceptIInv ==
    ASSUME IInv, NEW l \in TcpListeners, NEW c \in Conns, Accept(l, c)
    PROVE  IInv'
  <1>1. c \in Threads /\ c \notin UdpListeners /\ thread[c] \in RsThread
    BY ThreadNames DEF IInv, Types
  <1>2. /\ UNCHANGED <<start, fate, timer_vector, tracker_made, early>>
        /\ accepting' \in [TcpListeners -> Conns \union {NoConn}]
    BY DEF Accept, start, timing, IInv, Types
  <1>3. thread' = [thread EXCEPT ![c] = thread_create(thread[c])] \/ UNCHANGED thread
    BY DEF Accept
  <1>4. thread' \in [Threads -> RsThread] /\ ListenersWait'
    <2>1. CASE thread' = [thread EXCEPT ![c] = thread_create(thread[c])]
      BY <2>1, <1>1, <1>2, ThreadFields, OtherThread
    <2>2. CASE UNCHANGED thread
      BY <2>2, <1>2 DEF IInv, Types, ListenersWait
    <2>3. QED
      BY <2>1, <2>2, <1>3
  <1>5. QED
    BY <1>2, <1>4, RestIInv

LEMMA AcceptedIInv ==
    ASSUME IInv, NEW l \in TcpListeners, Accepted(l)
    PROVE  IInv'
  <1>1. PICK c \in Conns : c = accepting[l]
    BY DEF Accepted, IInv, Types
  <1>2. c \in Threads /\ c \notin UdpListeners /\ thread[c] \in RsThread
    BY ThreadNames DEF IInv, Types
  <1>3. /\ thread' = [thread EXCEPT ![c] = let_run(thread[c])]
        /\ UNCHANGED <<start, fate, timer_vector, tracker_made, early>>
        /\ accepting' \in [TcpListeners -> Conns \union {NoConn}]
    BY <1>1 DEF Accepted, start, timing, IInv, Types
  <1>4. thread' \in [Threads -> RsThread] /\ ListenersWait'
    BY <1>2, <1>3, ThreadFields, OtherThread
  <1>5. QED
    BY <1>3, <1>4, RestIInv

\* A packet reaches a listener without tracker object only when it went on early.
LEMMA HandleUdpPacketIInv ==
    ASSUME IInv, NEW l \in UdpListeners, HandleUdpPacket(l)
    PROVE  IInv'
  <1>1. /\ UNCHANGED <<start, thread, timer_vector, early>>
        /\ thread[l].at = "looping" /\ accepting' = accepting
        /\ l \notin tracker_made => up' = FALSE /\ crash' = "no_tracker"
        /\ l \in tracker_made => UNCHANGED fate
    BY DEF HandleUdpPacket, timing, conns
  <1>2. /\ servertype' = servertype /\ step' = step /\ io' = io
        /\ tracker_made' = tracker_made /\ Program' = Program
    BY <1>1 DEF start, Program
  <1>3. thread' \in [Threads -> RsThread] /\ ListenersWait'
    BY <1>1, <1>2 DEF IInv, Types, ListenersWait
  <1>4. CASE l \in tracker_made
    BY <1>1, <1>3, <1>4, RestIInv DEF IInv, Types
  <1>5. CASE l \notin tracker_made
    <2>1. l \in early
      BY <1>1, <1>5 DEF IInv, ListenersWait
    <2>2. HandlersHaveTheirObjects'
      BY <1>1, <1>2, <1>5, <2>1 DEF HandlersHaveTheirObjects
    <2>3. Types' /\ TimersComeLate' /\ CrashedIsDown'
      BY <1>1, <1>2, <1>3, <1>5 DEF IInv, Types, TimersComeLate, MainLoops, CrashedIsDown
    <2>4. QED
      BY <1>3, <2>2, <2>3 DEF IInv
  <1>6. QED
    BY <1>4, <1>5

\* A timer that is due finds the socket, or main has given up to connect.
LEMMA CheckFromIInv ==
    ASSUME IInv, NEW i, NEW timers, CheckFrom(i, timers),
           DOMAIN timers = DOMAIN timer_vector,
           UNCHANGED <<start, thread, conns, early>>
    PROVE  IInv'
  <1>1. /\ servertype' = servertype /\ step' = step /\ io' = io /\ accepting' = accepting
        /\ tracker_made' = tracker_made /\ Program' = Program /\ thread' = thread
    BY DEF start, conns, Program
  <1>2. thread' \in [Threads -> RsThread] /\ ListenersWait'
    BY <1>1 DEF IInv, Types, ListenersWait
  <1>3. DEFINE due == {j \in DOMAIN timers : j >= i /\ timers[j] >= Timeout[j]}
  <1>4. DOMAIN timer_vector' = DOMAIN timer_vector
    <2>1. CASE due = {}
      <3>1. timer_vector' = [j \in DOMAIN timers |-> AtMost(j, timers[j] + lag)]
        BY <2>1 DEF CheckFrom
      <3>2. QED
        BY <3>1
    <2>2. CASE due # {}
      BY <2>2 DEF CheckFrom
    <2>3. QED
      BY <2>1, <2>2
  <1>5. CASE UNCHANGED fate
    BY <1>1, <1>2, <1>4, <1>5, RestIInv DEF IInv, Types
  <1>6. CASE ~ UNCHANGED fate
    <2>1. due # {} /\ io # TRUE /\ up' = FALSE /\ crash' = "no_io"
      BY <1>6 DEF CheckFrom
    <2>2. ~ io' /\ MainLoops'
      BY <2>1, <1>1 DEF IInv, Types, TimersComeLate, MainLoops
    <2>3. HandlersHaveTheirObjects'
      BY <2>1, <2>2 DEF HandlersHaveTheirObjects
    <2>4. Types' /\ TimersComeLate' /\ CrashedIsDown'
      BY <1>1, <1>2, <2>1, <2>2 DEF IInv, Types, TimersComeLate, CrashedIsDown
    <2>5. QED
      BY <1>2, <2>3, <2>4 DEF IInv
  <1>7. QED
    BY <1>5, <1>6

LEMMA TimerIInv ==
    ASSUME IInv, CheckTimeout \/ HandlerReturns
    PROVE  IInv'
  <1>1. UNCHANGED <<start, thread, conns, early>>
    BY DEF CheckTimeout, HandlerReturns
  <1>2. CASE CheckTimeout /\ checked
    BY <1>1, <1>2, CheckFromIInv DEF CheckTimeout
  <1>3. CASE CheckTimeout /\ ~ checked
    <2>1. DOMAIN timer_vector' = DOMAIN timer_vector /\ UNCHANGED fate
      BY <1>3 DEF CheckTimeout
    <2>2. thread' \in [Threads -> RsThread] /\ ListenersWait'
      BY <1>1 DEF start, IInv, Types, ListenersWait
    <2>3. QED
      BY <1>1, <2>1, <2>2, RestIInv DEF conns, IInv, Types
  <1>4. CASE HandlerReturns
    <2>1. DOMAIN [timer_vector EXCEPT ![iter] = 0] = DOMAIN timer_vector
      OBVIOUS
    <2>2. QED
      BY <1>1, <1>4, <2>1, CheckFromIInv DEF HandlerReturns
  <1>5. QED
    BY <1>2, <1>3, <1>4

LEMMA TickIInv ==
    ASSUME IInv, NEW delay \in Nat, Tick(delay)
    PROVE  IInv'
  <1>1. UNCHANGED <<start, thread, conns, fate, early>>
    BY DEF Tick
  <1>2. DOMAIN timer_vector' = DOMAIN timer_vector
    BY DEF Tick
  <1>3. thread' \in [Threads -> RsThread] /\ ListenersWait'
    BY <1>1 DEF start, IInv, Types, ListenersWait
  <1>4. QED
    BY <1>1, <1>2, <1>3, RestIInv DEF conns, IInv, Types

LEMMA NextIInv == IInv /\ [Next]_vars => IInv'
  <1> SUFFICES ASSUME IInv, [Next]_vars PROVE IInv'
    OBVIOUS
  <1>1. CASE Main
    BY <1>1, SuperPeerMainIInv, TrackerMainIInv DEF Main
  <1>2. CASE Clock
    BY <1>2, TickIInv, ServerAssumption DEF Clock
  <1>3. CASE \E x \in Threads : EnterLoop(x) \/ BeginLoop(x)
    BY <1>3, EnterLoopIInv, BeginLoopIInv
  <1>4. CASE \E c \in Conns : ConnectionRuns(c) \/ ConnectionEnds(c)
    BY <1>4, ConnectionIInv
  <1>5. CASE \/ \E c \in NpConns : Accept("np_listener", c)
             \/ \E c \in CsConns : Accept("cs_listener", c)
    BY <1>5, AcceptIInv DEF TcpListeners, Conns
  <1>6. CASE \E l \in TcpListeners : Accepted(l)
    BY <1>6, AcceptedIInv
  <1>7. CASE \E l \in UdpListeners : HandleUdpPacket(l)
    BY <1>7, HandleUdpPacketIInv
  <1>8. CASE CheckTimeout \/ HandlerReturns
    BY <1>8, TimerIInv
  <1>9. CASE UNCHANGED vars
    BY <1>9 DEF vars, start, conns, timing, fate, IInv, Types, ListenersWait, TimersComeLate,
                CrashedIsDown, HandlersHaveTheirObjects, MainLoops, Program
  <1>10. QED
    BY <1>1, <1>2, <1>3, <1>4, <1>5, <1>6, <1>7, <1>8, <1>9 DEF Next

\* The inductive invariant holds in every reachable state.
THEOREM Invariance == Spec => []IInv
  BY InitIInv, NextIInv, PTL DEF Spec

\* No packet is handled before the tracker object is made, unless the thread
\* went on because can_run happened to be true, and no timer fires before the
\* socket is made, unless the tracker could not be connected: for any number of
\* connections, however the threads are scheduled, whatever fails at the start.
THEOREM ObjectsComeFirst == Spec => []HandlersHaveTheirObjects
  <1>1. IInv => HandlersHaveTheirObjects
    BY DEF IInv
  <1>2. QED
    BY <1>1, Invariance, PTL

-----------------------------------------------------------------------------
(* The types of the rest, and the timers: what has to hold that none is     *)
(* signalled too early.                                                     *)

\* The timer thread is made by the third step of the super peer's main, and
\* comes to its loop when main went on, unless it went on by chance.
TimerWaits ==
    /\ step < 3 \/ servertype = "TRACKER" => thread["timer"].at = "not_created"
    /\ thread["timer"].at \in {"created", "waiting"} => thread["timer"].loop_flag
    /\ "timer" \notin early =>
        /\ thread["timer"].can_run = "true" => step > 3
        /\ thread["timer"].at = "looping" => thread["timer"].can_run = "true"

\* After the first round no timer counts longer than since it was added, also
\* with the time that passes while a handler keeps check_timeout waiting.
Clocks ==
    /\ iter = 0 => lag = 0
    /\ iter # 0 => checked
    /\ checked => thread["timer"].at = "looping"
    /\ \A i \in Timers : waited[i] <= Timeout[i]
    /\ checked /\ "timer" \notin early =>
        \A i \in DOMAIN timer_vector : AtMost(i, timer_vector[i] + lag) <= waited[i]

TimerInv == TypeOK /\ TimerWaits /\ Clocks

\* No list of numbers is without a bound: by induction on its length.
LEMMA ListIsBounded ==
    ASSUME NEW n \in Nat, NEW s \in [1 .. n -> Int]
    PROVE  \E k \in Nat : \A i \in 1 .. n : s[i] <= k
  <1> DEFINE Unbounded == {m \in Nat : m <= n /\ ~ \E k \in Nat : \A i \in 1 .. m : s[i] <= k}
  <1>1. CASE Unbounded # {}
    <2>1. PICK m \in Unbounded : \A l \in Unbounded : m <= l
      <3>1. Unbounded \in SUBSET Nat
        OBVIOUS
      <3> HIDE DEF Unbounded
      <3>2. QED
        BY <1>1, <3>1, LeastElement
    <2>2. m \in Nat /\ m <= n /\ m # 0
      <3>1. m = 0 => \A i \in 1 .. m : s[i] <= 0
        OBVIOUS
      <3>2. QED
        BY <3>1
    <2>3. m - 1 \in Nat /\ m - 1 \notin Unbounded
      <3>1. m - 1 \in Nat /\ ~ (m <= m - 1)
        BY <2>2
      <3> HIDE DEF Unbounded
      <3>2. QED
        BY <2>1, <3>1
    <2>4. PICK k \in Nat : \A i \in 1 .. m - 1 : s[i] <= k
      BY <2>2, <2>3
    <2>5. s[m] \in Int /\ \A i \in 1 .. m : i = m \/ i \in 1 .. m - 1
      BY <2>2
    <2>6. PICK j \in Nat : j >= k /\ j >= s[m]
      <3>1. IF s[m] > k THEN s[m] \in Nat ELSE k >= s[m]
        BY <2>5
      <3>2. QED
        BY <3>1, <2>5
    <2>7. \A i \in 1 .. m : s[i] \in Int /\ s[i] <= j
      BY <2>2, <2>4, <2>5, <2>6
    <2>8. QED
      BY <2>1, <2>7
  <1>2. CASE Unbounded = {}
    <2>1. n <= n
      OBVIOUS
    <2>2. n \notin Unbounded
      <3> HIDE DEF Unbounded
      <3>1. QED
        BY <1>2
    <2>3. QED
      BY <2>1, <2>2
  <1>3. QED
    BY <1>1, <1>2

\* The timeouts, their largest, and the smaller of two numbers.
LEMMA Timeouts ==
    /\ Timers = 1 .. Len(Timeout) /\ Len(Timeout) \in Nat
    /\ \A i \in Timers : Timeout[i] \in Nat /\ Timeout[i] > 0 /\ Timeout[i] <= MaxTimeout
    /\ MaxTimeout \in Nat
  <1>1. /\ Timers = 1 .. Len(Timeout) /\ Len(Timeout) \in Nat /\ Len(Timeout) >= 1
        /\ \A i \in Timers : Timeout[i] \in Nat \ {0}
        /\ Timeout \in [1 .. Len(Timeout) -> Int]
    BY ServerAssumption DEF Timers
  <1> DEFINE S == {Timeout[i] : i \in Timers}
             Upper == {k \in Nat : \A i \in Timers : Timeout[i] <= k}
  <1>2. \E k \in Nat : k \in Upper
    BY <1>1, ListIsBounded DEF Timers
  <1>3. PICK k \in Upper : \A l \in Upper : k <= l
    <2>1. Upper \in SUBSET Nat /\ Upper # {}
      BY <1>2
    <2> HIDE DEF Upper
    <2>2. QED
      BY <2>1, LeastElement
  <1>4. \E i \in Timers : Timeout[i] = k
    <2>1. CASE \A i \in Timers : Timeout[i] # k
      <3>1. 1 \in Timers /\ k \in Nat /\ Timeout[1] <= k /\ Timeout[1] \in Nat \ {0}
        BY <1>1, <1>3
      <3>2. k - 1 \in Nat
        BY <3>1
      <3>3. \A i \in Timers : Timeout[i] <= k - 1
        BY <1>1, <1>3, <2>1, <3>1
      <3>4. QED
        BY <1>3, <3>1, <3>2, <3>3
    <2>2. QED
      BY <2>1
  <1>5. \E x \in S : \A y \in S : x >= y
    <2>1. PICK i \in Timers : Timeout[i] = k
      BY <1>4
    <2>2. \A y \in S : Timeout[i] >= y
      BY <1>1, <1>3, <2>1
    <2>3. QED
      BY <2>2
  <1>6. MaxTimeout \in S /\ \A y \in S : MaxTimeout >= y
    <2>1. MaxTimeout = CHOOSE x \in S : \A y \in S : x >= y
      BY DEF MaxTimeout, Max
    <2> HIDE DEF S
    <2>2. QED
      BY <1>5, <2>1
  <1>7. QED
    BY <1>1, <1>6

LEMMA AtMostFacts ==
    ASSUME NEW i \in Timers, NEW t \in Nat
    PROVE  /\ AtMost(i, t) \in Nat /\ AtMost(i, t) <= t
           /\ AtMost(i, t) <= Timeout[i] /\ AtMost(i, t) <= MaxTimeout
           /\ AtMost(i, t) = t \/ AtMost(i, t) = Timeout[i]
  <1>1. /\ Timeout[i] \in Nat /\ Timeout[i] <= MaxTimeout /\ MaxTimeout \in Nat
    BY Timeouts
  <1> DEFINE S == {t, Timeout[i]}
  <1>2. S \in SUBSET Nat /\ S # {}
    BY <1>1
  <1>3. AtMost(i, t) \in S /\ \A y \in S : AtMost(i, t) <= y
    <2>1. AtMost(i, t) = Min(S)
      BY DEF AtMost
    <2> HIDE DEF S
    <2>2. QED
      BY <1>2, <2>1, MinIsLeast
  <1>4. QED
    BY <1>1, <1>3

LEMMA InitTimers == Init => TimerInv
  <1> SUFFICES ASSUME Init PROVE TimerInv
    OBVIOUS
  <1>1. /\ MaxTimeout \in Nat /\ \A i \in Timers : Timeout[i] \in Nat
    BY Timeouts
  <1>2. Types
    BY InitIInv DEF IInv
  <1>3. /\ 0 \in 0 .. Len(Program) + 1
        /\ thread["timer"] = NewThread
    <2>1. Len(Program) \in Nat
      BY SuperPeerProgram, TrackerProgram DEF Init
    <2>2. "timer" \in Threads
      BY DEF Threads, Others
    <2>3. QED
      BY <2>1, <2>2 DEF Init
  <1>4. TypeOK
    <2>1. 0 \in 0 .. MaxTimeout
      BY <1>1
    <2>2. /\ waited \in [Timers -> 0 .. MaxTimeout] /\ lag \in 0 .. MaxTimeout
          /\ timer_vector = << >>
      BY <2>1 DEF Init
    <2>3. QED
      BY <1>2, <1>3, <2>2 DEF Init, TypeOK, Types
  <1>5. TimerWaits
    BY <1>3 DEF Init, TimerWaits, NewThread
  <1>6. Clocks
    BY <1>1 DEF Init, Clocks
  <1>7. QED
    BY <1>4, <1>5, <1>6 DEF TimerInv

\* A step that leaves main and the timers alone, and the timer thread where it
\* is or brings it to its loop.
LEMMA SameTimes ==
    ASSUME TimerInv, IInv', UNCHANGED <<start, timing>>,
           owner' \in [Conns -> {"none", "handle_tcp_connect", "np_sp_protocol_vector", "deleted"}],
           up' \in BOOLEAN, crash' \in {"none", "no_tracker", "no_io", "deleted"},
           early \subseteq early', early' \subseteq Watched,
           TimerWaits', checked => thread'["timer"].at = "looping"
    PROVE  TimerInv'
  <1>1. /\ UNCHANGED <<servertype, step, tracker_made, io>>
        /\ UNCHANGED <<timer_vector, checked, iter, lag, waited>>
        /\ Program' = Program
    BY DEF start, timing, Program
  <1>2. TypeOK'
    BY <1>1 DEF TimerInv, TypeOK, IInv, Types
  <1>3. Clocks'
    BY <1>1 DEF TimerInv, Clocks
  <1>4. QED
    BY <1>2, <1>3 DEF TimerInv

\* The same, for a step of another thread.
LEMMA OtherThreadTimes ==
    ASSUME TimerInv, IInv', UNCHANGED <<start, timing, early>>,
           owner' \in [Conns -> {"none", "handle_tcp_connect", "np_sp_protocol_vector", "deleted"}],
           up' \in BOOLEAN, crash' \in {"none", "no_tracker", "no_io", "deleted"},
           thread'["timer"] = thread["timer"]
    PROVE  TimerInv'
  <1>1. step' = step /\ servertype' = servertype
    BY DEF start
  <1>2. TimerWaits' /\ (checked => thread'["timer"].at = "looping")
    BY <1>1 DEF TimerInv, TimerWaits, Clocks
  <1>3. early \subseteq early' /\ early' \subseteq Watched
    BY DEF TimerInv, TypeOK
  <1>4. QED
    BY <1>2, <1>3, SameTimes

\* What main does to the timer thread, and to the time its timers count.
LEMMA StartNextTimers ==
    ASSUME TimerInv, IInv, NEW next \in 1 .. Len(Program) + 1, StartNext(next),
           servertype' = servertype
    PROVE  /\ TimerWaits'
           /\ checked => thread'["timer"].at = "looping"
           /\ step' \in 0 .. Len(Program) + 1
           /\ UNCHANGED <<conns, checked, iter, lag, waited, fate, early>>
           /\ checked /\ "timer" \notin early => "timer" \notin Started \union PassedOver(next)
  <1>1. /\ next > step /\ step' = next /\ Len(Program) \in Nat
        /\ UNCHANGED <<conns, checked, iter, lag, waited, fate, early>>
        /\ step \in Nat /\ servertype \in {"SUPER_PEER", "TRACKER"}
    <2>1. Len(Program) \in Nat /\ servertype \in {"SUPER_PEER", "TRACKER"} /\ step \in Nat
      BY SuperPeerProgram, TrackerProgram DEF IInv, Types
    <2>2. QED
      BY <2>1 DEF StartNext
  <1>2. step' \in 0 .. Len(Program) + 1
    BY <1>1
  <1> DEFINE created == IF next \in DOMAIN Program THEN {Program[next]} ELSE {}
             t == thread["timer"]
  <1>3. t \in RsThread /\ thread'["timer"] = IF "timer" \in Started THEN let_run(t)
                                             ELSE IF "timer" \in created THEN thread_create(t)
                                             ELSE t
    <2>1. "timer" \in Threads
      BY DEF Threads, Others
    <2>2. QED
      BY <2>1 DEF StartNext, IInv, Types
  <1>4. /\ step < 3 \/ servertype = "TRACKER" => t.at = "not_created"
        /\ t.at \in {"created", "waiting"} => t.loop_flag
        /\ "timer" \notin early =>
            /\ t.can_run = "true" => step > 3
            /\ t.at = "looping" => t.can_run = "true"
        /\ checked => t.at = "looping"
    BY DEF TimerInv, TimerWaits, Clocks
  <1> HIDE DEF t
  <1>5. CASE servertype = "TRACKER"
    <2>1. "timer" \notin Started /\ "timer" \notin created
      <3>1. \A i \in DOMAIN Program : Program[i] # "timer"
        BY <1>5 DEF Program
      <3>2. step = 0 \/ step \in DOMAIN Program
        <4>1. DOMAIN Program = 1 .. 2 /\ Len(Program) = 2
          BY <1>5, TrackerProgram
        <4>2. next \in 1 .. 3
          BY <4>1
        <4>3. QED
          BY <1>1, <4>1, <4>2
      <3>3. QED
        BY <3>1, <3>2 DEF Started
    <2>2. thread'["timer"] = t
      BY <1>3, <2>1
    <2>3. TimerWaits'
      BY <1>1, <1>4, <1>5, <2>2 DEF TimerWaits
    <2>4. ~ checked
      BY <1>4, <1>5
    <2>5. QED
      BY <1>1, <1>2, <2>3, <2>4
  <1>6. CASE servertype = "SUPER_PEER"
    <2>1. /\ "timer" \in Started <=> step = 3
          /\ "timer" \in created <=> next = 3
          /\ "timer" \in PassedOver(next) => step < 3
      <3>1. /\ DOMAIN Program = 1 .. 4 /\ Len(Program) = 4
            /\ \A i \in 1 .. 4 : Program[i] = "timer" <=> i = 3
        BY <1>6, SuperPeerProgram
      <3>2. step \in 0 .. 4 /\ next \in 1 .. 5
        BY <1>1, <3>1
      <3>3. QED
        BY <3>1, <3>2 DEF Started, PassedOver
    <2>2. CASE step = 3
      <3>1. /\ thread'["timer"].at = t.at /\ thread'["timer"].loop_flag = t.loop_flag
            /\ thread'["timer"].can_run = "true"
        BY <1>3, <2>1, <2>2, ThreadFields
      <3>2. /\ step' > 3 /\ ~ (step' < 3)
            /\ "timer" \notin early => t.at # "looping"
        BY <1>1, <1>4, <2>2
      <3>3. TimerWaits'
        BY <1>1, <1>4, <1>6, <3>1, <3>2 DEF TimerWaits
      <3>4. QED
        BY <1>1, <1>2, <1>4, <3>1, <3>2, <3>3
    <2>3. CASE next = 3
      <3>1. /\ thread'["timer"].at = "created" /\ thread'["timer"].loop_flag
            /\ thread'["timer"].can_run = t.can_run
        BY <1>1, <1>3, <2>1, <2>3, ThreadFields
      <3>2. step < 3 /\ step' = 3 /\ ~ (step > 3)
        BY <1>1, <2>3
      <3>3. TimerWaits' /\ ~ checked
        BY <1>1, <1>4, <1>6, <3>1, <3>2 DEF TimerWaits
      <3>4. QED
        BY <1>1, <1>2, <3>3
    <2>4. CASE step # 3 /\ next # 3
      <3>1. thread'["timer"] = t
        BY <1>3, <2>1, <2>4
      <3>2. /\ step' < 3 => step < 3
            /\ step > 3 => step' > 3
        BY <1>1
      <3>3. TimerWaits'
        BY <1>1, <1>4, <1>6, <3>1, <3>2 DEF TimerWaits
      <3>4. checked /\ "timer" \notin early => "timer" \notin Started \union PassedOver(next)
        <4>1. checked => ~ (step < 3)
          BY <1>4
        <4>2. QED
          BY <2>1, <2>4, <4>1
      <3>5. QED
        BY <1>1, <1>2, <1>4, <3>1, <3>3, <3>4
    <2>5. QED
      BY <2>2, <2>3, <2>4
  <1>7. QED
    BY <1>1, <1>5, <1>6

LEMMA MainTimers ==
    ASSUME TimerInv, IInv, IInv', Main
    PROVE  TimerInv'
  <1>1. PICK next \in 1 .. Len(Program) + 1 : SuperPeerMain(next) \/ TrackerMain(next)
    BY DEF Main
  <1>2. StartNext(next) /\ servertype' = servertype /\ Program' = Program
    BY <1>1 DEF SuperPeerMain, TrackerMain, StartNext, Program
  <1>3. /\ TimerWaits'
        /\ checked => thread'["timer"].at = "looping"
        /\ step' \in 0 .. Len(Program) + 1
        /\ UNCHANGED <<accepting, owner, checked, iter, lag, waited, up, crash, early>>
        /\ checked /\ "timer" \notin early => "timer" \notin Started \union PassedOver(next)
    BY <1>2, StartNextTimers DEF conns, fate
  <1>4. /\ \/ timer_vector' = timer_vector
           \/ timer_vector' = add_timers /\ "timer" \in Started \union PassedOver(next)
        /\ tracker_made' \subseteq UdpListeners
    <2>1. CASE SuperPeerMain(next)
      BY <2>1 DEF SuperPeerMain, TimerInv, TypeOK
    <2>2. CASE TrackerMain(next)
      <3>1. /\ \A i \in DOMAIN Program : Program[i] \in UdpListeners
            /\ DOMAIN Program = 1 .. 2 /\ Len(Program) = 2
        BY <2>2, TrackerProgram DEF TrackerMain, Program, UdpListeners
      <3>2. step \in 0 .. 2 /\ next \in 1 .. 3
        BY <1>2, <3>1 DEF StartNext, IInv, Types
      <3>3. Started \subseteq UdpListeners /\ PassedOver(next) \subseteq UdpListeners
        BY <3>1, <3>2 DEF Started, PassedOver
      <3>4. QED
        BY <2>2, <3>3 DEF TrackerMain, TimerInv, TypeOK
    <2>3. QED
      BY <1>1, <2>1, <2>2
  <1>5. timer_vector' = << >> \/ timer_vector' \in [Timers -> 0 .. MaxTimeout]
    <2>1. add_timers \in [Timers -> 0 .. MaxTimeout]
      BY Timeouts DEF add_timers
    <2>2. QED
      BY <1>4, <2>1 DEF TimerInv, TypeOK
  <1>6. TypeOK'
    BY <1>2, <1>3, <1>4, <1>5 DEF TimerInv, TypeOK, IInv, Types
  <1>7. Clocks'
    BY <1>3, <1>4 DEF TimerInv, Clocks
  <1>8. QED
    BY <1>3, <1>6, <1>7 DEF TimerInv

\* While check_timeout waits for a handler the time that passes is kept apart.
LEMMA TickTimers ==
    ASSUME TimerInv, IInv', NEW delay \in Nat, Tick(delay)
    PROVE  TimerInv'
  <1>1. /\ UNCHANGED <<start, thread, conns, checked, iter, fate, early>>
        /\ waited' = IF timer_vector = << >> THEN waited
                     ELSE [i \in Timers |-> AtMost(i, waited[i] + delay)]
        /\ iter = 0 => /\ timer_vector' = [i \in DOMAIN timer_vector |->
                                            AtMost(i, timer_vector[i] + delay)]
                       /\ lag' = lag
        /\ iter # 0 => /\ lag' = Min({lag + delay, MaxTimeout})
                       /\ timer_vector' = timer_vector
    BY DEF Tick
  <1>2. /\ MaxTimeout \in Nat /\ lag \in Nat /\ lag <= MaxTimeout
        /\ \A i \in Timers : waited[i] \in Nat /\ waited[i] <= Timeout[i]
        /\ \A i \in DOMAIN timer_vector : i \in Timers /\ timer_vector[i] \in Nat
        /\ \A i \in Timers : Timeout[i] \in Nat /\ Timeout[i] <= MaxTimeout
    <2>1. /\ MaxTimeout \in Nat /\ \A i \in Timers : Timeout[i] \in Nat /\ Timeout[i] <= MaxTimeout
      BY Timeouts
    <2>2. \A i \in Timers : waited[i] <= Timeout[i] /\ waited[i] \in 0 .. MaxTimeout
      BY DEF TimerInv, TypeOK, Clocks
    <2>3. \A i \in DOMAIN timer_vector : i \in Timers /\ timer_vector[i] \in Nat
      BY <2>1 DEF TimerInv, TypeOK
    <2>4. lag \in 0 .. MaxTimeout
      BY DEF TimerInv, TypeOK
    <2>5. QED
      BY <2>1, <2>2, <2>3, <2>4
  <1>3. waited' \in [Timers -> 0 .. MaxTimeout] /\ \A i \in Timers : waited'[i] <= Timeout[i]
    <2>1. CASE timer_vector = << >>
      BY <1>1, <1>2, <2>1 DEF TimerInv, TypeOK
    <2>2. CASE timer_vector # << >>
      <3>1. ASSUME NEW i \in Timers
            PROVE  AtMost(i, waited[i] + delay) \in 0 .. MaxTimeout
                   /\ AtMost(i, waited[i] + delay) <= Timeout[i]
        <4>1. waited[i] + delay \in Nat
          BY <1>2
        <4>2. QED
          BY <1>2, <4>1, AtMostFacts
      <3>2. QED
        BY <1>1, <2>2, <3>1
    <2>3. QED
      BY <2>1, <2>2
  <1>4. lag' \in 0 .. MaxTimeout /\ (iter = 0 => lag' = 0)
        /\ (iter # 0 => lag' <= lag + delay)
    <2>1. CASE iter = 0
      BY <1>1, <1>2, <2>1 DEF TimerInv, Clocks
    <2>2. CASE iter # 0
      <3> DEFINE S == {lag + delay, MaxTimeout}
      <3>1. S \in SUBSET Nat /\ S # {}
        BY <1>2
      <3>2. Min(S) \in S /\ \A y \in S : Min(S) <= y
        <4> HIDE DEF S
        <4>1. QED
          BY <3>1, MinIsLeast
      <3>3. QED
        BY <1>1, <1>2, <2>2, <3>2
    <2>3. QED
      BY <2>1, <2>2
  <1>5. /\ timer_vector' = << >> \/ timer_vector' \in [Timers -> 0 .. MaxTimeout]
        /\ DOMAIN timer_vector' = DOMAIN timer_vector
    <2>1. CASE iter = 0
      <3>1. ASSUME NEW i \in DOMAIN timer_vector
            PROVE  AtMost(i, timer_vector[i] + delay) \in 0 .. MaxTimeout
        <4>1. timer_vector[i] + delay \in Nat /\ i \in Timers
          BY <1>2
        <4>2. QED
          BY <1>2, <4>1, AtMostFacts
      <3>2. CASE timer_vector = << >>
        <4>1. DOMAIN timer_vector = {}
          BY <3>2
        <4>2. timer_vector' = << >>
          BY <1>1, <2>1, <4>1
        <4>3. QED
          BY <3>2, <4>2
      <3>3. CASE timer_vector \in [Timers -> 0 .. MaxTimeout]
        BY <1>1, <2>1, <3>1, <3>3
      <3>4. QED
        BY <3>2, <3>3 DEF TimerInv, TypeOK
    <2>2. CASE iter # 0
      BY <1>1, <2>2 DEF TimerInv, TypeOK
    <2>3. QED
      BY <2>1, <2>2
  <1>6. TypeOK'
    <2>1. Program' = Program
      BY <1>1 DEF start, Program
    <2>2. QED
      BY <1>1, <1>3, <1>4, <1>5, <2>1 DEF TimerInv, TypeOK, IInv, Types, start, conns, fate
  <1>7. TimerWaits'
    BY <1>1 DEF TimerInv, TimerWaits, start
  <1>8. ASSUME checked, "timer" \notin early, NEW i \in DOMAIN timer_vector
        PROVE  AtMost(i, timer_vector'[i] + lag') <= waited'[i]
    <2>1. /\ i \in Timers /\ timer_vector[i] \in Nat /\ waited[i] \in Nat
          /\ Timeout[i] \in Nat /\ lag \in Nat /\ lag' \in Nat
          /\ AtMost(i, timer_vector[i] + lag) <= waited[i]
      BY <1>2, <1>4, <1>8 DEF TimerInv, Clocks
    <2>2. waited'[i] = AtMost(i, waited[i] + delay)
      <3>1. timer_vector # << >>
        BY <1>8
      <3>2. QED
        BY <1>1, <2>1, <3>1
    <2>3. PICK tv, l, w, w2, tv2, l2 :
                /\ tv = timer_vector[i] /\ l = lag /\ w = waited[i] /\ w2 = waited'[i]
                /\ tv2 = timer_vector'[i] /\ l2 = lag'
      OBVIOUS
    <2>4. /\ tv \in Nat /\ l \in Nat /\ w \in Nat /\ l2 \in Nat
          /\ tv + l \in Nat /\ w + delay \in Nat
      BY <2>1, <2>3
    <2>5. tv2 \in Nat /\ tv2 + l2 <= tv + l + delay /\ tv2 + l2 \in Nat
      <3>1. CASE iter = 0
        <4>1. tv2 = AtMost(i, tv + delay) /\ l2 = 0 /\ l = 0
          BY <1>1, <1>4, <2>3, <3>1 DEF TimerInv, Clocks
        <4>2. tv + delay \in Nat
          BY <2>4
        <4>3. tv2 \in Nat /\ tv2 <= tv + delay
          BY <2>1, <4>1, <4>2, AtMostFacts
        <4>4. QED
          BY <2>4, <4>1, <4>3
      <3>2. CASE iter # 0
        <4>1. tv2 = tv /\ l2 <= l + delay
          BY <1>1, <1>4, <2>3, <3>2
        <4>2. QED
          BY <2>4, <4>1
      <3>3. QED
        BY <3>1, <3>2
    <2>6. PICK a, b, c : /\ a = AtMost(i, tv + l) /\ b = AtMost(i, w + delay)
                         /\ c = AtMost(i, tv2 + l2)
      OBVIOUS
    <2>7. /\ a \in Nat /\ (a = tv + l \/ a = Timeout[i])
          /\ b \in Nat /\ (b = w + delay \/ b = Timeout[i])
          /\ c \in Nat /\ c <= tv2 + l2 /\ c <= Timeout[i]
          /\ a <= w /\ w <= Timeout[i]
      <3>1. a \in Nat /\ (a = tv + l \/ a = Timeout[i])
        BY <2>1, <2>4, <2>6, AtMostFacts
      <3>2. b \in Nat /\ (b = w + delay \/ b = Timeout[i])
        BY <2>1, <2>4, <2>6, AtMostFacts
      <3>3. c \in Nat /\ c <= tv2 + l2 /\ c <= Timeout[i]
        BY <2>1, <2>5, <2>6, AtMostFacts
      <3>4. a <= w /\ w <= Timeout[i]
        BY <1>2, <2>1, <2>3, <2>6
      <3>5. QED
        BY <3>1, <3>2, <3>3, <3>4
    <2>8. c <= b
      <3>1. PICK m \in Nat : m = Timeout[i]
        BY <2>1
      <3>2. /\ a = tv + l \/ a = m
            /\ b = w + delay \/ b = m
            /\ c <= tv2 + l2 /\ c <= m /\ a <= w /\ w <= m
        BY <2>7, <3>1
      <3>3. a \in Nat /\ b \in Nat /\ c \in Nat
        BY <2>7
      <3>4. QED
        BY <2>4, <2>5, <3>2, <3>3
    <2>9. QED
      BY <2>2, <2>3, <2>6, <2>8
  <1>9. Clocks'
    BY <1>1, <1>3, <1>4, <1>5, <1>8 DEF TimerInv, Clocks
  <1>10. QED
    BY <1>6, <1>7, <1>9 DEF TimerInv

LEMMA EnterLoopTimers ==
    ASSUME TimerInv, IInv, IInv', NEW x \in Threads, EnterLoop(x)
    PROVE  TimerInv'
  <1>1. /\ UNCHANGED <<start, conns, timing, fate>> /\ thread[x].at = "created"
        /\ UNCHANGED <<servertype, step, owner, up, crash>>
    BY DEF EnterLoop, start, conns, fate
  <1>2. PICK can_run \in Readings(thread[x]) :
            /\ thread' = [thread EXCEPT ![x] = enter_loop(thread[x], can_run)]
            /\ early' = IF can_run = "true" /\ thread[x].can_run = "unset"
                        THEN early \union ({x} \intersect Watched) ELSE early
    BY DEF EnterLoop
  <1>3. thread \in [Threads -> RsThread] /\ thread[x] \in RsThread
    BY DEF IInv, Types
  <1>4. early \subseteq early' /\ early' \subseteq Watched
    BY <1>2 DEF TimerInv, TypeOK
  <1>5. CASE x # "timer"
    <2>1. /\ thread'["timer"] = thread["timer"]
          /\ "timer" \in early' <=> "timer" \in early
      <3>1. "timer" \in Threads
        BY DEF Threads, Others
      <3>2. QED
        BY <1>2, <1>3, <1>5, <3>1
    <2>2. TimerWaits' /\ (checked => thread'["timer"].at = "looping")
      BY <1>1, <2>1 DEF TimerInv, TimerWaits, Clocks
    <2>3. QED
      BY <1>1, <1>4, <2>2, SameTimes DEF TimerInv, TypeOK
  <1>6. CASE x = "timer"
    <2>1. /\ can_run \in {"false", "true"}
          /\ thread[x].can_run # "unset" => can_run = thread[x].can_run
      BY <1>3 DEF Readings, RsThread
    <2>2. /\ thread'[x].can_run = can_run
          /\ thread'[x].loop_flag = thread[x].loop_flag
          /\ thread'[x].at = IF can_run = "false" /\ thread[x].loop_flag
                             THEN "waiting" ELSE "looping"
      BY <1>2, <1>3, <2>1, ThreadFields
    <2>3. /\ ~ checked /\ thread[x].loop_flag
          /\ ~ (step < 3) /\ servertype # "TRACKER"
          /\ "timer" \notin early => (thread[x].can_run = "true" => step > 3)
      BY <1>1, <1>6 DEF TimerInv, TimerWaits, Clocks
    <2>4. "timer" \in early' \/ thread[x].can_run # "unset" \/ can_run = "false"
      BY <1>2, <1>6, <2>1 DEF Watched
    <2>5. TimerWaits'
      BY <1>1, <1>4, <1>6, <2>1, <2>2, <2>3, <2>4 DEF TimerWaits
    <2>6. QED
      BY <1>1, <1>4, <2>3, <2>5, SameTimes DEF TimerInv, TypeOK
  <1>7. QED
    BY <1>5, <1>6

LEMMA BeginLoopTimers ==
    ASSUME TimerInv, IInv, IInv', NEW x \in Threads, BeginLoop(x)
    PROVE  TimerInv'
  <1>1. /\ UNCHANGED <<start, timing, early>> /\ MayLoop(thread[x])
        /\ UNCHANGED <<servertype, step, owner>>
        /\ thread' = [thread EXCEPT ![x] = begin_loop(thread[x])]
        /\ up' \in BOOLEAN /\ crash' \in {"none", "no_tracker", "no_io", "deleted"}
    BY DEF BeginLoop, start, conns, Finds, fate, TimerInv, TypeOK
  <1>2. thread \in [Threads -> RsThread] /\ thread[x] \in RsThread
    BY DEF IInv, Types
  <1>3. early \subseteq early' /\ early' \subseteq Watched /\ owner' = owner
    BY <1>1 DEF TimerInv, TypeOK
  <1>4. CASE x # "timer"
    <2>1. thread'["timer"] = thread["timer"]
      <3>1. "timer" \in Threads
        BY DEF Threads, Others
      <3>2. QED
        BY <1>1, <1>2, <1>4, <3>1
    <2>2. QED
      BY <1>1, <2>1, OtherThreadTimes DEF TimerInv, TypeOK
  <1>5. CASE x = "timer"
    <2>1. /\ thread'[x].can_run = thread[x].can_run
          /\ thread'[x].loop_flag = thread[x].loop_flag
          /\ thread'[x].at = "looping"
      BY <1>1, <1>2, ThreadFields
    <2>2. thread[x].at = "waiting" /\ (thread[x].can_run = "true" \/ ~ thread[x].loop_flag)
      BY <1>1 DEF MayLoop
    <2>3. TimerWaits'
      BY <1>1, <1>5, <2>1, <2>2 DEF TimerInv, TimerWaits
    <2>4. QED
      BY <1>1, <1>3, <1>5, <2>1, <2>3, SameTimes DEF TimerInv, TypeOK
  <1>6. QED
    BY <1>4, <1>5

\* Connections and listeners have nothing to do with the timers.
LEMMA OthersTimers ==
    ASSUME TimerInv, IInv, IInv',
           \/ \E c \in Conns : ConnectionRuns(c) \/ ConnectionEnds(c)
           \/ \E l \in TcpListeners, c \in Conns : Accept(l, c)
           \/ \E l \in TcpListeners : Accepted(l)
           \/ \E l \in UdpListeners : HandleUdpPacket(l)
    PROVE  TimerInv'
  <1>1. /\ UNCHANGED <<start, timing, early>>
        /\ up' \in BOOLEAN /\ crash' \in {"none", "no_tracker", "no_io", "deleted"}
    BY DEF ConnectionRuns, ConnectionEnds, Accept, Accepted, HandleUdpPacket, Finds,
           fate, TimerInv, TypeOK
  <1>2. owner' \in [Conns -> {"none", "handle_tcp_connect", "np_sp_protocol_vector", "deleted"}]
    BY DEF ConnectionRuns, ConnectionEnds, Accept, Accepted, HandleUdpPacket, conns,
           OwnerAfter, TimerInv, TypeOK
  <1>3. thread'["timer"] = thread["timer"]
    <2>1. "timer" \in Threads /\ \A c \in Conns : c # "timer"
      BY ServerAssumption DEF Threads, Others
    <2>2. thread \in [Threads -> RsThread]
      BY DEF IInv, Types
    <2>3. \A l \in TcpListeners : accepting[l] # NoConn => accepting[l] \in Conns
      BY DEF IInv, Types
    <2>4. \/ UNCHANGED thread
          \/ \E c \in Conns : \E t : thread' = [thread EXCEPT ![c] = t]
      BY <2>3 DEF ConnectionRuns, ConnectionEnds, Accept, Accepted, HandleUdpPacket
    <2>5. QED
      BY <2>1, <2>2, <2>4
  <1>4. QED
    BY <1>1, <1>2, <1>3, OtherThreadTimes

\* check_timeout goes on with timers that count no longer than they may.
LEMMA CheckFromTimers ==
    ASSUME TimerInv, IInv', NEW i \in Nat, NEW timers, CheckFrom(i, timers),
           UNCHANGED <<start, thread, conns, waited, early>>, checked' = TRUE,
           thread["timer"].at = "looping",
           timers = << >> \/ timers \in [Timers -> 0 .. MaxTimeout],
           "timer" \notin early =>
                \A j \in DOMAIN timers : AtMost(j, timers[j] + lag) <= waited[j]
    PROVE  TimerInv'
  <1> DEFINE due == {j \in DOMAIN timers : j >= i /\ timers[j] >= Timeout[j]}
             after == [j \in DOMAIN timers |-> AtMost(j, timers[j] + lag)]
  <1>1. /\ due = {} => iter' = 0 /\ lag' = 0 /\ timer_vector' = after
        /\ due # {} => iter' = Min(due) /\ lag' = lag /\ timer_vector' = timers
        /\ up' \in BOOLEAN /\ crash' \in {"none", "no_tracker", "no_io", "deleted"}
    BY DEF CheckFrom, fate, TimerInv, TypeOK
  <1>2. /\ UNCHANGED <<servertype, step, tracker_made, io, accepting, owner>>
        /\ Program' = Program
    BY DEF start, conns, Program
  <1>3. /\ MaxTimeout \in Nat /\ lag \in Nat /\ lag \in 0 .. MaxTimeout /\ 0 \notin Timers
        /\ \A j \in DOMAIN timers : j \in Timers /\ j \in Nat /\ timers[j] \in Nat
        /\ 0 \in 0 .. MaxTimeout
    <2>1. MaxTimeout \in Nat /\ lag \in 0 .. MaxTimeout /\ Timers = 1 .. Len(Timeout)
          /\ Len(Timeout) \in Nat
      BY Timeouts DEF TimerInv, TypeOK
    <2>2. \A j \in DOMAIN timers : j \in Timers /\ timers[j] \in 0 .. MaxTimeout
      OBVIOUS
    <2>3. QED
      BY <2>1, <2>2
  <1>4. ASSUME NEW j \in DOMAIN timers
        PROVE  /\ after[j] \in 0 .. MaxTimeout /\ after[j] \in Nat
               /\ AtMost(j, after[j]) <= after[j]
               /\ after[j] = AtMost(j, timers[j] + lag)
    <2>1. timers[j] + lag \in Nat /\ j \in Timers
      BY <1>3
    <2>2. after[j] = AtMost(j, timers[j] + lag)
      OBVIOUS
    <2>3. after[j] \in Nat /\ after[j] <= MaxTimeout
      BY <2>1, <2>2, AtMostFacts
    <2> HIDE DEF after
    <2>4. QED
      BY <1>3, <2>1, <2>2, <2>3, AtMostFacts
  <1>5. after = << >> \/ after \in [Timers -> 0 .. MaxTimeout]
    <2>1. CASE timers = << >>
      <3>1. DOMAIN timers = {}
        BY <2>1
      <3>2. QED
        BY <3>1
    <2>2. CASE timers \in [Timers -> 0 .. MaxTimeout]
      BY <1>4, <2>2
    <2>3. QED
      BY <2>1, <2>2
  <1>6. due # {} => Min(due) \in due /\ Min(due) \in Timers /\ Min(due) # 0
    <2>1. due \in SUBSET Nat
      BY <1>3
    <2>2. due # {} => Min(due) \in due
      <3> HIDE DEF due
      <3>1. QED
        BY <2>1, MinIsLeast
    <2>3. QED
      BY <1>3, <2>2
  <1>7. /\ timer_vector' = << >> \/ timer_vector' \in [Timers -> 0 .. MaxTimeout]
        /\ iter' \in Timers \union {0} /\ lag' \in 0 .. MaxTimeout
        /\ iter' = 0 => lag' = 0
    BY <1>1, <1>3, <1>5, <1>6
  <1>8. "timer" \notin early =>
            \A j \in DOMAIN timer_vector' :
                AtMost(j, timer_vector'[j] + lag') <= waited[j]
    <2>1. CASE due # {}
      BY <1>1, <2>1
    <2>2. CASE due = {}
      <3>1. ASSUME "timer" \notin early, NEW j \in DOMAIN timers
            PROVE  AtMost(j, after[j] + 0) <= waited[j]
        <4>1. after[j] + 0 = after[j]
          BY <1>4
        <4>2. /\ AtMost(j, after[j]) <= after[j] /\ after[j] <= waited[j]
              /\ after[j] \in Nat /\ j \in Timers
          BY <1>3, <1>4, <3>1
        <4>3. AtMost(j, after[j]) \in Nat /\ waited[j] \in Nat
          <5>1. waited[j] \in 0 .. MaxTimeout
            BY <4>2 DEF TimerInv, TypeOK
          <5>2. QED
            BY <1>3, <4>2, <5>1, AtMostFacts
        <4> HIDE DEF after
        <4>4. QED
          BY <4>1, <4>2, <4>3
      <3>2. QED
        BY <1>1, <2>2, <3>1
    <2>3. QED
      BY <2>1, <2>2
  <1>9. TypeOK'
    BY <1>1, <1>2, <1>7 DEF TimerInv, TypeOK, IInv, Types
  <1>10. TimerWaits'
    BY <1>2 DEF TimerInv, TimerWaits
  <1>11. Clocks'
    BY <1>7, <1>8 DEF TimerInv, Clocks
  <1>12. QED
    BY <1>9, <1>10, <1>11 DEF TimerInv

LEMMA CheckTimeoutTimers ==
    ASSUME TimerInv, IInv', CheckTimeout \/ HandlerReturns
    PROVE  TimerInv'
  <1>1. UNCHANGED <<start, thread, conns, waited, early>>
    BY DEF CheckTimeout, HandlerReturns
  <1>2. CASE CheckTimeout /\ checked
    <2>1. CheckFrom(1, timer_vector) /\ checked' = TRUE /\ thread["timer"].at = "looping"
      BY <1>2 DEF CheckTimeout
    <2>2. QED
      BY <1>1, <1>2, <2>1, CheckFromTimers DEF TimerInv, TypeOK, Clocks
  <1>3. CASE CheckTimeout /\ ~ checked
    <2>1. /\ checked' = TRUE /\ UNCHANGED <<iter, lag, fate>> /\ iter = 0
          /\ timer_vector' = [j \in DOMAIN timer_vector |-> 0]
          /\ thread["timer"].at = "looping"
      BY <1>3 DEF CheckTimeout
    <2>2. UNCHANGED <<servertype, step, tracker_made, io, accepting, owner, up, crash>>
          /\ Program' = Program
      BY <1>1, <2>1 DEF start, conns, fate, Program
    <2>3. /\ MaxTimeout \in Nat /\ 0 \in 0 .. MaxTimeout
          /\ \A j \in DOMAIN timer_vector : j \in Timers
          /\ lag = 0
      BY <2>1, Timeouts DEF TimerInv, TypeOK, Clocks
    <2>4. timer_vector' = << >> \/ timer_vector' \in [Timers -> 0 .. MaxTimeout]
      <3>1. CASE timer_vector = << >>
        <4>1. DOMAIN timer_vector = {}
          BY <3>1
        <4>2. QED
          BY <2>1, <4>1
      <3>2. CASE timer_vector \in [Timers -> 0 .. MaxTimeout]
        BY <2>1, <2>3, <3>2
      <3>3. QED
        BY <3>1, <3>2 DEF TimerInv, TypeOK
    <2>5. TypeOK'
      BY <1>1, <2>1, <2>2, <2>4 DEF TimerInv, TypeOK, IInv, Types
    <2>6. TimerWaits'
      BY <1>1, <2>2 DEF TimerInv, TimerWaits
    <2>7. ASSUME NEW j \in DOMAIN timer_vector
          PROVE  AtMost(j, 0 + 0) <= waited[j]
      <3>1. j \in Timers /\ waited[j] \in 0 .. MaxTimeout
        BY <2>3 DEF TimerInv, TypeOK
      <3>2. AtMost(j, 0) \in Nat /\ AtMost(j, 0) <= 0
        BY <3>1, AtMostFacts
      <3>3. QED
        BY <2>3, <3>1, <3>2
    <2>8. Clocks'
      <3>1. \A j \in DOMAIN timer_vector' : AtMost(j, timer_vector'[j] + lag') <= waited'[j]
        BY <1>1, <2>1, <2>3, <2>7
      <3>2. QED
        BY <1>1, <2>1, <2>3, <3>1 DEF TimerInv, Clocks
    <2>9. QED
      BY <2>5, <2>6, <2>8 DEF TimerInv
  <1>4. CASE HandlerReturns
    <2> DEFINE timers == [timer_vector EXCEPT ![iter] = 0]
    <2>1. CheckFrom(iter + 1, timers) /\ checked' = checked /\ iter # 0
      BY <1>4 DEF HandlerReturns
    <2>2. checked = TRUE /\ thread["timer"].at = "looping"
      BY <2>1 DEF TimerInv, TypeOK, Clocks
    <2>3. /\ iter \in Nat /\ iter + 1 \in Nat /\ MaxTimeout \in Nat /\ 0 \in 0 .. MaxTimeout
          /\ lag \in Nat /\ lag <= MaxTimeout
      BY Timeouts DEF TimerInv, TypeOK
    <2>4. timers = << >> \/ timers \in [Timers -> 0 .. MaxTimeout]
      <3>1. CASE timer_vector = << >>
        <4>1. DOMAIN timer_vector = {}
          BY <3>1
        <4>2. timers = << >>
          BY <4>1
        <4>3. QED
          BY <4>2
      <3>2. CASE timer_vector \in [Timers -> 0 .. MaxTimeout]
        BY <2>3, <3>2
      <3>3. QED
        BY <3>1, <3>2 DEF TimerInv, TypeOK
    <2>5. ASSUME "timer" \notin early, NEW j \in DOMAIN timers
          PROVE  AtMost(j, timers[j] + lag) <= waited[j]
      <3>1. /\ j \in DOMAIN timer_vector /\ j \in Timers /\ timer_vector[j] \in 0 .. MaxTimeout
            /\ waited[j] \in 0 .. MaxTimeout
        BY <2>5 DEF TimerInv, TypeOK
      <3>2. AtMost(j, timer_vector[j] + lag) <= waited[j]
        BY <2>2, <2>5, <3>1 DEF TimerInv, Clocks
      <3>3. CASE j # iter
        BY <3>1, <3>2, <3>3
      <3>4. CASE j = iter
        <4>1. timers[j] = 0
          BY <3>1, <3>4
        <4>2. AtMost(j, 0 + lag) <= AtMost(j, timer_vector[j] + lag)
          <5>1. PICK a, b, t : /\ a = AtMost(j, 0 + lag) /\ b = AtMost(j, timer_vector[j] + lag)
                               /\ t = timer_vector[j]
            OBVIOUS
          <5>2. t \in Nat /\ 0 + lag \in Nat /\ t + lag \in Nat
            BY <2>3, <3>1, <5>1
          <5>3. a \in Nat /\ a <= 0 + lag /\ a <= Timeout[j]
            BY <3>1, <5>1, <5>2, AtMostFacts
          <5>4. b \in Nat /\ (b = t + lag \/ b = Timeout[j])
            BY <3>1, <5>1, <5>2, AtMostFacts
          <5>5. a <= b
            BY <2>3, <5>2, <5>3, <5>4
          <5>6. QED
            BY <5>1, <5>5
        <4>3. /\ AtMost(j, 0 + lag) \in Nat /\ AtMost(j, timer_vector[j] + lag) \in Nat
              /\ waited[j] \in Nat
          <5>1. 0 + lag \in Nat /\ timer_vector[j] + lag \in Nat /\ waited[j] \in Nat
            BY <2>3, <3>1
          <5>2. QED
            BY <3>1, <5>1, AtMostFacts
        <4>4. AtMost(j, 0 + lag) <= waited[j]
          BY <3>2, <4>2, <4>3
        <4>5. QED
          BY <4>1, <4>4
      <3>5. QED
        BY <3>3, <3>4
    <2> HIDE DEF timers
    <2>6. QED
      BY <1>1, <2>1, <2>2, <2>3, <2>4, <2>5, CheckFromTimers
  <1>5. QED
    BY <1>2, <1>3, <1>4

LEMMA NextTimers == TimerInv /\ IInv /\ IInv' /\ [Next]_vars => TimerInv'
  <1> SUFFICES ASSUME TimerInv, IInv, IInv', [Next]_vars PROVE TimerInv'
    OBVIOUS
  <1>1. CASE Main
    BY <1>1, MainTimers
  <1>2. CASE Clock
    BY <1>2, TickTimers, ServerAssumption DEF Clock
  <1>3. CASE \E x \in Threads : EnterLoop(x) \/ BeginLoop(x)
    BY <1>3, EnterLoopTimers, BeginLoopTimers
  <1>4. CASE \/ \E c \in Conns : ConnectionRuns(c) \/ ConnectionEnds(c)
             \/ \E l \in TcpListeners : Accepted(l)
             \/ \E l \in UdpListeners : HandleUdpPacket(l)
    BY <1>4, OthersTimers
  <1>5. CASE \/ \E c \in NpConns : Accept("np_listener", c)
             \/ \E c \in CsConns : Accept("cs_listener", c)
    BY <1>5, OthersTimers DEF TcpListeners, Conns
  <1>6. CASE CheckTimeout \/ HandlerReturns
    BY <1>6, CheckTimeoutTimers
  <1>7. CASE UNCHANGED vars
    BY <1>7, OtherThreadTimes DEF vars, start, conns, timing, fate, TimerInv, TypeOK
  <1>8. QED
    BY <1>1, <1>2, <1>3, <1>4, <1>5, <1>6, <1>7 DEF Next

THEOREM TimerInvariance == Spec => []TimerInv
  BY InitTimers, NextTimers, Invariance, PTL DEF Spec

\* The threads, their owners, the timers and the clock stay what the code takes
\* them for.
THEOREM TypeCorrect == Spec => []TypeOK
  <1>1. TimerInv => TypeOK
    BY DEF TimerInv
  <1>2. QED
    BY <1>1, TimerInvariance, PTL

\* No timer is signalled before its timeout has passed since it was added, unless
\* the timer thread went on before main let it: for any number of timers and
\* however long the handlers keep check_timeout waiting.
THEOREM FirstSignalCorrect == Spec => FirstSignalWaits
  <1>1. ASSUME TimerInv, [Next]_vars
        PROVE  [\A i \in Timers :
                    (iter' = i /\ iter # i /\ "timer" \notin early) => waited[i] = Timeout[i]]_vars
    <2>1. ASSUME Next, NEW i \in Timers, iter' = i, iter # i, "timer" \notin early
          PROVE  waited[i] = Timeout[i]
      <3>1. /\ i # 0 /\ Timeout[i] \in Nat /\ MaxTimeout \in Nat
            /\ Timers = 1 .. Len(Timeout) /\ Len(Timeout) \in Nat
        BY Timeouts
      <3>2. CheckTimeout \/ HandlerReturns
        BY <2>1 DEF Next, Main, SuperPeerMain, TrackerMain, StartNext, Clock, Tick, EnterLoop,
                    BeginLoop, ConnectionRuns, ConnectionEnds, Accept, Accepted,
                    HandleUdpPacket, timing
      <3>3. checked
        BY <1>1, <2>1, <3>2 DEF CheckTimeout, HandlerReturns, TimerInv, Clocks
      <3>4. PICK k, timers :
                /\ k \in Nat
                /\ CheckFrom(k, timers)
                /\ DOMAIN timers = DOMAIN timer_vector
                /\ \A j \in DOMAIN timers : j >= k => timers[j] = timer_vector[j]
        <4>1. CASE CheckTimeout
          <5>1. CheckFrom(1, timer_vector)
            BY <3>3, <4>1 DEF CheckTimeout
          <5>2. QED
            BY <5>1
        <4>2. CASE HandlerReturns
          <5> DEFINE ts == [timer_vector EXCEPT ![iter] = 0]
          <5>1. CheckFrom(iter + 1, ts) /\ DOMAIN ts = DOMAIN timer_vector
            BY <4>2 DEF HandlerReturns
          <5>2. iter \in Nat /\ iter + 1 \in Nat
            BY <1>1, <3>1 DEF TimerInv, TypeOK
          <5>3. \A j \in DOMAIN ts : j >= iter + 1 => ts[j] = timer_vector[j]
            <6>1. \A j \in DOMAIN timer_vector : j \in Nat
              BY <1>1, <3>1 DEF TimerInv, TypeOK
            <6>2. QED
              BY <5>2, <6>1
          <5> HIDE DEF ts
          <5>4. QED
            BY <5>1, <5>2, <5>3
        <4>3. QED
          BY <3>2, <4>1, <4>2
      <3> DEFINE due == {j \in DOMAIN timers : j >= k /\ timers[j] >= Timeout[j]}
      <3>5. /\ due = {} => iter' = 0
            /\ due # {} => iter' = Min(due)
        BY <3>4 DEF CheckFrom
      <3>6. i \in due
        <4>1. due # {} /\ i = Min(due)
          BY <2>1, <3>1, <3>5
        <4>2. due \in SUBSET Nat
          <5>1. \A j \in DOMAIN timer_vector : j \in Nat
            BY <1>1, <3>1 DEF TimerInv, TypeOK
          <5>2. QED
            BY <3>4, <5>1
        <4> HIDE DEF due
        <4>3. QED
          BY <4>1, <4>2, MinIsLeast
      <3>7. i \in DOMAIN timer_vector /\ timer_vector[i] >= Timeout[i]
        BY <3>4, <3>6
      <3>8. AtMost(i, timer_vector[i] + lag) <= waited[i] /\ waited[i] <= Timeout[i]
        BY <1>1, <2>1, <3>3, <3>7 DEF TimerInv, Clocks
      <3>9. timer_vector[i] \in 0 .. MaxTimeout /\ lag \in 0 .. MaxTimeout
            /\ waited[i] \in 0 .. MaxTimeout
        BY <1>1, <3>7 DEF TimerInv, TypeOK
      <3>10. PICK a, t : a = AtMost(i, timer_vector[i] + lag) /\ t = timer_vector[i]
        OBVIOUS
      <3>11. t \in Nat /\ lag \in Nat /\ t + lag \in Nat /\ waited[i] \in Nat /\ t >= Timeout[i]
        BY <3>1, <3>7, <3>9, <3>10
      <3>12. a \in Nat /\ (a = t + lag \/ a = Timeout[i])
        BY <3>10, <3>11, AtMostFacts
      <3>13. a <= waited[i] /\ waited[i] <= Timeout[i]
        BY <3>8, <3>10
      <3>14. QED
        BY <3>1, <3>11, <3>12, <3>13
    <2>2. QED
      BY <1>1, <2>1
  <1>2. QED
    BY <1>1, TimerInvariance, PTL DEF Spec, FirstSignalWaits
====
