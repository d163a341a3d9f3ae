---- MODULE Server ----
(***************************************************************************)
(* The processes: main() of the super peer and of the tracker, their       *)
(* managers, the listeners they start, RsTimer with the clock it reads,    *)
(* and who owns the object that a thread runs on.  What the threads do     *)
(* with their messages is in SuperPeer, SpTracker and NpTracker.           *)
(*                                                                         *)
(* All threads of a process are State Threads: one runs until it waits.    *)
(* An action is what one of them does from one wait to the next, and any   *)
(* thread that is not kept waiting may be the next to run.                 *)
(***************************************************************************)
EXTENDS Thread, Naturals, Sequences, FiniteSetsExt

CONSTANTS
    NpConns,        \* connections of players, each accepted once at most
    CsConns,        \* connections of capture servers, likewise
    NoConn,         \* a listener that is not in handle_tcp_connect
    Timeout,        \* TRACKER_TIMEOUT and TRACKER_GET_SP_LIST_TIMEOUT, in rounds of main
    MaxDelay        \* bound on how many rounds' time main may need for one

TcpListeners == {"np_listener", "cs_listener"}
UdpListeners == {"sp_udp_listener", "np_udp_listener"}
Others == {"timer", "trackerprotocol"}
Conns == NpConns \union CsConns
Threads == TcpListeners \union UdpListeners \union Others \union Conns

ASSUME ServerAssumption ==
    /\ NpConns \intersect CsConns = {}
    /\ Conns \intersect (TcpListeners \union UdpListeners \union Others) = {}
    /\ NoConn \notin Conns
    /\ Timeout \in Seq(Nat \ {0}) /\ Timeout # << >>
    /\ MaxDelay \in Nat \ {0}

VARIABLES
    servertype,     \* which of the two programs runs
    step,           \* the thread of Program that main waits for in start_thread
    thread,         \* the RsThread part of every object
    accepting,      \* the connection a listener waits for in start_thread
    owner,          \* what holds the unique_ptr of a connection
    tracker_made,   \* the listeners whose sp_tracker or np_tracker is not null
    io,             \* RsSpTrackerProtocol has its socket
    timer_vector,   \* RsTimer: per timer, curr - last_signal_time up to its timeout
    checked,        \* RsTimer: last_thread_time is not zero
    iter,           \* the timer whose handler check_timeout waits for, or 0
    lag,            \* what the clock moved on since check_timeout read it
    up,             \* the process runs
    crash,          \* what made it crash, or "none"
    early,          \* history: of Watched, those that read a true can_run nobody had set
    waited          \* history: per timer, how long ago it was added, up to its timeout

start == <<servertype, step, tracker_made, io>>
timing == <<timer_vector, checked, iter, lag, waited>>
conns == <<accepting, owner>>
fate == <<up, crash>>
vars == <<start, thread, conns, timing, fate, early>>

Program ==
    IF servertype = "SUPER_PEER"
    THEN <<"np_listener", "cs_listener", "timer", "trackerprotocol">>
    ELSE <<"sp_udp_listener", "np_udp_listener">>

Watched == UdpListeners \union {"timer"}
MainLoops == step = Len(Program) + 1
Timers == DOMAIN Timeout
MaxTimeout == Max({Timeout[i] : i \in Timers})

TypeOK ==
    /\ servertype \in {"SUPER_PEER", "TRACKER"}
    /\ step \in 0 .. Len(Program) + 1
    /\ thread \in [Threads -> RsThread]
    /\ accepting \in [TcpListeners -> Conns \union {NoConn}]
    /\ owner \in [Conns -> {"none", "handle_tcp_connect", "np_sp_protocol_vector", "deleted"}]
    /\ tracker_made \subseteq UdpListeners
    /\ io \in BOOLEAN
    /\ timer_vector = << >> \/ timer_vector \in [Timers -> 0 .. MaxTimeout]
    /\ checked \in BOOLEAN
    /\ iter \in Timers \union {0}
    /\ lag \in 0 .. MaxTimeout
    /\ up \in BOOLEAN
    /\ crash \in {"none", "no_tracker", "no_io", "deleted"}
    /\ early \subseteq Watched
    /\ waited \in [Timers -> 0 .. MaxTimeout]

AtMost(i, t) == Min({t, Timeout[i]})

Init ==
    /\ servertype \in {"SUPER_PEER", "TRACKER"}
    /\ step = 0
    /\ early = {}
    /\ thread = [x \in Threads |-> NewThread]
    /\ accepting = [l \in TcpListeners |-> NoConn]
    /\ owner = [c \in Conns |-> "none"]
    /\ tracker_made = {}
    /\ io = FALSE
    /\ timer_vector = << >>
    /\ checked = FALSE
    /\ iter = 0
    /\ lag = 0
    /\ up = TRUE
    /\ crash = "none"
    /\ waited = [i \in Timers |-> 0]

---------------------------------------------------------------------------
\* main() and start_listener, start_listen, start_connect, add_timer.  main
\* runs from the wait in one start_thread to the wait in the next or, past the
\* last, to the sleep of its loop.

\* The thread whose start_thread returns to main.
Started == IF step = 0 THEN {} ELSE {Program[step]}

\* Those main passes over: a listener whose socket cannot be opened, bound or
\* listened on, a tracker that cannot be connected, a thread that cannot be
\* created.  Nobody looks at what start_listener and start_connect return.
PassedOver(next) == {Program[i] : i \in step + 1 .. next - 1}

StartNext(next) ==
    LET created == IF next \in DOMAIN Program THEN {Program[next]} ELSE {}
    IN  /\ up
        /\ next > step
        /\ \A x \in Started : CidReady(thread[x])
        /\ step' = next
        /\ thread' = [x \in Threads |->
                IF x \in Started THEN let_run(thread[x])
                ELSE IF x \in created THEN thread_create(thread[x])
                ELSE thread[x]]
        /\ UNCHANGED <<servertype, conns, checked, iter, lag, waited, fate, early>>

\* Mutant: a second start_connect adds its timers again.
add_timers_Again == [i \in 1 .. 2 * Len(Timeout) |-> 1]

\* add_timer twice: last_signal_time is 0, which is longer ago than any timeout.
\* The second call finds thread_start_flag set by the first.
add_timers == [i \in Timers |-> Timeout[i]]

\* Whether socket_connect gets to the tracker.
socket_connect == BOOLEAN

\* start_connect makes io when it is connected, before it starts its thread.
NewIo(next) ==
    IF io \/ next = Len(Program) THEN {TRUE}
    ELSE IF "trackerprotocol" \in PassedOver(next) THEN socket_connect
    ELSE {FALSE}

SuperPeerMain(next) ==
    /\ servertype = "SUPER_PEER"
    /\ StartNext(next)
    /\ timer_vector' = IF "timer" \in Started \union PassedOver(next)
                       THEN add_timers ELSE timer_vector
    /\ io' \in NewIo(next)
    /\ UNCHANGED tracker_made

TrackerMain(next) ==
    /\ servertype = "TRACKER"
    /\ StartNext(next)
    /\ tracker_made' = tracker_made \union Started \union PassedOver(next)
    /\ UNCHANGED <<timer_vector, io>>

\* RsBaseServer::loop wakes up delay seconds later, and moves the cached time
\* that all others read.
Tick(delay) ==
    /\ up /\ MainLoops
    /\ waited' = IF timer_vector = << >> THEN waited
                 ELSE [i \in Timers |-> AtMost(i, waited[i] + delay)]
    /\ IF iter = 0
       THEN /\ timer_vector' = [i \in DOMAIN timer_vector |-> AtMost(i, timer_vector[i] + delay)]
            /\ lag' = lag
       ELSE /\ lag' = Min({lag + delay, MaxTimeout})
            /\ timer_vector' = timer_vector
    /\ UNCHANGED <<start, thread, conns, checked, iter, fate, early>>

---------------------------------------------------------------------------
\* thread_loop

\* A thread whose object was deleted finds in the freed memory what is left
\* there: it crashes, or it goes on, or it ends for a loop_flag that is false.
Deleted(x) == x \in Conns /\ owner[x] = "deleted"

Finds(x) ==
    \/ UNCHANGED fate
    \/ Deleted(x) /\ up' = FALSE /\ crash' = "deleted"

EnterLoop(x) ==
    /\ up
    /\ thread[x].at = "created"
    /\ \E can_run \in Readings(thread[x]) :
        /\ thread' = [thread EXCEPT ![x] = enter_loop(@, can_run)]
        /\ early' = IF can_run = "true" /\ thread[x].can_run = "unset"
                    THEN early \union ({x} \intersect Watched) ELSE early
    /\ UNCHANGED <<start, conns, timing, fate>>

BeginLoop(x) ==
    /\ up
    /\ MayLoop(thread[x])
    /\ thread' = [thread EXCEPT ![x] = begin_loop(@)]
    /\ Finds(x)
    /\ UNCHANGED <<start, conns, timing, early>>

\* loop() of a connection that goes on with its next read.
ConnectionRuns(c) ==
    /\ up
    /\ thread[c].at = "looping"
    /\ Finds(c)
    /\ UNCHANGED <<start, thread, conns, timing, early>>

\* loop() of a player's connection that found it dead clears its loop_flag.
ConnectionEnds(c) ==
    /\ up
    /\ \/ c \in NpConns /\ thread[c].at = "looping"
       \/ Deleted(c) /\ thread[c].at \in {"waiting", "looping"}
    /\ thread' = [thread EXCEPT ![c] = end_loop(@)]
    /\ UNCHANGED <<start, conns, timing, fate, early>>

---------------------------------------------------------------------------
\* Listeners

\* What handle_tcp_connect leaves of the unique_ptr it made.
OwnerAfter(l) == IF l = "np_listener" THEN "np_sp_protocol_vector" ELSE "deleted"

\* RsTcpListener::loop and handle_tcp_connect, until start_thread waits.  A
\* connection whose thread cannot be created is owned, or deleted, all the same.
Accept(l, c) ==
    /\ up
    /\ thread[l].at = "looping"
    /\ accepting[l] = NoConn
    /\ owner[c] = "none"
    /\ \/ /\ thread' = [thread EXCEPT ![c] = thread_create(@)]
          /\ accepting' = [accepting EXCEPT ![l] = c]
          /\ owner' = [owner EXCEPT ![c] = "handle_tcp_connect"]
       \/ /\ owner' = [owner EXCEPT ![c] = OwnerAfter(l)]
          /\ UNCHANGED <<thread, accepting>>
    /\ UNCHANGED <<start, timing, fate, early>>

\* The rest of handle_tcp_connect.
Accepted(l) ==
    LET c == accepting[l]
    IN  /\ up
        /\ c # NoConn
        /\ CidReady(thread[c])
        /\ thread' = [thread EXCEPT ![c] = let_run(@)]
        /\ accepting' = [accepting EXCEPT ![l] = NoConn]
        /\ owner' = [owner EXCEPT ![c] = OwnerAfter(l)]
        /\ UNCHANGED <<start, timing, fate, early>>

\* RsUdpListener::loop: handle_udp_packet of the managers calls into their
\* tracker object; with one, the packet is handled in SpTracker or NpTracker.
HandleUdpPacket(l) ==
    /\ up
    /\ thread[l].at = "looping"
    /\ IF l \in tracker_made
       THEN UNCHANGED fate
       ELSE up' = FALSE /\ crash' = "no_tracker"
    /\ UNCHANGED <<start, thread, conns, timing, early>>

---------------------------------------------------------------------------
\* RsTimer

\* check_timeout from timer i on, with timers: the next handler that is due
\* starts, and waits or crashes without a socket; after the last timer it ends.
CheckFrom(i, timers) ==
    LET due == {j \in DOMAIN timers : j >= i /\ timers[j] >= Timeout[j]}
    IN  IF due = {}
        THEN /\ iter' = 0
             /\ lag' = 0
             /\ timer_vector' = [j \in DOMAIN timers |-> AtMost(j, timers[j] + lag)]
             /\ UNCHANGED fate
        ELSE /\ iter' = Min(due)
             /\ timer_vector' = timers
             /\ lag' = lag
             /\ IF io THEN UNCHANGED fate ELSE up' = FALSE /\ crash' = "no_io"

\* Mutant: there is no first round.
CheckTimeout_NoFirst ==
    /\ up /\ thread["timer"].at = "looping" /\ iter = 0
    /\ checked' = TRUE
    /\ CheckFrom(1, timer_vector)
    /\ UNCHANGED <<start, thread, conns, waited, early>>

\* Mutant: last_thread_time is not set.
CheckTimeout_AlwaysFirst ==
    /\ up /\ thread["timer"].at = "looping" /\ iter = 0
    /\ timer_vector' = [j \in DOMAIN timer_vector |-> 0]
    /\ UNCHANGED <<start, thread, conns, checked, iter, lag, fate, waited, early>>

\* RsTimer::loop: the first round only sets last_signal_time.
CheckTimeout ==
    /\ up
    /\ thread["timer"].at = "looping"
    /\ iter = 0
    /\ checked' = TRUE
    /\ IF checked
       THEN CheckFrom(1, timer_vector)
       ELSE /\ timer_vector' = [j \in DOMAIN timer_vector |-> 0]
            /\ UNCHANGED <<iter, lag, fate>>
    /\ UNCHANGED <<start, thread, conns, waited, early>>

\* handle_timeout returns from its sleep or its write.
HandlerReturns ==
    /\ up
    /\ iter # 0
    /\ CheckFrom(iter + 1, [timer_vector EXCEPT ![iter] = 0])
    /\ UNCHANGED <<start, thread, conns, checked, waited, early>>

---------------------------------------------------------------------------
Main == \E next \in 1 .. Len(Program) + 1 : SuperPeerMain(next) \/ TrackerMain(next)
Clock == \E delay \in 1 .. MaxDelay : Tick(delay)

Next ==
    \/ Main
    \/ Clock
    \/ \E x \in Threads : EnterLoop(x) \/ BeginLoop(x)
    \/ \E c \in Conns : ConnectionRuns(c) \/ ConnectionEnds(c)
    \/ \E c \in NpConns : Accept("np_listener", c)
    \/ \E c \in CsConns : Accept("cs_listener", c)
    \/ \E l \in TcpListeners : Accepted(l)
    \/ \E l \in UdpListeners : HandleUdpPacket(l)
    \/ CheckTimeout
    \/ HandlerReturns

Spec == Init /\ [][Next]_vars

\* Every wait of main, of a thread that starts, of start_thread and of the
\* timer is a sleep or a write of a datagram, which ends.  Nothing is assumed of
\* peers: a connection need not come, and a read need not return.
FairSpec ==
    /\ Spec
    /\ WF_vars(Main)
    /\ WF_vars(Clock)
    /\ \A x \in Threads : WF_vars(EnterLoop(x) \/ BeginLoop(x))
    /\ \A l \in TcpListeners : WF_vars(Accepted(l))
    /\ WF_vars(CheckTimeout \/ HandlerReturns)

---------------------------------------------------------------------------
\* No handler runs before the object it works on is made.  start_listener makes
\* the tracker object after it started the listener's thread, and what keeps the
\* thread from its first packet is the wait for can_run, unless chance set it
\* for a listener that has no object yet.
\* start_connect adds the timers before it makes the socket they write to; they
\* find it all the same, unless the tracker could not be connected.
HandlersHaveTheirObjects ==
    /\ crash = "no_tracker" => (UdpListeners \intersect early) \ tracker_made # {}
    /\ crash = "no_io" => MainLoops /\ ~io

\* No timer is signalled before its timeout has passed since it was added:
\* add_timer leaves last_signal_time zero, and it is the first round of the
\* timer thread, which must not come before add_timer is done, that sets it.
FirstSignalWaits ==
    [][\A i \in Timers :
        (iter' = i /\ iter # i /\ "timer" \notin early) => waited[i] = Timeout[i]]_vars

\* start_thread and the thread it starts never keep each other waiting: every
\* thread that is created gets to its loop.
StartedThreadsLoop ==
    \A x \in Threads :
        thread[x].at = "created" ~> thread[x].at \in {"looping", "ended"} \/ ~up

\* While the process runs, every timer is signalled again and again.
TimersFireAgain ==
    \A i \in Timers :
        thread["timer"].at = "looping" /\ iter = 0 ~> iter = i \/ ~up

=============================================================================
