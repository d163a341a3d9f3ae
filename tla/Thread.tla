---- MODULE Thread ----
(***************************************************************************)
(* RsThread: a State Threads thread and the object it runs on.  The object *)
(* that starts the thread and the thread itself wait for each other with   *)
(* two flags: start_thread waits until the thread has set _cid, the thread *)
(* waits until start_thread has set can_run.  The constructor leaves       *)
(* can_run as the memory held it: "unset" until the thread reads it.       *)
(*                                                                         *)
(* State Threads switches only where a thread waits, so each operator here *)
(* is what runs from one wait to the next; at says where the thread waits. *)
(***************************************************************************)
EXTENDS Integers

RsThread ==
    [tid : BOOLEAN,
     cid : {-1, 0},
     loop_flag : BOOLEAN,
     can_run : {"unset", "false", "true"},
     at : {"not_created", "created", "waiting", "looping", "ended"}]

NewThread == [tid |-> FALSE, cid |-> -1, loop_flag |-> FALSE, can_run |-> "unset", at |-> "not_created"]

\* start_thread until it waits for the thread, which is in the run queue.
thread_create(t) == [t EXCEPT !.tid = TRUE, !.loop_flag = TRUE, !.at = "created"]

\* The thread that start_thread waits for has set its _cid.
CidReady(t) == t.cid >= 0

\* start_thread after that wait.
let_run(t) == [t EXCEPT !.can_run = "true"]

\* What thread_loop may read in can_run.
Readings(t) == IF t.can_run = "unset" THEN {"false", "true"} ELSE {t.can_run}

\* Mutant: the thread does not wait for can_run.
enter_loop_NoWait(t, can_run) == [t EXCEPT !.cid = 0, !.can_run = can_run, !.at = "looping"]

\* Mutant: the thread sets _cid when its wait for can_run is over.
enter_loop_CidLate(t, can_run) ==
    [t EXCEPT !.cid = IF can_run = "true" THEN 0 ELSE -1,
              !.can_run = can_run,
              !.at = IF can_run = "false" /\ t.loop_flag THEN "waiting" ELSE "looping"]

\* thread_loop until its first wait: for can_run, of which it reads the value
\* given, or in a loop().
enter_loop(t, can_run) ==
    [t EXCEPT !.cid = 0,
              !.can_run = can_run,
              !.at = IF can_run = "false" /\ t.loop_flag THEN "waiting" ELSE "looping"]

\* thread_loop that wakes from its wait for can_run.
MayLoop(t) == t.at = "waiting" /\ (t.can_run = "true" \/ ~t.loop_flag)
begin_loop(t) == [t EXCEPT !.at = "looping"]

\* thread_loop after a loop() that cleared loop_flag.
end_loop(t) == [t EXCEPT !.loop_flag = FALSE, !.at = "ended"]

=============================================================================
