-------------------------------- MODULE Sender --------------------------------
(***************************************************************************)
(* The threads of the sender: main (core.c, start), the transmission thread *)
(* (tx.c) and the discovery thread (discover.c), with the condition         *)
(* variable of --wait and the two timer descriptors.                        *)
(*                                                                          *)
(* What the threads do with a datagram or an answer is in DataPlane and     *)
(* Discovery; here it is one step.  There is no clock: an armed timer may   *)
(* expire at any time, also while a handler is running.                     *)
(***************************************************************************)
EXTENDS Integers

CONSTANTS Options,    \* the settings argp.c may leave, see OptionsAssumption
          MaxReads    \* bound on the packets that are read from the TUN device

\* value and interval are dcvr_int.it_value and dcvr_int.it_interval, timeout is
\* dcvr_tout.it_interval; atoi may make any of them negative.
ASSUME OptionsAssumption ==
    /\ Options \subseteq [wait : BOOLEAN, value : Int, interval : Int, timeout : Int]
    /\ MaxReads \in Nat

VARIABLES opt,      \* the settings
          main,     \* where the main thread is
          tx, dx,   \* where the two other threads are
          timer,    \* the timer descriptors tint and tout
          inbox,    \* whether an answer waits at the MEADcast socket
          ready,    \* the events of the last epoll_wait that are not handled yet
          phase,    \* "open" from the discovery requests to the grouping
          started,  \* whether discovery requests were ever sent
          ended,    \* whether a phase ever ended
          traffic,  \* whether data for the group was ever read
          todo,     \* whether data for the group was read and is not sent yet
          nread     \* packets read

main_vars == <<main, opt>>
tx_vars == <<tx, traffic, todo, nread>>
dx_vars == <<dx, timer, inbox, ready, phase, started, ended>>
vars == <<main_vars, tx_vars, dx_vars>>

Timers == {"tint", "tout"}
Timer == [armed : BOOLEAN, periodic : BOOLEAN, expired : BOOLEAN]

TypeOK ==
    /\ opt \in Options
    /\ main \in {"start_tx", "start_dx", "join_tx", "join_dx", "exit"}
    /\ tx \in {"none", "wait", "signal", "read", "send", "ended"}
    /\ dx \in {"none", "enter", "blocked", "timers", "loop", "tint", "tint_flip",
               "tout", "tout_flip", "ended"}
    /\ timer \in [Timers -> Timer]
    /\ ready \subseteq Timers \cup {"mdc"}
    /\ phase \in {"idle", "open"}
    /\ nread \in 0 .. MaxReads
    /\ {inbox, started, ended, traffic, todo} \subseteq BOOLEAN

Init ==
    /\ opt \in Options
    /\ main = "start_tx"
    /\ tx = "none" /\ dx = "none"
    /\ timer = [t \in Timers |-> [armed |-> FALSE, periodic |-> FALSE, expired |-> FALSE]]
    /\ inbox = FALSE
    /\ ready = {}
    /\ phase = "idle"
    /\ started = FALSE /\ ended = FALSE
    /\ traffic = FALSE /\ todo = FALSE
    /\ nread = 0

\* The process ends when main returns, whatever the threads are doing.
Alive == main # "exit"

-----------------------------------------------------------------------------
\* core.c: start.

\* start_tx creates the transmission thread, which starts with tx_loop.
start_tx ==
    /\ main = "start_tx"
    /\ main' = "start_dx"
    /\ tx' = IF opt.wait THEN "wait" ELSE "read"
    /\ UNCHANGED <<opt, traffic, todo, nread, dx_vars>>

\* The discovery thread comes second.
create_dx ==
    /\ main = "start_dx"
    /\ main' = "join_tx"
    /\ dx' = "enter"
    /\ UNCHANGED <<opt, tx_vars, timer, inbox, ready, phase, started, ended>>

pthread_create_fails ==
    /\ main \in {"start_tx", "start_dx"}
    /\ main' = "exit"
    /\ UNCHANGED <<opt, tx_vars, dx_vars>>

pthread_join ==
    /\ \/ main = "join_tx" /\ tx = "ended" /\ main' = "join_dx"
       \/ main = "join_dx" /\ dx = "ended" /\ main' = "exit"
    /\ UNCHANGED <<opt, tx_vars, dx_vars>>

-----------------------------------------------------------------------------
\* tx.c: the transmission thread.

\* What read may return from the TUN device: data for the group, another IPv6
\* packet (the kernel itself sends some), a packet of another protocol.
Kinds == {"group", "ipv6", "other"}

\* wait_init_input: everything before the first data for the group is dropped.
wait_init_input(kind) ==
    /\ Alive /\ tx = "wait"
    /\ nread < MaxReads
    /\ nread' = nread + 1
    /\ tx' = IF kind = "group" THEN "signal" ELSE "wait"
    /\ traffic' = (traffic \/ kind = "group")
    /\ todo' = (todo \/ kind = "group")
    /\ UNCHANGED <<main_vars, dx_vars>>

\* Definitions named after another one, with a suffix, are that definition with a
\* slip a programmer could make; no specification uses them.
pthread_cond_signal_without_tx ==
    /\ Alive /\ tx = "signal"
    /\ dx' = IF dx = "blocked" THEN "timers" ELSE dx
    /\ tx' = "read"
    /\ UNCHANGED <<main_vars, traffic, todo, nread, timer, inbox, ready, phase,
                   started, ended>>

\* pthread_cond_signal wakes the discovery thread if it is waiting by now.
pthread_cond_signal ==
    /\ Alive /\ tx = "signal"
    /\ dx' = IF dx = "blocked" THEN "timers" ELSE dx
    /\ tx' = "send"
    /\ UNCHANGED <<main_vars, traffic, todo, nread, timer, inbox, ready, phase,
                   started, ended>>

\* _tx_loop sends every IPv6 packet to the group.
_tx_loop(kind) ==
    /\ Alive /\ tx = "read"
    /\ nread < MaxReads
    /\ nread' = nread + 1
    /\ tx' = IF kind \in {"group", "ipv6"} THEN "send" ELSE "read"
    /\ traffic' = (traffic \/ kind = "group")
    /\ todo' = (todo \/ kind = "group")
    /\ UNCHANGED <<main_vars, dx_vars>>

\* tx, in one step.
Transmit ==
    /\ Alive /\ tx = "send"
    /\ tx' = "read"
    /\ todo' = FALSE
    /\ UNCHANGED <<main_vars, traffic, nread, dx_vars>>

\* A failing read ends the wait for input, and ends _tx_loop and the thread.
read_error ==
    /\ Alive /\ tx \in {"wait", "read"}
    /\ tx' = IF tx = "wait" THEN "read" ELSE "ended"
    /\ UNCHANGED <<main_vars, traffic, todo, nread, dx_vars>>

-----------------------------------------------------------------------------
\* discover.c: start_dx.

\* With --wait the thread blocks on the condition variable, whatever has been
\* read so far.  Nobody else takes the mutex.
pthread_cond_wait ==
    /\ Alive /\ dx = "enter"
    /\ dx' = IF opt.wait THEN "blocked" ELSE "timers"
    /\ UNCHANGED <<main_vars, tx_vars, timer, inbox, ready, phase, started, ended>>

\* timerfd_settime: an initial value of 0 disarms the timer, an interval of 0
\* makes it fire once, and expirations not yet read are forgotten.
settime(value, periodic) ==
    [armed |-> value > 0, periodic |-> periodic, expired |-> FALSE]

\* init_timerfd for both timers: tout, whose it_value is 0, stays disarmed.
\* A negative time is refused, and the thread returns.
init_timerfd ==
    /\ Alive /\ dx = "timers"
    /\ IF opt.timeout < 0 \/ opt.interval < 0 \/ opt.value < 0
       THEN dx' = "ended" /\ UNCHANGED timer
       ELSE /\ dx' = "loop"
            /\ timer' = [tint |-> settime(opt.value, opt.interval > 0),
                         tout |-> settime(0, opt.timeout > 0)]
    /\ UNCHANGED <<main_vars, tx_vars, inbox, ready, phase, started, ended>>

-----------------------------------------------------------------------------
\* discover.c: the event loop.

Expire(t) ==
    /\ Alive /\ timer[t].armed
    /\ timer' = [timer EXCEPT ![t].expired = TRUE, ![t].armed = timer[t].periodic]
    /\ UNCHANGED <<main_vars, tx_vars, dx, inbox, ready, phase, started, ended>>

AnswerArrives ==
    /\ Alive /\ dx \notin {"none", "ended"}
    /\ inbox' = TRUE
    /\ UNCHANGED <<main_vars, tx_vars, dx, timer, ready, phase, started, ended>>

Readable == {t \in Timers : timer[t].expired} \cup (IF inbox THEN {"mdc"} ELSE {})

\* epoll_wait reports everything that is readable: there are ten places for
\* three descriptors.
epoll_wait ==
    /\ Alive /\ dx = "loop" /\ ready = {}
    /\ Readable # {}
    /\ ready' = Readable
    /\ UNCHANGED <<main_vars, tx_vars, dx, timer, inbox, phase, started, ended>>

dx_loop_without_socket(e) ==
    /\ Alive /\ dx = "loop"
    /\ e \in ready
    /\ ready' = ready \ {e}
    /\ dx' = e
    /\ UNCHANGED <<main_vars, tx_vars, timer, inbox, phase, started, ended>>

\* One turn of the loop over the events: a timer's handler is entered, or
\* rx_dcvr takes one answer, and there may be more.
dx_loop(e) ==
    /\ Alive /\ dx = "loop"
    /\ e \in ready
    /\ ready' = ready \ {e}
    /\ IF e = "mdc" THEN inbox' \in BOOLEAN /\ dx' = dx
                    ELSE inbox' = inbox /\ dx' = e
    /\ UNCHANGED <<main_vars, tx_vars, timer, phase, started, ended>>

\* The handlers first read the expirations of their timer, which blocks as long
\* as there are none.
read_timer(t) ==
    /\ Alive /\ dx = t
    /\ timer[t].expired
    /\ timer' = [timer EXCEPT ![t].expired = FALSE]
    /\ dx' = IF t = "tint" THEN "tint_flip" ELSE "tout_flip"
    /\ UNCHANGED <<main_vars, tx_vars, inbox, ready, phase, started, ended>>

flip_timers_without_disarming(t1, t2, value) ==
    timer' = [timer EXCEPT ![t2] = settime(value, @.periodic)]

flip_timers_keeping_expirations(t1, t2, value) ==
    timer' = [timer EXCEPT ![t1].armed = FALSE, ![t2] = settime(value, @.periodic)]

flip_timers_disarming_both(t1, t2, value) ==
    timer' = [timer EXCEPT ![t1] = settime(0, @.periodic),
                           ![t2] = settime(0, @.periodic)]

\* flip_timers, update_timer: both timers keep their intervals.
flip_timers(t1, t2, value) ==
    timer' = [timer EXCEPT ![t1] = settime(0, @.periodic),
                           ![t2] = settime(value, @.periodic)]

\* The rest of tint_handler.
tint_handler ==
    /\ Alive /\ dx = "tint_flip"
    /\ phase' = "open"
    /\ started' = TRUE
    /\ flip_timers("tint", "tout", opt.timeout)
    /\ dx' = "loop"
    /\ UNCHANGED <<main_vars, tx_vars, inbox, ready, ended>>

\* The rest of tout_handler.
tout_handler ==
    /\ Alive /\ dx = "tout_flip"
    /\ phase' = "idle"
    /\ ended' = TRUE
    /\ flip_timers("tout", "tint", opt.interval)
    /\ dx' = "loop"
    /\ UNCHANGED <<main_vars, tx_vars, inbox, ready, started>>

-----------------------------------------------------------------------------
MainStep == start_tx \/ create_dx \/ pthread_join
TxStep == pthread_cond_signal \/ Transmit
DxStep ==
    \/ pthread_cond_wait \/ init_timerfd \/ epoll_wait
    \/ \E e \in Timers \cup {"mdc"} : dx_loop(e)
    \/ \E t \in Timers : read_timer(t)
    \/ tint_handler \/ tout_handler

\* All that is left is to wait: for packets beyond the bound, for answers, or
\* after the end of the process.
Quiet == (~Alive \/ nread = MaxReads \/ tx = "ended") /\ UNCHANGED vars

Next ==
    \/ MainStep \/ pthread_create_fails
    \/ \E kind \in Kinds : wait_init_input(kind) \/ _tx_loop(kind)
    \/ TxStep \/ read_error
    \/ DxStep
    \/ \E t \in Timers : Expire(t)
    \/ AnswerArrives
    \/ Quiet

\* Every thread that can go on does, and an armed timer expires.  Nothing is
\* said of the traffic and the answers.
Spec ==
    /\ Init /\ [][Next]_vars
    /\ WF_vars(MainStep) /\ WF_vars(TxStep) /\ WF_vars(DxStep)
    /\ \A t \in Timers : WF_vars(Expire(t))

-----------------------------------------------------------------------------
\* Properties.

\* The handlers' read never blocks the thread: when a handler is entered its timer
\* has an expiration to read, although the event was reported before other events
\* of the same epoll_wait were handled.
HandlerNeverBlocks == dx \in Timers => timer[dx].expired

\* Requests and groupings alternate, whatever expires while a handler runs: no
\* request is sent while answers to the last one are collected, and no group is
\* made without a request.  04_implementation.tex: "a discovery interval of zero,
\* resulting in the sender performing a single discovery phase during startup", and
\* "By setting the wait flag, the sender delays the initial discovery until it
\* receives traffic from the TUN device."
PhasesAlternate ==
    /\ dx = "tint" => phase = "idle" /\ (opt.interval = 0 => ~ended)
    /\ dx = "tout" => phase = "open"
    /\ started /\ opt.wait => traffic
    /\ ~(timer["tint"].armed /\ timer["tout"].armed)

\* README.md: "Send periodical discovery requests to all group members."  After
\* every phase comes another one, and every one ends, whatever arrives meanwhile.
PeriodicDiscovery ==
    /\ (dx = "loop" /\ opt.value > 0 /\ opt.interval > 0 /\ phase = "idle")
           ~> (phase = "open" \/ ~Alive)
    /\ (phase = "open" /\ opt.timeout > 0) ~> (phase = "idle" \/ ~Alive)

\* README.md: "Fallback to IP unicast if MEADcast is unavailable."  Data for the
\* group is sent even if the discovery thread waits, is stuck, or has ended.
TrafficSent == todo ~> (~todo \/ ~Alive)

\* argp.c, wait: the "sender waits for traffic before starting discovery phase".
\* With traffic, discovery starts.
TrafficStartsDiscovery ==
    (traffic /\ opt.value > 0) ~> (started \/ ~Alive)
=============================================================================
