----------------------------- MODULE SenderProofs -----------------------------
(***************************************************************************)
(* The two timers take turns, for every setting of the options and any      *)
(* number of packets: no handler blocks and no phase starts out of turn.    *)
(***************************************************************************)
EXTENDS Sender, TLAPS

-----------------------------------------------------------------------------
\* The inductive invariant.

Pending(t) == timer[t].armed \/ timer[t].expired

\* The discovery thread before its event loop.
Before == {"none", "enter", "blocked", "timers"}

\* Until init_timerfd has run there is nothing that could start a phase.
Fresh ==
    dx \in Before =>
        /\ phase = "idle" /\ ~started /\ ~ended
        /\ ready = {}
        /\ \A t \in Timers : ~Pending(t)

\* main creates the discovery thread once.
Once == main \in {"start_tx", "start_dx"} => dx = "none"

\* Only the timer whose turn it is can be running: tint between the phases, tout
\* in a phase, and tint never again after a phase when the interval is 0.
Turns ==
    /\ phase = "idle" => ~Pending("tout")
    /\ phase = "open" => ~Pending("tint")
    /\ opt.interval = 0 /\ ended => ~Pending("tint")
    /\ dx \in {"tint", "tint_flip"} => phase = "idle" /\ "tint" \notin ready
    /\ dx \in {"tout", "tout_flip"} => phase = "open" /\ "tout" \notin ready

\* A timer that epoll_wait reported keeps its expiration until its handler reads it.
Reported ==
    /\ \A t \in Timers : t \in ready => timer[t].expired
    /\ \A t \in Timers : dx = t => timer[t].expired

\* With --wait the event loop is behind the first traffic.
Waited ==
    /\ tx = "signal" => traffic
    /\ opt.wait /\ dx \notin {"none", "enter", "blocked"} => traffic

Inv == TypeOK /\ Fresh /\ Once /\ Turns /\ Reported /\ Waited

\* The program starts with the invariant.
LEMMA InitInv == Init => Inv
<1> SUFFICES ASSUME Init PROVE Inv
  OBVIOUS
<1>1. \A t \in Timers : /\ timer[t] \in Timer
                         /\ ~timer[t].armed /\ ~timer[t].expired
  BY DEF Init, Timer
<1>2. timer \in [Timers -> Timer]
  BY <1>1 DEF Init
<1>3. {inbox, started, ended, traffic, todo} \subseteq BOOLEAN
  BY DEF Init
<1>4. TypeOK
  BY <1>2, <1>3, OptionsAssumption DEF Init, TypeOK
<1> QED
  BY <1>1, <1>4 DEF Init, Inv, Fresh, Once, Turns, Reported, Waited, Pending, Timers, Before


-----------------------------------------------------------------------------
\* The timers.

\* The record that timerfd_settime leaves.
LEMMA SettimeFields ==
    ASSUME NEW value \in Int, NEW periodic \in BOOLEAN
    PROVE  /\ settime(value, periodic) \in Timer
           /\ settime(value, periodic).armed <=> value > 0
           /\ ~settime(value, periodic).expired
<1>1. (value > 0) \in BOOLEAN
  OBVIOUS
<1>2. PICK b \in BOOLEAN : b = (value > 0)
  BY <1>1, Zenon
<1>3. settime(value, periodic) = [armed |-> b, periodic |-> periodic, expired |-> FALSE]
  BY <1>2, Zenon DEF settime
<1>4. b <=> value > 0
  BY <1>2, Zenon
<1> QED
  BY <1>3, <1>4 DEF Timer

\* flip_timers stops one timer and starts the other.
LEMMA FlipTimers ==
    ASSUME timer \in [Timers -> Timer],
           NEW t1 \in Timers, NEW t2 \in Timers, t1 # t2, NEW value \in Int,
           flip_timers(t1, t2, value)
    PROVE  /\ timer' \in [Timers -> Timer]
           /\ ~timer'[t1].armed /\ ~timer'[t1].expired
           /\ timer'[t2].armed <=> value > 0
           /\ ~timer'[t2].expired
<1>1. timer[t1].periodic \in BOOLEAN /\ timer[t2].periodic \in BOOLEAN
  BY DEF Timer
<1> DEFINE r1 == settime(0, timer[t1].periodic)
           r2 == settime(value, timer[t2].periodic)
<1>2. timer' = [timer EXCEPT ![t1] = r1, ![t2] = r2]
  BY DEF flip_timers
<1>3. \A t \in Timers : t = t1 \/ t = t2
  BY DEF Timers
<1>4. r1 \in Timer /\ ~r1.armed /\ ~r1.expired
  BY <1>1, SettimeFields
<1>5. r2 \in Timer /\ (r2.armed <=> value > 0) /\ ~r2.expired
  BY <1>1, SettimeFields
<1> HIDE DEF r1, r2
<1>6. timer' \in [Timers -> Timer] /\ timer'[t1] = r1 /\ timer'[t2] = r2
  BY <1>2, <1>4, <1>5
<1> QED
  BY <1>4, <1>5, <1>6

\* The settings are a flag and three integers.
LEMMA OptType ==
    ASSUME TypeOK
    PROVE  /\ opt.wait \in BOOLEAN /\ opt.value \in Int
           /\ opt.interval \in Int /\ opt.timeout \in Int
  BY OptionsAssumption DEF TypeOK

-----------------------------------------------------------------------------
\* Every step keeps the invariant.

\* main
LEMMA MainInv ==
    ASSUME Inv, MainStep \/ pthread_create_fails
    PROVE  Inv'
<1>1. UNCHANGED <<opt, timer, inbox, ready, phase, started, ended, traffic, todo, nread>>
  BY DEF MainStep, start_tx, create_dx, pthread_join, pthread_create_fails, tx_vars, dx_vars
<1>2. dx' # dx => dx = "none" /\ dx' = "enter"
  BY DEF MainStep, start_tx, create_dx, pthread_join, pthread_create_fails, tx_vars, dx_vars,
         Inv, Once
<1>3. tx' # tx => tx' \in {"wait", "read"}
  BY DEF MainStep, start_tx, create_dx, pthread_join, pthread_create_fails, tx_vars, dx_vars
<1>4. /\ main' \in {"start_tx", "start_dx", "join_tx", "join_dx", "exit"}
      /\ Once'
  BY DEF MainStep, start_tx, create_dx, pthread_join, pthread_create_fails, tx_vars, dx_vars,
         Inv, Once
<1>5. TypeOK'
  BY <1>1, <1>2, <1>3, <1>4 DEF Inv, TypeOK
<1>6. Fresh' /\ Turns' /\ Reported' /\ Waited'
  BY <1>1, <1>2, <1>3 DEF Inv, Fresh, Turns, Reported, Waited, Pending, Before, Timers
<1> QED
  BY <1>4, <1>5, <1>6 DEF Inv

\* The transmission thread
LEMMA TxInv ==
    ASSUME Inv,
           \/ \E kind \in Kinds : wait_init_input(kind) \/ _tx_loop(kind)
           \/ TxStep \/ read_error
    PROVE  Inv'
<1> USE DEF TxStep, wait_init_input, _tx_loop, pthread_cond_signal, Transmit, read_error,
            main_vars, dx_vars
<1>1. UNCHANGED <<main, opt, timer, inbox, ready, phase, started, ended>>
  OBVIOUS
<1>2. /\ tx' \in {"wait", "signal", "read", "send", "ended"}
      /\ nread' \in 0 .. MaxReads
  BY OptionsAssumption DEF Inv, TypeOK
<1>3. traffic' \in BOOLEAN /\ todo' \in BOOLEAN
  BY DEF Inv, TypeOK
<1>4. /\ traffic => traffic'
      /\ tx' = "signal" => traffic'
  <2>1. CASE UNCHANGED traffic /\ tx' # "signal"
    BY <2>1
  <2>2. CASE \E kind \in Kinds : /\ traffic' = (traffic \/ kind = "group")
                                 /\ tx' = "signal" => kind = "group"
    BY <2>2, Zenon
  <2> QED
    BY <2>1, <2>2
<1>5. dx' # dx => dx = "blocked" /\ dx' = "timers" /\ tx = "signal"
  OBVIOUS
<1> HIDE DEF TxStep, wait_init_input, _tx_loop, pthread_cond_signal, Transmit, read_error
<1>6. TypeOK'
  BY <1>1, <1>2, <1>3, <1>5 DEF Inv, TypeOK
<1>7. Fresh' /\ Turns' /\ Reported' /\ Once'
  BY <1>1, <1>5 DEF Inv, Fresh, Once, Turns, Reported, Pending, Before, Timers
<1>8. Waited'
  BY <1>1, <1>4, <1>5 DEF Inv, Waited
<1> QED
  BY <1>6, <1>7, <1>8 DEF Inv

\* The discovery thread, before its event loop
LEMMA StartInv ==
    ASSUME Inv, pthread_cond_wait \/ init_timerfd
    PROVE  Inv'
<1>1. CASE pthread_cond_wait
  BY <1>1 DEF pthread_cond_wait, main_vars, tx_vars, Inv, TypeOK, Fresh, Once, Turns,
              Reported, Waited, Pending, Before, Timers
<1>2. CASE init_timerfd /\ UNCHANGED timer
  BY <1>2 DEF init_timerfd, main_vars, tx_vars, Inv, TypeOK, Fresh, Once, Turns,
              Reported, Waited, Pending, Before, Timers
<1>3. CASE init_timerfd /\ dx' = "loop"
  <2> DEFINE r1 == settime(opt.value, opt.interval > 0)
             r2 == settime(0, opt.timeout > 0)
  <2>1. timer' = [tint |-> r1, tout |-> r2]
    BY <1>3 DEF init_timerfd
  <2>2. (opt.interval > 0) \in BOOLEAN /\ (opt.timeout > 0) \in BOOLEAN
    OBVIOUS
  <2>3. r1 \in Timer /\ ~r1.expired
    BY <2>2, OptType, SettimeFields DEF Inv
  <2>4. r2 \in Timer /\ ~r2.armed /\ ~r2.expired
    <3>1. 0 \in Int /\ ~(0 > 0)
      OBVIOUS
    <3> QED
      BY <2>2, <3>1, SettimeFields, Zenon
  <2> HIDE DEF r1, r2
  <2>5. timer' \in [Timers -> Timer] /\ timer'["tint"] = r1 /\ timer'["tout"] = r2
    BY <2>1, <2>3, <2>4 DEF Timers
  <2>6. /\ UNCHANGED <<main, opt, tx, traffic, todo, nread, inbox, ready, phase, started, ended>>
        /\ dx = "timers"
    BY <1>3 DEF init_timerfd, main_vars, tx_vars
  <2>7. TypeOK'
    BY <1>3, <2>5, <2>6 DEF Inv, TypeOK
  <2>8. Fresh' /\ Once' /\ Turns' /\ Reported' /\ Waited'
    BY <1>3, <2>3, <2>4, <2>5, <2>6
    DEF Inv, Fresh, Once, Turns, Reported, Waited, Pending, Before, Timers
  <2> QED
    BY <2>7, <2>8 DEF Inv
<1> QED
  BY <1>1, <1>2, <1>3 DEF init_timerfd

\* Timers expire, and answers arrive
LEMMA EventInv ==
    ASSUME Inv, (\E t \in Timers : Expire(t)) \/ AnswerArrives
    PROVE  Inv'
<1>1. CASE AnswerArrives
  BY <1>1 DEF AnswerArrives, main_vars, tx_vars, Inv, TypeOK, Fresh, Once, Turns,
              Reported, Waited, Pending, Before, Timers
<1>2. ASSUME NEW t \in Timers, Expire(t) PROVE Inv'
  <2>1. /\ timer' \in [Timers -> Timer]
        /\ timer[t].armed
        /\ \A s \in Timers : /\ s # t => timer'[s] = timer[s]
                             /\ timer[s].expired => timer'[s].expired
    BY <1>2 DEF Expire, Inv, TypeOK, Timer
  <2>2. UNCHANGED <<main, opt, tx, traffic, todo, nread, dx, inbox, ready, phase,
                    started, ended>>
    BY <1>2 DEF Expire, main_vars, tx_vars
  <2>3. TypeOK'
    BY <2>1, <2>2 DEF Inv, TypeOK
  <2>4. t = "tint" \/ t = "tout"
    BY DEF Timers
  <2>5. dx \notin Before
    BY <2>1 DEF Inv, Fresh, Pending
  <2>6. Turns'
    BY <2>1, <2>2, <2>4 DEF Inv, Turns, Pending, Timers
  <2>7. Reported'
    BY <2>1, <2>2 DEF Inv, Reported
  <2>8. Fresh' /\ Once' /\ Waited'
    BY <2>2, <2>5 DEF Inv, Fresh, Once, Waited
  <2> QED
    BY <2>3, <2>6, <2>7, <2>8 DEF Inv
<1> QED
  BY <1>1, <1>2

\* The event loop, up to the handlers
LEMMA LoopInv ==
    ASSUME Inv, epoll_wait \/ \E e \in Timers \cup {"mdc"} : dx_loop(e)
    PROVE  Inv'
<1>1. UNCHANGED <<main, opt, tx, traffic, todo, nread, timer, phase, started, ended>>
  BY DEF epoll_wait, dx_loop, main_vars, tx_vars
<1>2. CASE epoll_wait
  <2>1. \A t \in Timers : t \in Readable => timer[t].expired
    BY DEF Readable, Timers
  <2>2. UNCHANGED <<dx, inbox>> /\ ready' = Readable /\ dx = "loop"
    BY <1>2 DEF epoll_wait
  <2>3. Readable \subseteq Timers \cup {"mdc"}
    BY DEF Readable
  <2> QED
    BY <1>1, <2>1, <2>2, <2>3 DEF Inv, TypeOK, Fresh, Once, Turns, Reported, Waited,
                                  Pending, Before, Timers
<1>3. ASSUME NEW e \in Timers \cup {"mdc"}, dx_loop(e) PROVE Inv'
  <2>1. /\ dx = "loop" /\ e \in ready /\ ready' = ready \ {e}
        /\ e = "mdc" => dx' = dx
        /\ e # "mdc" => dx' = e
        /\ inbox' = inbox \/ inbox' \in BOOLEAN
    BY <1>3 DEF dx_loop
  <2>2. TypeOK'
    BY <1>1, <2>1 DEF Inv, TypeOK, Timers
  <2>3. Fresh' /\ Once' /\ Turns' /\ Reported' /\ Waited'
    BY <1>1, <2>1 DEF Inv, TypeOK, Fresh, Once, Turns, Reported, Waited, Pending, Before, Timers
  <2> QED
    BY <2>2, <2>3 DEF Inv
<1> QED
  BY <1>2, <1>3

\* The handlers
LEMMA HandlerInv ==
    ASSUME Inv, (\E t \in Timers : read_timer(t)) \/ tint_handler \/ tout_handler
    PROVE  Inv'
<1>1. UNCHANGED <<main, opt, tx, traffic, todo, nread, inbox, ready>>
  BY DEF read_timer, tint_handler, tout_handler, main_vars, tx_vars
<1>2. ASSUME NEW t \in Timers, read_timer(t) PROVE Inv'
  <2>1. /\ timer' \in [Timers -> Timer]
        /\ \A s \in Timers : s # t => timer'[s] = timer[s]
        /\ timer'[t].armed => timer[t].armed
        /\ ~timer'[t].expired
    BY <1>2 DEF read_timer, Inv, TypeOK, Timer
  <2>2. /\ dx = t
        /\ t = "tint" => dx' = "tint_flip"
        /\ t = "tout" => dx' = "tout_flip"
        /\ UNCHANGED <<phase, started, ended>>
    BY <1>2 DEF read_timer, Timers
  <2>3. TypeOK'
    BY <1>1, <2>1, <2>2 DEF Inv, TypeOK, Timers
  <2>4. Fresh' /\ Once' /\ Turns' /\ Reported' /\ Waited'
    BY <1>1, <2>1, <2>2 DEF Inv, Fresh, Once, Turns, Reported, Waited, Pending, Before, Timers
  <2> QED
    BY <2>3, <2>4 DEF Inv
<1>3. CASE tint_handler
  <2>1. /\ timer' \in [Timers -> Timer]
        /\ ~timer'["tint"].armed /\ ~timer'["tint"].expired
        /\ ~timer'["tout"].expired
    BY <1>3, FlipTimers, OptType DEF tint_handler, Inv, TypeOK, Timers
  <2>2. /\ dx = "tint_flip" /\ dx' = "loop"
        /\ phase' = "open" /\ started' /\ ended' = ended
    BY <1>3 DEF tint_handler
  <2>3. started' \in BOOLEAN
    BY <1>3 DEF tint_handler
  <2>4. TypeOK'
    BY <1>1, <2>1, <2>2, <2>3 DEF Inv, TypeOK
  <2>5. "tint" \notin ready /\ "tout" \notin ready
    BY <2>2 DEF Inv, Turns, Reported, Pending, Timers
  <2>6. Fresh' /\ Once' /\ Turns' /\ Reported' /\ Waited'
    BY <1>1, <2>1, <2>2, <2>5
    DEF Inv, Fresh, Once, Turns, Reported, Waited, Pending, Before, Timers
  <2> QED
    BY <2>4, <2>6 DEF Inv
<1>4. CASE tout_handler
  <2>1. /\ timer' \in [Timers -> Timer]
        /\ ~timer'["tout"].armed /\ ~timer'["tout"].expired
        /\ timer'["tint"].armed => opt.interval > 0
        /\ ~timer'["tint"].expired
    BY <1>4, FlipTimers, OptType DEF tout_handler, Inv, TypeOK, Timers
  <2>2. /\ dx = "tout_flip" /\ dx' = "loop"
        /\ phase' = "idle" /\ started' = started /\ ended'
    BY <1>4 DEF tout_handler
  <2>3. ended' \in BOOLEAN
    BY <1>4 DEF tout_handler
  <2>4. TypeOK'
    BY <1>1, <2>1, <2>2, <2>3 DEF Inv, TypeOK
  <2>5. "tint" \notin ready /\ "tout" \notin ready
    BY <2>2 DEF Inv, Turns, Reported, Pending, Timers
  <2>6. Fresh' /\ Once' /\ Turns' /\ Reported' /\ Waited'
    BY <1>1, <2>1, <2>2, <2>5, OptType
    DEF Inv, Fresh, Once, Turns, Reported, Waited, Pending, Before, Timers
  <2> QED
    BY <2>4, <2>6 DEF Inv
<1> QED
  BY <1>2, <1>3, <1>4

\* Together
LEMMA NextInv == Inv /\ [Next]_vars => Inv'
<1> SUFFICES ASSUME Inv, [Next]_vars PROVE Inv'
  OBVIOUS
<1>1. CASE UNCHANGED vars
  BY <1>1 DEF vars, main_vars, tx_vars, dx_vars, Inv, TypeOK, Fresh, Once, Turns, Reported,
              Waited, Pending
<1>2. CASE MainStep \/ pthread_create_fails
  BY <1>2, MainInv
<1>3. CASE \/ \E kind \in Kinds : wait_init_input(kind) \/ _tx_loop(kind)
           \/ TxStep \/ read_error
  BY <1>3, TxInv
<1>4. CASE DxStep
  BY <1>4, StartInv, LoopInv, HandlerInv DEF DxStep
<1>5. CASE (\E t \in Timers : Expire(t)) \/ AnswerArrives
  BY <1>5, EventInv
<1> QED
  BY <1>1, <1>2, <1>3, <1>4, <1>5 DEF Next, Quiet

LEMMA SpecInv == Spec => []Inv
  BY InitInv, NextInv, PTL DEF Spec

-----------------------------------------------------------------------------
\* The theorems.

\* Every variable keeps its type, whatever settings argp.c leaves.
THEOREM TypeCorrect == Spec => []TypeOK
<1>1. Inv => TypeOK
  BY DEF Inv
<1> QED
  BY <1>1, SpecInv, PTL

\* The read at the start of tint_handler and tout_handler never blocks: between
\* epoll_wait's report and the handler nothing takes the timer's expirations, not
\* even the other timer's handler, whose flip_timers forgets them.
THEOREM HandlersNeverBlock == Spec => []HandlerNeverBlocks
<1>1. Inv => HandlerNeverBlocks
  BY DEF Inv, Reported, HandlerNeverBlocks
<1> QED
  BY <1>1, SpecInv, PTL

\* Requests and groupings alternate, one phase is all with an interval of 0, and
\* with --wait no request comes before the first traffic.
THEOREM PhasesTakeTurns == Spec => []PhasesAlternate
<1>1. Inv => PhasesAlternate
  BY DEF Inv, TypeOK, Fresh, Turns, Reported, Waited, Pending, PhasesAlternate, Before, Timers
<1> QED
  BY <1>1, SpecInv, PTL
=============================================================================
