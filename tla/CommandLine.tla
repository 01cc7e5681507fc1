------------------------------ MODULE CommandLine ------------------------------
(***************************************************************************)
(* argp.c: from the words of the command line to struct arguments.  getopt  *)
(* handles the options in their order and moves the positional arguments    *)
(* behind them; the last of these is the port, the others are receivers.    *)
(*                                                                          *)
(* A word is what the code sees of it: whether inet_pton takes it for an    *)
(* IPv6 address, what atoi makes of it, and strlen.                         *)
(***************************************************************************)
EXTENDS Integers, Sequences

CONSTANTS OptWords,     \* words behind options
          ArgWords,     \* positional arguments
          MaxOptions,   \* bound on the number of options
          MaxArgs       \* bound on the number of positional arguments

ASSUME WordsAssumption ==
    /\ OptWords \cup ArgWords \subseteq [addr : BOOLEAN, atoi : Int, strlen : Nat]
    /\ MaxOptions \in Nat /\ MaxArgs \in Nat

IFNAMSIZ == 16

\* The options that take a word, and those that do not.  print-tree and
\* print-groups change nothing but the output.
Keys == {"tun", "interface", "tun-address", "address", "port", "interval", "timeout",
         "delay", "max", "ok", "min-leafs", "min-routers", "merge"}
Flags == {"wait", "split"}

VARIABLES stage,    \* "options", "args", "done", "error"; "started" in Launch
          args,     \* struct arguments
          argv,     \* the positional arguments not parsed yet
          since,    \* bytes from the device's name to the next word in memory, and
          gap,      \* to the interface's name, both as far as IFNAMSIZ
          nopts,    \* the number of options seen
          asked     \* for the properties: the options, and all of argv

vars == <<stage, args, argv, since, gap, nopts, asked>>

\* Results that a C type has room for.
uint16(x) == x % 65536

\* set_default_args.  An interface is the length of its name; -1 stands for NULL.
\* paddr is the list of receivers, and the pointer behind the last one.
set_default_args ==
    [tifname |-> 4, bifname |-> -1, bport |-> 9999, pport |-> 0,
     paddr |-> [list |-> <<>>, end |-> "NULL"],
     interval |-> 5, delay_sec |-> 5, delay_nsec |-> 0, timeout |-> 2, wait |-> FALSE,
     max_addrs |-> 10, ok_addrs |-> 0, min_leafs |-> 2, min_routers |-> 1,
     split_nodes |-> FALSE, merge_range |-> 0]

Init ==
    /\ stage = "options"
    /\ args = set_default_args
    /\ argv \in UNION {[1 .. k -> ArgWords] : k \in 0 .. MaxArgs}
    /\ since = IFNAMSIZ /\ gap = IFNAMSIZ
    /\ nopts = 0
    /\ asked = [keys |-> {}, argv |-> argv]

-----------------------------------------------------------------------------
\* The helpers: whether they accept the word.
_parse_if(w) == w.strlen <= IFNAMSIZ
_parse_addr(w) == w.addr
_parse_port(w) == uint16(w.atoi) > 0

_parse_int(w, min) == w.atoi >= min

Accepts(key, w) ==
    CASE key \in {"tun", "interface"} -> _parse_if(w)
      [] key \in {"tun-address", "address"} -> _parse_addr(w)
      [] key = "port" -> _parse_port(w)
      [] key \in {"interval", "timeout", "delay"} -> TRUE
      [] key \in {"max", "ok"} -> _parse_int(w, 2)
      [] key \in {"min-leafs", "min-routers"} -> _parse_int(w, 1)
      [] key = "merge" -> _parse_int(w, 0)

\* What an accepted word changes.  The addresses are not looked at again.
Set(key, w) ==
    CASE key = "tun" -> [args EXCEPT !.tifname = w.strlen]
      [] key = "interface" -> [args EXCEPT !.bifname = w.strlen]
      [] key \in {"tun-address", "address"} -> args
      [] key = "port" -> [args EXCEPT !.bport = uint16(w.atoi)]
      [] key = "interval" -> [args EXCEPT !.interval = w.atoi]
      [] key = "timeout" -> [args EXCEPT !.timeout = w.atoi]
      [] key = "delay" -> [args EXCEPT !.delay_sec = w.atoi]
      [] key = "max" -> [args EXCEPT !.max_addrs = w.atoi]
      [] key = "ok" -> [args EXCEPT !.ok_addrs = w.atoi]
      [] key = "min-leafs" -> [args EXCEPT !.min_leafs = w.atoi]
      [] key = "min-routers" -> [args EXCEPT !.min_routers = w.atoi]
      [] key = "merge" -> [args EXCEPT !.merge_range = w.atoi]

\* _parse_if keeps a pointer to the word, and the words of the command line lie one
\* after the other: in front of the word of an option is the option, in its
\* shortest form, and every word ends with a zero.  The default name of the
\* device is elsewhere.
Near(x) == IF x > IFNAMSIZ THEN IFNAMSIZ ELSE x
Spelled(key) ==
    CASE key = "ok" -> 5
      [] key = "max" -> 6
      [] key = "min-leafs" -> 12
      [] key \in {"min-routers", "tun-address"} -> 14
      [] OTHER -> 3
Locate(key, w) ==
    /\ since' = Near(IF key = "tun" THEN w.strlen + 1
                      ELSE since + Spelled(key) + w.strlen + 1)
    /\ gap' = CASE key = "tun" -> IFNAMSIZ
                [] key = "interface" -> Near(since + Spelled(key))
                [] OTHER -> gap

parse_opt(key, w) ==
    /\ stage = "options" /\ nopts < MaxOptions
    /\ nopts' = nopts + 1
    /\ asked' = [asked EXCEPT !.keys = @ \cup {key}]
    /\ IF Accepts(key, w) THEN args' = Set(key, w) /\ Locate(key, w) /\ stage' = stage
                          ELSE stage' = "error" /\ UNCHANGED <<args, since, gap>>
    /\ UNCHANGED argv

\* Definitions named after another one, with a suffix, are that definition with a
\* slip a programmer could make; no specification uses them.
Flag_wait_in_seconds(key) ==
    IF key = "wait" THEN [args EXCEPT !.delay_sec = 0, !.wait = TRUE]
                    ELSE [args EXCEPT !.split_nodes = TRUE]

\* --wait and --split; --wait replaces the delay by a nanosecond.
Flag(key) ==
    IF key = "wait" THEN [args EXCEPT !.delay_sec = 0, !.delay_nsec = 1, !.wait = TRUE]
                    ELSE [args EXCEPT !.split_nodes = TRUE]

parse_flag(key) ==
    /\ stage = "options" /\ nopts < MaxOptions
    /\ nopts' = nopts + 1
    /\ args' = Flag(key)
    /\ since' = Near(since + Spelled(key))
    /\ UNCHANGED <<stage, argv, gap, asked>>

OptionsDone ==
    /\ stage = "options"
    /\ stage' = "args"
    /\ UNCHANGED <<args, argv, since, gap, nopts, asked>>

\* _parse_peer, for all words but the last.  Only the first receiver gets a pointer
\* n, the others keep what malloc left there.
_parse_peer ==
    /\ stage = "args" /\ Len(argv) > 1
    /\ LET w == Head(argv)
       IN  /\ w.addr /\ args.paddr.end = "NULL"
           /\ \E end \in IF args.paddr.list = <<>> THEN {"NULL"} ELSE {"NULL", "wild"} :
                 args' = [args EXCEPT !.paddr = [list |-> Append(@.list, w), end |-> end]]
    /\ argv' = Tail(argv)
    /\ UNCHANGED <<stage, since, gap, nopts, asked>>

\* The word is no address, or the loop to the end of the list follows a pointer
\* that was never set.
_parse_peer_fails ==
    /\ stage = "args" /\ Len(argv) > 1
    /\ ~Head(argv).addr \/ args.paddr.end = "wild"
    /\ stage' = "error"
    /\ UNCHANGED <<args, argv, since, gap, nopts, asked>>

\* The last word.
PeerPort ==
    /\ stage = "args" /\ Len(argv) = 1
    /\ argv' = <<>>
    /\ LET w == Head(argv)
       IN  IF _parse_port(w)
           THEN args' = [args EXCEPT !.pport = uint16(w.atoi)] /\ stage' = stage
           ELSE stage' = "error" /\ UNCHANGED args
    /\ UNCHANGED <<since, gap, nopts, asked>>

\* empty_check and null_check.
Complete(a) ==
    /\ a.tifname >= 0 /\ a.tifname <= IFNAMSIZ
    /\ a.bifname >= 0 /\ a.bifname <= IFNAMSIZ
    /\ a.paddr.list # <<>>

ok_addrs(a) == IF a.ok_addrs = 0 THEN (4 * a.max_addrs) \div 5 ELSE a.ok_addrs

\* ARGP_KEY_END.
ParseEnd ==
    /\ stage = "args" /\ argv = <<>>
    /\ IF Complete(args)
       THEN stage' = "done" /\ args' = [args EXCEPT !.ok_addrs = ok_addrs(args)]
       ELSE stage' = "error" /\ UNCHANGED args
    /\ UNCHANGED <<argv, since, gap, nopts, asked>>

Parse ==
    \/ \E key \in Keys, w \in OptWords : parse_opt(key, w)
    \/ \E key \in Flags : parse_flag(key)
    \/ OptionsDone \/ _parse_peer \/ _parse_peer_fails \/ PeerPort \/ ParseEnd

-----------------------------------------------------------------------------
\* Properties.

\* All ports but 0.
Ports == 1 .. 65535

\* Whatever options come in whichever order, the other modules get what they
\* assume: the bounds of grouping and reduction, a port, and the receivers.
\* - args_doc: "[PEER ADDRESSES] [PEER PORT]": every word but the last is a
\*   receiver, in the order given; the last is the port even if it is an address;
\* - the default of --ok follows --max: a packet may be finished before it is full;
\* - --wait leaves a timer that runs once there is traffic, whatever --delay says
\*   before or after it, unless that is negative.
SettingsSound ==
    stage = "done" =>
        /\ args.max_addrs >= 2 /\ args.ok_addrs >= 1 /\ args.merge_range >= 0
        /\ args.min_leafs >= 1 /\ args.min_routers >= 1
        /\ args.pport \in Ports /\ args.paddr.list # <<>>
        /\ args.paddr.list = SubSeq(asked.argv, 1, Len(asked.argv) - 1)
        /\ "ok" \notin asked.keys => args.ok_addrs < args.max_addrs
        /\ (args.wait /\ args.delay_sec >= 0) => args.delay_sec > 0 \/ args.delay_nsec > 0
=============================================================================
