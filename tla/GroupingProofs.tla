---------------------------- MODULE GroupingProofs ----------------------------
(***************************************************************************)
(* The safety of greedy_grouping, for any tree, any options and any number  *)
(* of receivers: the headers stay within their bounds, the free counters    *)
(* tell the truth where the search reads them, every receiver follows a     *)
(* router above it that is not too far away, receivers of one router stay   *)
(* together, and no receiver is served twice or left out.                   *)
(***************************************************************************)
EXTENDS Grouping, FiniteSetTheorems, WellFoundedInduction, TLAPS

\* A set of numbers has a least one.
LEMMA NatMin ==
    ASSUME NEW S \in SUBSET Nat, S # {}
    PROVE  \E n \in S : \A m \in S : n <= m
<1> DEFINE Less == OpToRel(<, Nat)
<1>1. \A x, y \in Nat : x < y => <<x, y>> \in Less
  BY DEF OpToRel
<1>2. IsWellFoundedOn(Less, Nat)
  BY NatLessThanWellFounded
<1> HIDE DEF Less
<1>3. PICK n \in S : \A m \in S : ~ (<<m, n>> \in Less)
  BY <1>2, WFMin
<1>4. \A m \in S : ~ (m < n)
  BY <1>1, <1>3
<1>5. QED  BY <1>4

-----------------------------------------------------------------------------
\* The loop of rec_back_propagate: its turns are a recursive function, which is
\* shown to exist.
N == Cardinality(Router)

LEMMA NType == N \in Nat
  BY RouterAssumption, FS_CardinalityType DEF N

RecStep(t, fl) ==
    IF Spent(t.at, fl, t.fc)
    THEN [at |-> T.parent[t.at], fc |-> back_propagate(t.at, fl, t.fc)]
    ELSE t

Turns(n, q, fl, f) ==
    f = [i \in 0 .. n |-> IF i = 0 THEN [at |-> q, fc |-> fchild] ELSE RecStep(f[i - 1], fl)]

LEMMA TurnsExist ==
    ASSUME NEW q, NEW fl, NEW n \in Nat
    PROVE  \E f : Turns(n, q, fl, f)
<1> DEFINE Bad == {k \in Nat : ~ \E f : Turns(k, q, fl, f)}
<1> SUFFICES ASSUME Bad # {} PROVE FALSE
  OBVIOUS
<1>1. PICK k \in Bad : \A m \in Bad : k <= m
  BY NatMin
<1>2. CASE k = 0
  <2> DEFINE f == [i \in 0 .. 0 |-> [at |-> q, fc |-> fchild]]
  <2>1. Turns(0, q, fl, f)
    BY DEF Turns
  <2>2. QED  BY <2>1, <1>1, <1>2
<1>3. CASE k # 0
  <2>1. k - 1 \in Nat /\ k \in Nat
    BY <1>1, <1>3
  <2>2. PICK f : Turns(k - 1, q, fl, f)
    BY <1>1, <2>1
  <2> DEFINE g == [i \in 0 .. k |-> IF i = k THEN RecStep(f[k - 1], fl) ELSE f[i]]
  <2>3. \A i \in 0 .. k :
            g[i] = IF i = 0 THEN [at |-> q, fc |-> fchild] ELSE RecStep(g[i - 1], fl)
    <3> TAKE i \in 0 .. k
    <3>1. CASE i = k
      <4>1. g[i] = RecStep(f[k - 1], fl) /\ g[i - 1] = f[k - 1]
        BY <3>1, <2>1, <1>3
      <4>2. QED  BY <4>1, <3>1, <1>3
    <3>2. CASE i # k
      <4>1. i \in 0 .. k - 1
        BY <3>2, <2>1
      <4>2. f[i] = IF i = 0 THEN [at |-> q, fc |-> fchild] ELSE RecStep(f[i - 1], fl)
        BY <4>1, <2>2 DEF Turns
      <4>3. g[i] = f[i] /\ (i # 0 => g[i - 1] = f[i - 1])
        BY <4>1, <2>1
      <4>4. QED  BY <4>2, <4>3
    <3>3. QED  BY <3>1, <3>2
  <2>4. g = [i \in 0 .. k |-> IF i = 0 THEN [at |-> q, fc |-> fchild]
                              ELSE RecStep(g[i - 1], fl)]
    <3> HIDE DEF g
    <3>1. g = [i \in 0 .. k |-> g[i]]
      BY DEF g
    <3>2. QED  BY <3>1, <2>3
  <2>5. Turns(k, q, fl, g)
    BY <2>4 DEF Turns
  <2>6. QED  BY <2>5, <1>1
<1>4. QED  BY <1>2, <1>3

LEMMA RecTurns ==
    ASSUME NEW q, NEW fl
    PROVE  \E f : /\ f[0] = [at |-> q, fc |-> fchild]
                  /\ \A i \in 1 .. N : f[i] = RecStep(f[i - 1], fl)
                  /\ rec_back_propagate(q, fl) = f[N].fc
<1> DEFINE g == CHOOSE f : Turns(N, q, fl, f)
<1>1. rec_back_propagate(q, fl) = g[N].fc
  BY Zenon DEF rec_back_propagate, Turns, RecStep, N
<1>2. Turns(N, q, fl, g)
  BY TurnsExist, NType
<1> HIDE DEF g
<1>3. g[0] = [at |-> q, fc |-> fchild]
  BY <1>2, NType DEF Turns
<1>4. \A i \in 1 .. N : g[i] = RecStep(g[i - 1], fl)
  BY <1>2, NType DEF Turns
<1>5. QED  BY <1>1, <1>3, <1>4

-----------------------------------------------------------------------------
\* Types, with those of what the walk does not change.
Addresses == Hub \X Nat

Merging == [cr : Router \cup {Null}, pcr : Hub \cup {Null}, icr : 0 .. BITMAP_LIMIT - 1,
            init_hops : Nat]

Typed ==
    /\ GroupTree(T) /\ args \in Args
    /\ merge \in Merging
    /\ addrs \in Seq(Addresses)
    /\ GTypeOK

\* A header that is open has room for a router and a receiver, and p says whether
\* the router is needed.
Room ==
    /\ gpc \in {"get_start", "descend"} => addrs = << >> /\ bm = {} /\ merge.cr = Null
    /\ gpc \in {"start", "fill"} => Len(addrs) + 1 < Max
    /\ gpc # "next" => merge.pcr \in Router \cup {Null}
    /\ args.merge_range = 0 => merge.cr = Null
    /\ (gpc = "fill" /\ fleaf[r] > 0) => (p = 1 <=> args.merge_range = 0 \/ merge.cr = Null)
    /\ Len(addrs) <= Max

Bounded == Typed /\ Room

\* The tree of a walk.
LEMMA TreeTypes ==
    ASSUME GroupTree(T)
    PROVE  /\ T.parent \in [Router -> Hub]
           /\ T.hops \in [Hub -> Nat]
           /\ T.child \in [Hub -> Seq(Router)]
           /\ T.nleaf \in [Hub -> Nat]
           /\ \A q \in Router : Used(T, q) =>
                  \E i \in 1 .. Len(T.child[T.parent[q]]) : T.child[T.parent[q]][i] = q
           /\ \A q \in Hub : \A i, j \in 1 .. Len(T.child[q]) :
                  /\ T.parent[T.child[q][i]] = q
                  /\ T.child[q][i] = T.child[q][j] => i = j
                  /\ Used(T, T.child[q][i])
           /\ \A q \in Router : T.hops[T.parent[q]] <= T.hops[q]
           /\ \A U \in SUBSET Router : U # {} => \E q \in U : T.parent[q] \notin U
  BY DEF GroupTree

LEMMA ArgsTypes ==
    ASSUME args \in Args
    PROVE  /\ args.max_addrs \in Nat /\ args.ok_addrs \in Nat
           /\ args.split_nodes \in BOOLEAN /\ args.merge_range \in Nat
           /\ args.max_addrs >= 2 /\ args.ok_addrs >= 1
           /\ Max \in Nat /\ 2 <= Max /\ Max <= args.max_addrs /\ Max <= BITMAP_LIMIT
  BY ArgsAssumption DEF Max, BITMAP_LIMIT

LEMMA FreeRouter ==
    ASSUME GroupTree(T), GTypeOK, NEW q \in Hub, HasFree(q)
    PROVE  get_free_router(q) \in Router
<1>1. fchild[q] \in Nat /\ T.child[q] \in Seq(Router)
  BY TreeTypes DEF GTypeOK
<1>2. Len(T.child[q]) - fchild[q] + 1 \in 1 .. Len(T.child[q])
  BY <1>1 DEF HasFree
<1>3. QED  BY <1>1, <1>2 DEF get_free_router

\* greedy_grouping begins with all leafs and routers of its tree free.
Begun ==
    /\ GroupTree(T) /\ args \in Args
    /\ fleaf = T.nleaf /\ fchild = [q \in Hub |-> Len(T.child[q])]
    /\ gpc = "get_start" /\ r = Root /\ s = Null /\ p = 1
    /\ merge = reset_merging_stats
    /\ addrs = << >> /\ bm = {} /\ mdc = << >> /\ uni = {}

LEMMA InitBegun == GInit => Begun
  BY TreesAssumption DEF GInit, Begun

LEMMA InitBounded == Begun => Bounded
<1> SUFFICES ASSUME Begun PROVE Bounded
  OBVIOUS
<1>1. GroupTree(T) /\ args \in Args
  BY DEF Begun
<1>2. Len(<< >>) = 0 /\ << >> \in Seq(Addresses)
  OBVIOUS
<1>3. merge \in Merging /\ merge.cr = Null /\ merge.pcr = Null
  BY DEF Begun, reset_merging_stats, Merging, BITMAP_LIMIT
<1>4. GTypeOK
  <2>1. fleaf = T.nleaf /\ fchild = [q \in Hub |-> Len(T.child[q])]
    BY DEF Begun
  <2>2. \A q \in Hub : Len(T.child[q]) \in Nat
    BY <1>1, TreeTypes
  <2>3. /\ fleaf \in [Hub -> Nat] /\ \A q \in Hub : fleaf[q] <= T.nleaf[q]
        /\ fchild \in [Hub -> Nat] /\ \A q \in Hub : fchild[q] <= Len(T.child[q])
    BY <1>1, <2>1, <2>2, TreeTypes
  <2>4. merge.icr \in 0 .. BITMAP_LIMIT - 1 /\ merge.init_hops \in Nat
    BY <1>3 DEF Merging
  <2>5. QED  BY <2>3, <2>4, <1>3 DEF Begun, GTypeOK, Hub
<1>5. Room
  BY <1>1, <1>2, <1>3, ArgsTypes DEF Begun, Room
<1>6. QED  BY <1>1, <1>2, <1>3, <1>4, <1>5 DEF Bounded, Typed, Begun

-----------------------------------------------------------------------------
\* What set_txg_router makes of the merging state.
LEMMA NewMerging ==
    ASSUME Typed, Room, gpc = "fill"
    PROVE  /\ set_txg_router \in Merging
           /\ set_txg_router.pcr \in Router \cup {Null}
           /\ args.merge_range = 0 => set_txg_router.cr = Null
           /\ args.merge_range = 0 \/ merge.cr = Null => set_txg_router.icr = Len(addrs)
           /\ args.merge_range # 0 => set_txg_router.cr \in Router
           /\ args.merge_range # 0 /\ merge.cr # Null => set_txg_router.icr = merge.icr
<1> DEFINE n == Len(addrs)
<1>1. r \in Router /\ T.hops[r] \in Nat /\ n \in 0 .. BITMAP_LIMIT - 1
  <2>1. r \in Router /\ T.hops[r] \in Nat
    BY TreeTypes DEF Typed, GTypeOK, Hub
  <2>2. Len(addrs) \in Nat /\ Len(addrs) + 1 < Max
    BY DEF Typed, Room
  <2>3. Max <= BITMAP_LIMIT /\ Max \in Nat
    BY ArgsTypes DEF Typed
  <2>4. BITMAP_LIMIT = 32
    BY DEF BITMAP_LIMIT
  <2>5. Len(addrs) \in 0 .. BITMAP_LIMIT - 1
    <3>1. \A i, m \in Nat : i + 1 < m /\ m <= 32 => i \in 0 .. 32 - 1
      OBVIOUS
    <3>2. QED  BY <2>2, <2>3, <2>4, <3>1, Zenon
  <2>6. QED  BY <2>1, <2>5
<1>2. merge \in Merging /\ merge.pcr \in Router \cup {Null} /\ merge.cr \in Router \cup {Null}
  BY DEF Typed, Room, Merging
<1>3. set_txg_router \in {[merge EXCEPT !.icr = n],
          [merge EXCEPT !.cr = r, !.icr = n, !.init_hops = T.hops[r]],
          [merge EXCEPT !.cr = merge.pcr, !.pcr = Null],
          [merge EXCEPT !.cr = r], merge}
  BY DEF set_txg_router
<1>4. args.merge_range = 0 => set_txg_router = [merge EXCEPT !.icr = n] /\ merge.cr = Null
  BY DEF set_txg_router, Room
<1>5. args.merge_range # 0 /\ merge.cr = Null =>
          set_txg_router = [merge EXCEPT !.cr = r, !.icr = n, !.init_hops = T.hops[r]]
  BY DEF set_txg_router
<1>6. args.merge_range # 0 /\ merge.cr # Null =>
          \/ set_txg_router = [merge EXCEPT !.cr = merge.pcr, !.pcr = Null] /\ merge.pcr # Null
          \/ set_txg_router = [merge EXCEPT !.cr = r]
          \/ set_txg_router = merge
  BY DEF set_txg_router
<1> HIDE DEF n
<1>7. CASE args.merge_range = 0
  BY <1>1, <1>2, <1>4, <1>7 DEF Merging, n
<1>8. CASE args.merge_range # 0 /\ merge.cr = Null
  BY <1>1, <1>2, <1>5, <1>8 DEF Merging, n
<1>9. CASE args.merge_range # 0 /\ merge.cr # Null
  BY <1>1, <1>2, <1>6, <1>9 DEF Merging, Hub
<1>10. QED  BY <1>7, <1>8, <1>9

\* add2txg writes m receivers, and the router if it needs a place.
LEMMA AddBounded ==
    ASSUME Typed, Room, gpc = "fill", fleaf[r] > 0,
           NEW m \in Nat, m <= fleaf[r], add2txg(m)
    PROVE  /\ merge' \in Merging
           /\ merge'.pcr \in Router \cup {Null}
           /\ args.merge_range = 0 => merge'.cr = Null
           /\ bm' \subseteq 0 .. BITMAP_LIMIT - 1
           /\ addrs' \in Seq(Addresses)
           /\ Len(addrs') = Len(addrs) + p + m
           /\ fleaf' = [fleaf EXCEPT ![r] = @ - m]
           /\ fleaf' \in [Hub -> Nat]
           /\ \A q \in Hub : fleaf'[q] <= T.nleaf[q]
<1> DEFINE new == set_txg_router
           opens == args.merge_range = 0 \/ merge.cr = Null
           to == IF opens THEN Append(addrs, Address(r))
                 ELSE [addrs EXCEPT ![merge.icr + 1] = Address(new.cr)]
<1>1. merge' = new /\ bm' = (IF opens THEN bm \cup {new.icr} ELSE bm)
      /\ addrs' = to \o FreeLeafs(r, m) /\ fleaf' = [fleaf EXCEPT ![r] = @ - m]
  BY DEF add2txg
<1>2. /\ r \in Router /\ r \in Hub
      /\ fleaf \in [Hub -> Nat] /\ T.nleaf \in [Hub -> Nat]
      /\ \A q \in Hub : fleaf[q] <= T.nleaf[q]
      /\ bm \subseteq 0 .. BITMAP_LIMIT - 1 /\ addrs \in Seq(Addresses) /\ p \in {0, 1}
      /\ p = 1 <=> opens
  BY TreeTypes DEF Typed, GTypeOK, Hub, Room
<1>3. new \in Merging /\ (~opens => new.cr \in Router)
  BY NewMerging
<1>4. to \in Seq(Addresses) /\ Len(to) = Len(addrs) + p
  <2>1. CASE opens
    <3>1. Address(r) \in Addresses
      BY <1>2 DEF Address, Addresses
    <3>2. QED  BY <2>1, <3>1, <1>2
  <2>2. CASE ~opens
    <3>1. Address(new.cr) \in Addresses
      BY <1>3, <2>2 DEF Address, Addresses, Hub
    <3> HIDE DEF new
    <3>2. to = [addrs EXCEPT ![merge.icr + 1] = Address(new.cr)] /\ p = 0
      BY <2>2, <1>2
    <3>3. to \in Seq(Addresses) /\ Len(to) = Len(addrs)
      <4>1. addrs \in [1 .. Len(addrs) -> Addresses] /\ Len(addrs) \in Nat
        BY <1>2
      <4> HIDE DEF to
      <4>2. to \in [1 .. Len(addrs) -> Addresses]
        BY <4>1, <3>1, <3>2
      <4> HIDE DEF to
      <4>3. to \in Seq(Addresses) /\ Len(to) = Len(addrs)
        BY <4>1, <4>2
      <4>4. QED  BY <4>3
    <3>4. QED  BY <3>2, <3>3, <1>2
  <2>3. QED  BY <2>1, <2>2
<1>5. FreeLeafs(r, m) \in Seq(Addresses) /\ Len(FreeLeafs(r, m)) = m
  <2>1. \A i \in 1 .. m : T.nleaf[r] - fleaf[r] + i \in Nat
    BY <1>2
  <2>2. \A i \in 1 .. m : <<r, T.nleaf[r] - fleaf[r] + i>> \in Addresses
    BY <1>2, <2>1 DEF Addresses
  <2>3. QED  BY <2>2 DEF FreeLeafs
<1> HIDE DEF new, to, opens
<1>6. addrs' \in Seq(Addresses) /\ Len(addrs') = Len(addrs) + p + m
  BY <1>1, <1>2, <1>4, <1>5
<1>7. bm' \subseteq 0 .. BITMAP_LIMIT - 1
  BY <1>1, <1>2, <1>3 DEF Merging
<1>8. fleaf' \in [Hub -> Nat] /\ \A q \in Hub : fleaf'[q] <= T.nleaf[q]
  BY <1>1, <1>2
<1>9. merge'.pcr \in Router \cup {Null} /\ (args.merge_range = 0 => merge'.cr = Null)
  BY <1>1, NewMerging DEF new
<1>10. QED  BY <1>1, <1>3, <1>6, <1>7, <1>8, <1>9

-----------------------------------------------------------------------------
\* Counters stay counters.
Counters == {fc \in [Hub -> Nat] : \A q \in Hub : fc[q] <= Len(T.child[q])}

LEMMA BackCounters ==
    ASSUME GroupTree(T), NEW q \in Hub, NEW fl, NEW fc \in Counters
    PROVE  back_propagate(q, fl, fc) \in Counters
<1>1. CASE Spent(q, fl, fc)
  <2>1. q \in Router
    BY <1>1 DEF Spent, Hub
  <2>2. T.parent[q] \in Hub
    BY <2>1, TreeTypes
  <2> DEFINE v == IF fc[T.parent[q]] > 0 THEN fc[T.parent[q]] - 1 ELSE fc[T.parent[q]]
  <2>3. back_propagate(q, fl, fc) = [fc EXCEPT ![T.parent[q]] = v]
    BY <1>1 DEF back_propagate
  <2>4. v \in Nat /\ v <= fc[T.parent[q]]
    BY <2>2 DEF Counters
  <2>5. \A c \in Hub : Len(T.child[c]) \in Nat
    BY TreeTypes
  <2> HIDE DEF v
  <2>6. QED  BY <2>2, <2>3, <2>4, <2>5 DEF Counters
<1>2. CASE ~Spent(q, fl, fc)
  BY <1>2 DEF back_propagate
<1>3. QED  BY <1>1, <1>2

LEMMA RecCounters ==
    ASSUME GroupTree(T), fchild \in Counters, NEW q \in Hub, NEW fl
    PROVE  rec_back_propagate(q, fl) \in Counters
<1>1. PICK f : /\ f[0] = [at |-> q, fc |-> fchild]
               /\ \A i \in 1 .. N : f[i] = RecStep(f[i - 1], fl)
               /\ rec_back_propagate(q, fl) = f[N].fc
  BY RecTurns
<1> DEFINE Good(t) == t.at \in Hub /\ t.fc \in Counters
           Bad == {i \in 0 .. N : ~Good(f[i])}
<1>2. ASSUME NEW t, Good(t) PROVE Good(RecStep(t, fl))
  <2>1. CASE Spent(t.at, fl, t.fc)
    <3>1. T.parent[t.at] \in Hub
      BY <1>2, <2>1, TreeTypes DEF Spent, Hub
    <3>2. RecStep(t, fl) = [at |-> T.parent[t.at], fc |-> back_propagate(t.at, fl, t.fc)]
      BY <2>1 DEF RecStep
    <3>3. back_propagate(t.at, fl, t.fc) \in Counters
      BY <1>2, BackCounters
    <3>4. QED  BY <3>1, <3>2, <3>3
  <2>2. CASE ~Spent(t.at, fl, t.fc)
    BY <1>2, <2>2 DEF RecStep
  <2>3. QED  BY <2>1, <2>2
<1>3. Good(f[0])
  BY <1>1
<1> HIDE DEF Good
<1>4. Bad = {}
  <2> SUFFICES ASSUME Bad # {} PROVE FALSE
    OBVIOUS
  <2>0. Bad \in SUBSET Nat
    BY NType
  <2>1. PICK k \in Bad : \A m \in Bad : k <= m
    BY <2>0, NatMin
  <2>2. k # 0
    BY <2>1, <1>3
  <2>3. k \in 1 .. N /\ k - 1 \in 0 .. N
    BY <2>1, <2>2, NType
  <2>4. Good(f[k - 1])
    BY <2>1, <2>3, NType
  <2>5. Good(f[k])
    BY <2>3, <2>4, <1>1, <1>2
  <2>6. QED  BY <2>1, <2>5
<1>5. QED  BY <1>1, <1>4, NType DEF Good

-----------------------------------------------------------------------------
\* The search for a start touches no header.
LEMMA SearchBounded ==
    ASSUME Bounded,
           get_start \/ Descend \/ Found \/ Retry \/ Remaining
    PROVE  Bounded'
<1>1. /\ T' = T /\ args' = args /\ merge' = merge /\ addrs' = addrs
      /\ fchild' = fchild /\ bm' = bm /\ p' = p
      /\ gpc \in {"get_start", "descend"}
  BY DEF get_start, Descend, Found, Retry, Remaining
<1>2. Typed /\ Room
  BY DEF Bounded
<1>3. fleaf' \in [Hub -> Nat] /\ \A q \in Hub : fleaf'[q] <= T.nleaf[q]
  <2>1. fleaf' = fleaf \/ fleaf' = [fleaf EXCEPT ![Root] = 0]
    BY DEF get_start, Descend, Found, Retry, Remaining
  <2>2. fleaf \in [Hub -> Nat] /\ (\A q \in Hub : fleaf[q] <= T.nleaf[q])
        /\ T.nleaf \in [Hub -> Nat] /\ Root \in Hub
    BY <1>2, TreeTypes DEF Typed, GTypeOK, Hub
  <2>3. QED  BY <2>1, <2>2
<1>4. /\ r' \in Hub /\ (gpc' \in {"start", "fill"} => r' \in Router)
      /\ s' \in Router \cup {Null}
      /\ gpc' \in {"get_start", "descend", "start", "done"}
  <2>1. r \in Hub /\ s \in Router \cup {Null} /\ Root \in Hub
    BY <1>2 DEF Typed, GTypeOK, Hub
  <2>2. CASE get_start
    BY <2>1, <2>2 DEF get_start, Hub
  <2>3. CASE Descend
    <3>1. get_free_router(r) \in Router
      BY <1>2, <2>1, <2>3, FreeRouter DEF Descend, Typed
    <3>2. QED  BY <3>1, <2>1, <2>3 DEF Descend, Hub
  <2>4. CASE Found
    BY <2>1, <2>4 DEF Found, Hub
  <2>5. CASE Retry
    <3>1. T.parent[r] \in Hub
      BY <1>2, <2>1, <2>5, TreeTypes DEF Retry, Typed, Hub
    <3>2. QED  BY <3>1, <2>1, <2>5 DEF Retry
  <2>6. CASE Remaining
    BY <2>1, <2>6 DEF Remaining
  <2>7. QED  BY <2>2, <2>3, <2>4, <2>5, <2>6
<1>5. GTypeOK'
  BY <1>1, <1>2, <1>3, <1>4 DEF Typed, GTypeOK
<1>6. Room'
  <2>1. /\ addrs = << >> /\ bm = {} /\ merge.cr = Null /\ Len(addrs) = 0
        /\ (args.merge_range = 0 => merge.cr = Null)
    BY <1>1, <1>2 DEF Room
  <2>2. Max' = Max /\ Len(addrs) + 1 < Max /\ Len(addrs) <= Max
    BY <1>1, <1>2, <2>1, ArgsTypes DEF Typed, Max
  <2>3. merge.pcr \in Router \cup {Null}
    BY <1>1, <1>2 DEF Room
  <2>4. QED  BY <1>1, <1>4, <2>1, <2>2, <2>3 DEF Room
<1>7. QED  BY <1>1, <1>2, <1>5, <1>6 DEF Bounded, Typed

\* The walk: each header is opened, filled and finished.
LEMMA EnterBounded ==
    ASSUME Bounded, Enter
    PROVE  Bounded'
<1>1. /\ Typed /\ Room /\ r \in Router
      /\ T' = T /\ args' = args /\ addrs' = addrs /\ bm' = bm /\ r' = r /\ s' = s
      /\ fleaf' = fleaf /\ fchild' = fchild /\ gpc = "start" /\ gpc' = "fill"
  BY DEF Bounded, Enter, Typed, GTypeOK
<1>2. reset_merging_stats \in Merging /\ reset_merging_stats.cr = Null
      /\ reset_merging_stats.pcr = Null
  BY DEF reset_merging_stats, Merging, BITMAP_LIMIT
<1>3. /\ p' \in {0, 1} /\ merge' \in Merging /\ merge'.pcr \in Router \cup {Null}
      /\ (args.merge_range = 0 => merge'.cr = Null)
      /\ (p' = 1 <=> args.merge_range = 0 \/ merge'.cr = Null)
  <2>1. CASE is_mergeable(r)
    <3>1. p' = 0 /\ merge' = merge
      BY <2>1, <1>1 DEF Enter
    <3>2. merge.cr # Null /\ args.merge_range # 0
      BY <2>1, <1>1 DEF is_mergeable, Room
    <3>3. QED  BY <3>1, <3>2, <1>1 DEF Typed, Room
  <2>2. CASE ~is_mergeable(r)
    <3>1. p' = 1 /\ merge' = (IF merge.cr # Null THEN reset_merging_stats ELSE merge)
      BY <2>2 DEF Enter
    <3>2. QED  BY <3>1, <1>1, <1>2 DEF Typed, Room
  <2>3. QED  BY <2>1, <2>2
<1>4. Max' = Max
  BY <1>1 DEF Max
<1>5. Room'
  BY <1>1, <1>3, <1>4 DEF Room
<1>6. GTypeOK'
  <2>1. /\ merge'.cr \in Router \cup {Null} /\ merge'.pcr \in Hub \cup {Null}
        /\ merge'.icr \in 0 .. BITMAP_LIMIT - 1 /\ merge'.init_hops \in Nat
    BY <1>3 DEF Merging
  <2>2. QED  BY <1>1, <1>3, <2>1 DEF Typed, GTypeOK
<1>7. Typed'
  BY <1>1, <1>3, <1>6 DEF Typed
<1>8. QED  BY <1>5, <1>7 DEF Bounded

LEMMA FillBounded ==
    ASSUME Bounded, Split \/ Complete \/ Fill
    PROVE  Bounded'
<1>1. /\ Typed /\ Room /\ gpc = "fill" /\ fleaf[r] > 0 /\ r \in Router /\ r \in Hub
      /\ T' = T /\ args' = args /\ r' = r /\ s' = s /\ p' = p
      /\ fleaf \in [Hub -> Nat] /\ fleaf[r] \in Nat
      /\ p \in {0, 1} /\ Len(addrs) \in Nat /\ Max \in Nat
      /\ Len(addrs) + 1 < Max
  <2>1. Typed /\ Room /\ gpc = "fill" /\ fleaf[r] > 0
    BY DEF Bounded, Split, Complete, Fill
  <2>2. T' = T /\ args' = args /\ r' = r /\ s' = s /\ p' = p
    BY DEF Split, Complete, Fill
  <2>3. r \in Router /\ r \in Hub /\ fleaf \in [Hub -> Nat] /\ p \in {0, 1}
        /\ Len(addrs) \in Nat /\ Max \in Nat
    BY <2>1, ArgsTypes DEF Typed, GTypeOK
  <2>4. fleaf[r] \in Nat /\ Len(addrs) + 1 < Max
    BY <2>1, <2>3 DEF Room
  <2>5. QED  BY <2>1, <2>2, <2>3, <2>4
<1>2. Max' = Max
  BY <1>1 DEF Max
<1>3. \E m \in Nat :
          /\ m <= fleaf[r] /\ add2txg(m) /\ Len(addrs) + p + m <= Max
          /\ (gpc' = "fill" => m = fleaf[r] /\ Len(addrs) + p + m + 1 < Max)
          /\ gpc' \in {"fill", "next"}
  <2>1. CASE Split
    <3> DEFINE m == Max - Len(addrs) - p
    <3>1. m \in Nat /\ Len(addrs) + p + m <= Max
      BY <1>1
    <3>2. m <= fleaf[r]
      BY <1>1, <2>1 DEF Split, Need
    <3>3. add2txg(m) /\ gpc' = "next"
      BY <2>1 DEF Split
    <3> HIDE DEF m
    <3>4. QED  BY <3>1, <3>2, <3>3
  <2>2. CASE Complete
    <3>1. Len(addrs) + p + fleaf[r] <= Max
      BY <1>1, <2>2 DEF Complete, Need
    <3>2. add2txg(fleaf[r]) /\ gpc' = "next"
      BY <2>2 DEF Complete
    <3>3. QED  BY <1>1, <3>1, <3>2
  <2>3. CASE Fill
    <3>1. ~ (Need >= Max - 1) /\ Need <= Max
      BY <2>3 DEF Fill, FullEnough
    <3>2. Len(addrs) + p + fleaf[r] <= Max /\ Len(addrs) + p + fleaf[r] + 1 < Max
      BY <1>1, <3>1 DEF Need
    <3>3. add2txg(fleaf[r]) /\ gpc' = "fill"
      BY <2>3, <1>1 DEF Fill
    <3>4. QED  BY <1>1, <3>2, <3>3
  <2>4. QED  BY <2>1, <2>2, <2>3
<1>4. PICK m \in Nat :
          /\ m <= fleaf[r] /\ add2txg(m) /\ Len(addrs) + p + m <= Max
          /\ (gpc' = "fill" => m = fleaf[r] /\ Len(addrs) + p + m + 1 < Max)
          /\ gpc' \in {"fill", "next"}
  BY <1>3
<1>5. /\ merge' \in Merging
      /\ merge'.pcr \in Router \cup {Null}
      /\ args.merge_range = 0 => merge'.cr = Null
      /\ bm' \subseteq 0 .. BITMAP_LIMIT - 1
      /\ addrs' \in Seq(Addresses)
      /\ Len(addrs') = Len(addrs) + p + m
      /\ fleaf' = [fleaf EXCEPT ![r] = @ - m]
      /\ fleaf' \in [Hub -> Nat]
      /\ \A q \in Hub : fleaf'[q] <= T.nleaf[q]
  BY <1>1, <1>4, AddBounded
<1>6. fchild' \in Counters
  <2>1. fchild \in Counters
    BY <1>1 DEF Typed, GTypeOK, Counters
  <2>2. fchild' = fchild \/ fchild' = rec_back_propagate(r, fleaf')
    BY DEF Split, Complete, Fill
  <2>3. rec_back_propagate(r, fleaf') \in Counters
    BY <1>1, <2>1, RecCounters DEF Typed
  <2>4. QED  BY <2>1, <2>2, <2>3
<1>7. gpc' = "fill" => fleaf'[r] = 0
  BY <1>1, <1>4, <1>5
<1>8. Room'
  <2>1. Len(addrs') <= Max
    BY <1>4, <1>5, <1>1
  <2>2. gpc' = "fill" => Len(addrs') + 1 < Max
    BY <1>4, <1>5, <1>1
  <2>3. (gpc' = "fill" /\ fleaf'[r'] > 0) => FALSE
    BY <1>1, <1>7
  <2>4. QED  BY <1>1, <1>2, <1>4, <1>5, <2>1, <2>2, <2>3 DEF Room
<1>9. GTypeOK'
  <2>1. merge'.cr \in Router \cup {Null} /\ merge'.pcr \in Hub \cup {Null}
        /\ merge'.icr \in 0 .. BITMAP_LIMIT - 1 /\ merge'.init_hops \in Nat
    BY <1>5 DEF Merging
  <2>2. /\ r' \in Hub /\ (gpc' \in {"start", "fill"} => r' \in Router)
        /\ s' \in Router \cup {Null} /\ p' \in {0, 1}
    BY <1>1 DEF Typed, GTypeOK
  <2>3. QED  BY <1>1, <1>4, <1>5, <1>6, <2>1, <2>2 DEF GTypeOK, Counters
<1>10. Typed'
  BY <1>1, <1>5, <1>9 DEF Typed, Merging, Addresses, Hub
<1>11. QED  BY <1>8, <1>10 DEF Bounded

LEMMA MoveBounded ==
    ASSUME Bounded, NoRoom \/ Down \/ Up
    PROVE  Bounded'
<1>1. /\ Typed /\ Room /\ gpc = "fill" /\ r \in Router /\ r \in Hub
      /\ T' = T /\ args' = args /\ s' = s /\ p' = p /\ fleaf' = fleaf
      /\ addrs' = addrs /\ bm' = bm /\ Len(addrs) \in Nat /\ Max \in Nat
  <2>1. Typed /\ Room /\ gpc = "fill"
    BY DEF Bounded, NoRoom, Down, Up
  <2>2. r \in Router /\ r \in Hub /\ Len(addrs) \in Nat /\ Max \in Nat
    BY <2>1, ArgsTypes DEF Typed, GTypeOK
  <2>3. T' = T /\ args' = args /\ s' = s /\ p' = p /\ fleaf' = fleaf /\ addrs' = addrs /\ bm' = bm
    BY DEF NoRoom, Down, Up
  <2>4. QED  BY <2>1, <2>2, <2>3
<1>2. Max' = Max
  BY <1>1 DEF Max
<1>3. T.parent[r] \in Hub
  BY <1>1, TreeTypes DEF Typed
<1>4. /\ merge' \in Merging /\ merge'.cr = merge.cr
      /\ (gpc' # "next" => merge'.pcr \in Router \cup {Null})
  <2>1. merge \in Merging /\ merge.pcr \in Router \cup {Null}
    BY <1>1 DEF Typed, Room
  <2>2. CASE NoRoom \/ Down
    BY <2>1, <2>2 DEF NoRoom, Down
  <2>3. CASE Up
    <3>1. merge' = merge \/ merge' = [merge EXCEPT !.pcr = T.parent[r]]
      BY <2>3 DEF Up
    <3>2. gpc' # "next" => T.parent[r] \in Router
      BY <2>3, <1>3 DEF Up, Hub
    <3>3. QED  BY <2>1, <3>1, <3>2, <1>3 DEF Merging
  <2>4. QED  BY <2>2, <2>3
<1>5. r' \in Hub /\ (gpc' # "next" => r' \in Router) /\ gpc' \in {"start", "next"}
  <2>1. CASE NoRoom
    BY <1>1, <2>1 DEF NoRoom
  <2>2. CASE Down
    BY <1>1, <2>2, FreeRouter DEF Down, Typed, Hub
  <2>3. CASE Up
    BY <1>3, <2>3 DEF Up, Hub
  <2>4. QED  BY <2>1, <2>2, <2>3
<1>6. fchild' \in Counters
  <2>1. fchild \in Counters
    BY <1>1 DEF Typed, GTypeOK, Counters
  <2>2. fchild' = fchild \/ fchild' = back_propagate(r, fleaf, fchild)
    BY DEF NoRoom, Down, Up
  <2>3. QED  BY <1>1, <2>1, <2>2, BackCounters DEF Typed
<1>7. Room'
  BY <1>1, <1>2, <1>4, <1>5 DEF Room
<1>8. GTypeOK'
  <2>1. merge'.cr \in Router \cup {Null} /\ merge'.pcr \in Hub \cup {Null}
        /\ merge'.icr \in 0 .. BITMAP_LIMIT - 1 /\ merge'.init_hops \in Nat
    BY <1>4 DEF Merging
  <2>2. QED  BY <1>1, <1>5, <1>6, <2>1 DEF GTypeOK, Typed, Counters
<1>9. QED  BY <1>1, <1>4, <1>7, <1>8 DEF Bounded, Typed, Merging

LEMMA FinishBounded ==
    ASSUME Bounded, finish_txg
    PROVE  Bounded'
<1>1. /\ Typed /\ T' = T /\ args' = args /\ r' = r /\ s' = s /\ p' = p
      /\ fleaf' = fleaf /\ fchild' = fchild /\ addrs' = << >> /\ bm' = {}
      /\ merge' = reset_merging_stats /\ gpc' = "get_start"
  BY DEF Bounded, finish_txg
<1>2. reset_merging_stats \in Merging /\ reset_merging_stats.cr = Null
      /\ reset_merging_stats.pcr = Null
  BY DEF reset_merging_stats, Merging, BITMAP_LIMIT
<1>3. << >> \in Seq(Addresses) /\ Len(<< >>) = 0
  OBVIOUS
<1>4. Max' = Max /\ 0 <= Max
  BY <1>1, ArgsTypes DEF Max, Typed
<1>5. Room'
  BY <1>1, <1>2, <1>3, <1>4 DEF Room
<1>6. GTypeOK'
  BY <1>1, <1>2 DEF Typed, GTypeOK, Merging
<1>7. QED  BY <1>1, <1>2, <1>3, <1>5, <1>6 DEF Bounded, Typed, Merging, Addresses, Hub

LEMMA StepBounded == Bounded /\ [GNext]_gvars => Bounded'
<1> SUFFICES ASSUME Bounded, [GNext]_gvars PROVE Bounded'
  OBVIOUS
<1>1. CASE get_start \/ Descend \/ Found \/ Retry \/ Remaining
  BY <1>1, SearchBounded
<1>2. CASE Enter
  BY <1>2, EnterBounded
<1>3. CASE Split \/ Complete \/ Fill
  BY <1>3, FillBounded
<1>4. CASE NoRoom \/ Down \/ Up
  BY <1>4, MoveBounded
<1>5. CASE finish_txg
  BY <1>5, FinishBounded
<1>6. CASE UNCHANGED gvars
  <2>1. Typed'
    BY <1>6 DEF gvars, Bounded, Typed, GTypeOK, Merging, Addresses, Hub
  <2>2. Room'
    BY <1>6 DEF gvars, Bounded, Room, Max
  <2>3. QED  BY <2>1, <2>2 DEF Bounded
<1>7. QED  BY <1>1, <1>2, <1>3, <1>4, <1>5, <1>6 DEF GNext, Step, Finished

\* greedy_grouping: no header is overrun, no router gets a bit that the bitmap does
\* not have, and `max - n - p' does not wrap.
THEOREM HeadersInBounds == GSpec => []InBounds
<1>1. Bounded => InBounds
  <2> SUFFICES ASSUME Bounded PROVE InBounds
    OBVIOUS
  <2>1. Max \in Nat /\ Max <= args.max_addrs /\ Max <= BITMAP_LIMIT
        /\ args.max_addrs \in Nat /\ BITMAP_LIMIT \in Nat /\ Len(addrs) \in Nat
    BY ArgsTypes DEF Bounded, Typed, BITMAP_LIMIT
  <2>2. Len(addrs) <= Max /\ GTypeOK
    BY DEF Bounded, Room, Typed
  <2>3. gpc = "fill" => Len(addrs) + 1 < Max
    BY DEF Bounded, Room
  <2>4. p \in {0, 1}
    BY <2>2 DEF GTypeOK
  <2>5. \A l, m, b, a \in Nat : l <= m /\ m <= a /\ m <= b => l <= a /\ l <= b
    OBVIOUS
  <2>6. Len(addrs) <= args.max_addrs /\ Len(addrs) <= BITMAP_LIMIT
    BY <2>1, <2>2, <2>5, Zenon
  <2>7. gpc = "fill" => Len(addrs) + p < Max
    BY <2>1, <2>3, <2>4
  <2>8. QED  BY <2>2, <2>6, <2>7 DEF InBounds
<1>2. QED  BY <1>1, InitBegun, InitBounded, StepBounded, PTL DEF GSpec

-----------------------------------------------------------------------------
\* The routers above a router.  That the recursive function Above exists, and is
\* what it should be, is shown with the smallest sets that are closed upwards.
Closed(U) == U \subseteq Router /\ \A x \in U : T.parent[x] # Root => T.parent[x] \in U

Way(q) == {x \in Router : \A U \in SUBSET Router : Closed(U) /\ q \in U => x \in U}

LEMMA WayBasic ==
    ASSUME GroupTree(T), NEW q \in Router
    PROVE  /\ q \in Way(q) /\ Closed(Way(q))
           /\ Way(q) = {q} \cup (IF T.parent[q] = Root THEN {} ELSE Way(T.parent[q]))
<1>1. T.parent[q] # Root => T.parent[q] \in Router
  BY TreeTypes DEF Hub
<1>2. \A x \in Router : x \in Way(x) /\ Closed(Way(x))
  <2> TAKE x \in Router
  <2>1. x \in Way(x)
    BY DEF Way
  <2>2. ASSUME NEW y \in Way(x), T.parent[y] # Root PROVE T.parent[y] \in Way(x)
    <3>1. y \in Router /\ T.parent[y] \in Router
      BY <2>2, TreeTypes DEF Way, Hub
    <3>2. ASSUME NEW U \in SUBSET Router, Closed(U), x \in U PROVE T.parent[y] \in U
      <4>1. y \in U
        BY <3>2 DEF Way
      <4>2. QED  BY <4>1, <3>2, <2>2 DEF Closed
    <3>3. QED  BY <3>1, <3>2 DEF Way
  <2>3. Way(x) \subseteq Router
    BY DEF Way
  <2>4. QED  BY <2>1, <2>2, <2>3 DEF Closed
<1> DEFINE R == {q} \cup (IF T.parent[q] = Root THEN {} ELSE Way(T.parent[q]))
<1>3. Closed(R) /\ q \in R /\ R \in SUBSET Router
  BY <1>1, <1>2 DEF Closed
<1>4. Way(q) \subseteq R
  BY <1>3 DEF Way
<1>5. R \subseteq Way(q)
  <2>1. q \in Way(q)
    BY <1>2
  <2>2. ASSUME T.parent[q] # Root, NEW x \in Way(T.parent[q]) PROVE x \in Way(q)
    <3>1. ASSUME NEW U \in SUBSET Router, Closed(U), q \in U PROVE x \in U
      <4>1. T.parent[q] \in U
        BY <3>1, <2>2 DEF Closed
      <4>2. QED  BY <4>1, <3>1, <2>2 DEF Way
    <3>2. x \in Router
      BY <2>2 DEF Way
    <3>3. QED  BY <3>1, <3>2 DEF Way
  <2>3. QED  BY <2>1, <2>2
<1>6. QED  BY <1>2, <1>4, <1>5

LEMMA AboveEquation ==
    ASSUME GroupTree(T)
    PROVE  \A q \in Router :
               Above[q] = {q} \cup (IF T.parent[q] = Root THEN {} ELSE Above[T.parent[q]])
<1> DEFINE F(f) == [q \in Router |->
               {q} \cup (IF T.parent[q] = Root THEN {} ELSE f[T.parent[q]])]
           W == [q \in Router |-> Way(q)]
<1>1. W = F(W)
  <2>1. \A q \in Router : T.parent[q] # Root => T.parent[q] \in Router
    BY TreeTypes DEF Hub
  <2>2. \A q \in Router :
            Way(q) = {q} \cup (IF T.parent[q] = Root THEN {} ELSE W[T.parent[q]])
    BY <2>1, WayBasic
  <2>3. QED  BY <2>2
<1>2. Above = CHOOSE f : f = F(f)
  BY Zenon DEF Above
<1>3. Above = F(Above)
  <2> HIDE DEF W, F
  <2>1. \E f : f = F(f)
    BY <1>1
  <2>2. QED  BY <1>2, <2>1
<1> HIDE DEF W
<1>4. QED  BY <1>3, Zenon

LEMMA AboveIsWay ==
    ASSUME GroupTree(T)
    PROVE  \A q \in Router : Above[q] = Way(q)
<1> DEFINE Bad == {q \in Router : Above[q] # Way(q)}
<1> SUFFICES ASSUME Bad # {} PROVE FALSE
  OBVIOUS
<1>1. Bad \in SUBSET Router
  OBVIOUS
<1>2. PICK q \in Bad : T.parent[q] \notin Bad
  BY <1>1, TreeTypes
<1>3. T.parent[q] # Root => T.parent[q] \in Router
  BY TreeTypes DEF Hub
<1>4. Above[q] = {q} \cup (IF T.parent[q] = Root THEN {} ELSE Above[T.parent[q]])
  BY AboveEquation
<1>5. Way(q) = {q} \cup (IF T.parent[q] = Root THEN {} ELSE Way(T.parent[q]))
  BY WayBasic
<1>6. T.parent[q] # Root => Above[T.parent[q]] = Way(T.parent[q])
  BY <1>2, <1>3
<1>7. QED  BY <1>4, <1>5, <1>6

\* The routers from q upwards, for the root too.
Anc(q) == IF q = Root THEN {} ELSE Above[q]

LEMMA AncFacts ==
    ASSUME GroupTree(T)
    PROVE  /\ Anc(Root) = {}
           /\ \A q \in Router : Anc(q) = Above[q] /\ q \in Anc(q)
           /\ \A q \in Router : Anc(q) = {q} \cup Anc(T.parent[q])
           /\ \A q \in Hub : Anc(q) \subseteq Router
           /\ \A q \in Router : q \notin Anc(T.parent[q])
           /\ \A q \in Hub : \A a \in Anc(q) : T.hops[a] <= T.hops[q]
           /\ \A q \in Hub : \A a \in Anc(q) : Anc(a) \subseteq Anc(q)
<1>1. \A q \in Router : q # Root
  BY RouterAssumption
<1>2. \A q \in Router : Anc(q) = Above[q] /\ Anc(q) = Way(q)
  BY <1>1, AboveIsWay DEF Anc
<1>3. Anc(Root) = {}
  BY DEF Anc
<1>4. \A q \in Router : q \in Anc(q) /\ Anc(q) \subseteq Router
  BY <1>2, WayBasic DEF Way
<1>5. ASSUME NEW q \in Router PROVE Anc(q) = {q} \cup Anc(T.parent[q])
  <2>1. T.parent[q] = Root \/ T.parent[q] \in Router
    BY TreeTypes DEF Hub
  <2>2. Way(q) = {q} \cup (IF T.parent[q] = Root THEN {} ELSE Way(T.parent[q]))
    BY WayBasic
  <2>3. QED  BY <2>1, <2>2, <1>1, <1>2, <1>3
<1>6. ASSUME NEW q \in Router, NEW a \in Anc(q) PROVE T.hops[a] <= T.hops[q]
  <2> DEFINE U == {x \in Router : T.hops[x] <= T.hops[q]}
  <2>1. Closed(U)
    <3>1. ASSUME NEW x \in U, T.parent[x] # Root PROVE T.parent[x] \in U
      <4>1. T.parent[x] \in Router /\ T.hops[T.parent[x]] <= T.hops[x]
        BY <3>1, TreeTypes DEF Hub
      <4>2. T.hops[T.parent[x]] \in Nat /\ T.hops[x] \in Nat /\ T.hops[q] \in Nat
        BY <4>1, TreeTypes DEF Hub
      <4>3. QED  BY <4>1, <4>2
    <3>2. QED  BY <3>1 DEF Closed
  <2>2. q \in U /\ U \in SUBSET Router
    BY TreeTypes DEF Hub
  <2>3. a \in Way(q)
    BY <1>2, <1>6
  <2>4. a \in U
    BY <2>1, <2>2, <2>3 DEF Way
  <2>5. QED  BY <2>4
<1>7. ASSUME NEW q \in Router PROVE q \notin Anc(T.parent[q])
  <2> SUFFICES ASSUME q \in Anc(T.parent[q]) PROVE FALSE
    OBVIOUS
  <2> DEFINE U == {x \in Router : q \in Anc(x)}
  <2>1. U \in SUBSET Router /\ q \in U
    BY <1>4
  <2>2. ASSUME NEW x \in U PROVE T.parent[x] \in U
    <3>1. q \in Anc(T.parent[x])
      BY <1>5
    <3>2. T.parent[x] \in Router
      BY <3>1, <1>3, TreeTypes DEF Hub
    <3>3. QED  BY <3>1, <3>2
  <2>3. QED  BY <2>1, <2>2, TreeTypes
<1>8. ASSUME NEW q \in Router, NEW a \in Anc(q) PROVE Anc(a) \subseteq Anc(q)
  <2>1. a \in Router /\ a \in Way(q)
    BY <1>2, <1>4, <1>8
  <2>2. \A U \in SUBSET Router : Closed(U) /\ q \in U => a \in U
    BY <2>1 DEF Way
  <2>3. Way(a) \subseteq Way(q)
    BY <2>2 DEF Way
  <2>4. QED  BY <1>2, <2>1, <2>3
<1>9. QED  BY <1>2, <1>3, <1>4, <1>5, <1>6, <1>7, <1>8 DEF Hub

\* Below every router above another one is a router on the way to that one.
LEMMA AncChild ==
    ASSUME GroupTree(T), NEW q \in Router, NEW a \in Anc(q), a # q
    PROVE  \E d \in Anc(q) : T.parent[d] = a
<1> SUFFICES ASSUME \A d \in Anc(q) : T.parent[d] # a PROVE FALSE
  OBVIOUS
<1>1. Anc(q) = Way(q) /\ q # Root
  BY RouterAssumption, AboveIsWay DEF Anc
<1>2. Closed(Way(q)) /\ q \in Way(q) /\ Way(q) \subseteq Router
  BY WayBasic DEF Closed
<1>3. Closed(Way(q) \ {a}) /\ q \in Way(q) \ {a} /\ Way(q) \ {a} \in SUBSET Router
  BY <1>1, <1>2 DEF Closed
<1>4. a \in Way(q)
  BY <1>1
<1>5. a \in Way(q) \ {a}
  <2>1. \A U \in SUBSET Router : Closed(U) /\ q \in U => a \in U
    BY <1>4 DEF Way
  <2>2. QED  BY <2>1, <1>3
<1>6. QED  BY <1>5

-----------------------------------------------------------------------------
\* A router is live as long as there is a free leaf at it or below it.
Live(fl, c) == \E x \in Router : c \in Above[x] /\ fl[x] > 0

Places(q) == 1 .. Len(T.child[q])

LEMMA ChildFacts ==
    ASSUME GroupTree(T), NEW q \in Hub
    PROVE  /\ Len(T.child[q]) \in Nat
           /\ \A i \in Places(q) : /\ T.child[q][i] \in Router /\ T.parent[T.child[q][i]] = q
                                  /\ Used(T, T.child[q][i])
           /\ \A i, j \in Places(q) : T.child[q][i] = T.child[q][j] => i = j
  BY TreeTypes DEF Places

LEMMA PlaceOf ==
    ASSUME GroupTree(T), NEW c \in Router, Used(T, c)
    PROVE  T.parent[c] \in Hub /\ \E i \in Places(T.parent[c]) : T.child[T.parent[c]][i] = c
  BY TreeTypes DEF Places

\* The free leafs of routers that have as many.
Stocks == {fl \in [Hub -> Nat] : \A q \in Hub : fl[q] <= T.nleaf[q]}

\* Above a router with something below it all have something below them.
LEMMA UsedUp ==
    ASSUME GroupTree(T), NEW q \in Router, Used(T, q), NEW a \in Anc(q)
    PROVE  Used(T, a)
<1> DEFINE U == {x \in Router : Used(T, x)}
<1>1. ASSUME NEW x \in U, T.parent[x] # Root PROVE T.parent[x] \in U
  <2>1. T.parent[x] \in Router
    BY <1>1, TreeTypes DEF Hub
  <2>2. PICK i \in Places(T.parent[x]) : T.child[T.parent[x]][i] = x
    BY PlaceOf
  <2>3. T.child[T.parent[x]] # << >>
    BY <2>2 DEF Places
  <2>4. QED  BY <2>1, <2>3 DEF Used
<1>2. Closed(U) /\ q \in U /\ U \in SUBSET Router
  BY <1>1 DEF Closed
<1>3. a \in Way(q)
  BY AncFacts, AboveIsWay
<1>4. QED  BY <1>2, <1>3 DEF Way

LEMMA LiveUsed ==
    ASSUME GroupTree(T), NEW fl \in Stocks, NEW c \in Router, Live(fl, c)
    PROVE  Used(T, c)
<1>1. PICK x \in Router : c \in Above[x] /\ fl[x] > 0
  BY DEF Live
<1>2. T.nleaf[x] > 0
  BY <1>1, TreeTypes DEF Stocks, Hub
<1>3. QED  BY <1>1, <1>2, UsedUp, AncFacts DEF Used

LEMMA LiveUp ==
    ASSUME GroupTree(T), NEW fl, NEW c \in Router, Live(fl, c), NEW a \in Anc(c)
    PROVE  Live(fl, a)
<1>1. PICK x \in Router : c \in Above[x] /\ fl[x] > 0
  BY DEF Live
<1>2. Anc(c) \subseteq Anc(x) /\ Anc(x) = Above[x]
  BY <1>1, AncFacts DEF Hub
<1>3. QED  BY <1>1, <1>2 DEF Live

LEMMA LiveHere ==
    ASSUME GroupTree(T), NEW fl, NEW c \in Router, fl[c] > 0
    PROVE  Live(fl, c)
  BY AncFacts DEF Live

LEMMA LiveLocal ==
    ASSUME GroupTree(T), NEW fl \in Stocks, NEW c \in Router
    PROVE  Live(fl, c) <=> fl[c] > 0 \/ \E j \in Places(c) : Live(fl, T.child[c][j])
<1>1. ASSUME Live(fl, c), ~ (fl[c] > 0)
      PROVE  \E j \in Places(c) : Live(fl, T.child[c][j])
  <2>1. PICK x \in Router : c \in Above[x] /\ fl[x] > 0
    BY <1>1 DEF Live
  <2>2. c # x /\ c \in Anc(x)
    BY <2>1, <1>1, AncFacts
  <2>3. PICK d \in Anc(x) : T.parent[d] = c
    BY <2>2, AncChild
  <2>4. d \in Router /\ d \in Above[x]
    BY <2>3, AncFacts DEF Hub
  <2>5. Live(fl, d)
    BY <2>1, <2>4 DEF Live
  <2>6. PICK j \in Places(c) : T.child[c][j] = d
    BY <2>3, <2>4, <2>5, LiveUsed, PlaceOf
  <2>7. QED  BY <2>5, <2>6
<1>2. ASSUME NEW j \in Places(c), Live(fl, T.child[c][j]) PROVE Live(fl, c)
  <2>1. T.child[c][j] \in Router /\ T.parent[T.child[c][j]] = c
    BY <1>2, ChildFacts DEF Hub
  <2>2. c \in Anc(T.child[c][j])
    BY <2>1, AncFacts
  <2>3. QED  BY <1>2, <2>1, <2>2, LiveUp
<1>3. QED  BY <1>1, <1>2, LiveHere

-----------------------------------------------------------------------------
\* The free counter of every router tells its live children from the others, which
\* come first in its list; but a router from `a' upwards counts as if it was live.
FirstFree(fc, q) == Len(T.child[q]) - fc[q] + 1

Told(fl, fc, a) ==
    \A q \in Hub : \A i \in Places(q) :
        Live(fl, T.child[q][i]) \/ T.child[q][i] \in Anc(a) <=> FirstFree(fc, q) <= i

\* Router b is the first free child of its parent.
AtFront(fc, b) ==
    \A i \in Places(T.parent[b]) :
        T.child[T.parent[b]][i] = b => i = FirstFree(fc, T.parent[b])

Leading(fc, a) == \A b \in Anc(a) : AtFront(fc, b)

\* A child is not above its parent.
LEMMA ChildBelow ==
    ASSUME GroupTree(T), NEW a \in Hub, NEW i \in Places(a)
    PROVE  T.child[a][i] \notin Anc(a)
<1>1. T.child[a][i] \in Router /\ T.parent[T.child[a][i]] = a
  BY ChildFacts
<1>2. QED  BY <1>1, AncFacts

\* What back_propagate does with a router that has nothing free left.
LEMMA DropSpent ==
    ASSUME GroupTree(T), NEW fl \in Stocks, NEW fc \in Counters, NEW a \in Hub,
           Told(fl, fc, a), Leading(fc, a), Spent(a, fl, fc), Used(T, a)
    PROVE  /\ a \in Router
           /\ ~ Live(fl, a)
           /\ Told(fl, back_propagate(a, fl, fc), T.parent[a])
           /\ Leading(back_propagate(a, fl, fc), T.parent[a])
<1> DEFINE q == T.parent[a]
           fd == back_propagate(a, fl, fc)
<1>1. a \in Router /\ fl[a] = 0 /\ fc[a] = 0
  BY DEF Spent, Hub
<1>2. q \in Hub /\ \E i \in Places(q) : T.child[q][i] = a
  BY <1>1, PlaceOf
<1>3. PICK n \in Places(q) : T.child[q][n] = a
  BY <1>2
<1>4. Len(T.child[q]) \in Nat /\ fc[q] \in Nat /\ fc[q] <= Len(T.child[q]) /\ n \in Nat
      /\ n <= Len(T.child[q])
  BY <1>2, ChildFacts DEF Counters, Places
<1>5. a \in Anc(a) /\ Anc(a) = {a} \cup Anc(q) /\ a \notin Anc(q)
  BY <1>1, AncFacts
<1>6. n = FirstFree(fc, q)
  BY <1>3, <1>5 DEF Leading, AtFront
<1>7. fc[q] > 0
  BY <1>4, <1>6 DEF FirstFree
<1>8. fd = [fc EXCEPT ![q] = fc[q] - 1]
  BY <1>7 DEF back_propagate
<1>9. FirstFree(fd, q) = n + 1 /\ \A c \in Hub : c # q => FirstFree(fd, c) = FirstFree(fc, c)
  <2>1. fc \in [Hub -> Nat]
    BY DEF Counters
  <2> HIDE DEF fd, q
  <2>2. fd[q] = fc[q] - 1 /\ \A c \in Hub : c # q => fd[c] = fc[c]
    BY <1>2, <1>8, <2>1
  <2>3. \A c \in Hub : c # q => FirstFree(fd, c) = FirstFree(fc, c)
    BY <2>2 DEF FirstFree
  <2>4. FirstFree(fd, q) = n + 1
    <3>1. /\ FirstFree(fd, q) = Len(T.child[q]) - fd[q] + 1
          /\ n = Len(T.child[q]) - fc[q] + 1
      BY <1>6, Zenon DEF FirstFree
    <3>2. \A l, f \in Nat : l - (f - 1) + 1 = (l - f + 1) + 1
      OBVIOUS
    <3>3. QED  BY <2>2, <3>1, <3>2, <1>4, Zenon
  <2>5. QED  BY <2>3, <2>4
<1>10. ~ Live(fl, a)
  <2>1. ASSUME NEW j \in Places(a), Live(fl, T.child[a][j]) PROVE FALSE
    <3>1. FirstFree(fc, a) <= j
      BY <2>1, <1>1 DEF Told, Hub
    <3>2. Len(T.child[a]) \in Nat
      BY ChildFacts
    <3>3. QED  BY <3>1, <3>2, <1>1, <2>1 DEF FirstFree, Places
  <2>2. QED  BY <2>1, <1>1, LiveLocal
<1>11. Told(fl, fd, q)
  <2> SUFFICES ASSUME NEW c \in Hub, NEW i \in Places(c)
               PROVE  Live(fl, T.child[c][i]) \/ T.child[c][i] \in Anc(q)
                          <=> FirstFree(fd, c) <= i
    BY DEF Told
  <2>1. Live(fl, T.child[c][i]) \/ T.child[c][i] \in Anc(a) <=> FirstFree(fc, c) <= i
    BY DEF Told
  <2>2. T.parent[T.child[c][i]] = c /\ i \in Nat
    BY ChildFacts DEF Places
  <2>3. CASE T.child[c][i] = a
    <3>1. c = q
      BY <2>2, <2>3
    <3>2. i = n
      BY <1>2, <1>3, <2>3, <3>1, ChildFacts
    <3>3. ~ (FirstFree(fd, c) <= i)
      BY <1>9, <3>1, <3>2, <1>4
    <3>4. QED  BY <3>3, <2>3, <1>5, <1>10
  <2>4. CASE T.child[c][i] # a
    <3>1. T.child[c][i] \in Anc(a) <=> T.child[c][i] \in Anc(q)
      BY <2>4, <1>5
    <3>2. FirstFree(fd, c) <= i <=> FirstFree(fc, c) <= i
      <4>1. CASE c # q
        BY <4>1, <1>9
      <4>2. CASE c = q
        <5>1. i # n
          BY <4>2, <2>4, <1>3
        <5>2. QED  BY <5>1, <4>2, <1>6, <1>9, <1>4, <2>2
      <4>3. QED  BY <4>1, <4>2
    <3>3. QED  BY <2>1, <3>1, <3>2
  <2>5. QED  BY <2>3, <2>4
<1>12. Leading(fd, q)
  <2> SUFFICES ASSUME NEW b \in Anc(q) PROVE AtFront(fd, b)
    BY DEF Leading
  <2>1. AtFront(fc, b)
    BY <1>5 DEF Leading
  <2>2. b \in Router
    BY <1>2, AncFacts
  <2>3. T.parent[b] \in Hub /\ T.parent[b] # q
    BY <2>2, AncFacts, TreeTypes
  <2>4. QED  BY <2>1, <2>3, <1>9 DEF AtFront
<1>13. QED  BY <1>1, <1>10, <1>11, <1>12

\* Above a router that has something free everything is live.
LEMMA AllLive ==
    ASSUME GroupTree(T), NEW fl \in Stocks, NEW fc \in Counters, NEW a \in Hub,
           Told(fl, fc, a), ~ Spent(a, fl, fc)
    PROVE  \A b \in Anc(a) : Live(fl, b)
<1>1. CASE a = Root
  BY <1>1, AncFacts
<1>2. CASE a # Root
  <2>1. a \in Router /\ fl[a] \in Nat /\ fc[a] \in Nat /\ fc[a] <= Len(T.child[a])
    BY <1>2 DEF Hub, Counters, Stocks
  <2>2. fl[a] > 0 \/ fc[a] > 0
    BY <1>2, <2>1 DEF Spent
  <2>3. Live(fl, a)
    <3>1. CASE fl[a] > 0
      BY <3>1, <2>1, LiveHere
    <3>2. CASE fc[a] > 0
      <4> DEFINE n == Len(T.child[a])
      <4>1. n \in Nat /\ n \in Places(a) /\ FirstFree(fc, a) <= n
        BY <3>2, <2>1, ChildFacts DEF Places, FirstFree
      <4>2. Live(fl, T.child[a][n])
        BY <4>1, ChildBelow DEF Told
      <4>3. QED  BY <4>1, <4>2, <2>1, LiveLocal
    <3>3. QED  BY <2>2, <3>1, <3>2
  <2>4. QED  BY <2>1, <2>3, LiveUp
<1>3. QED  BY <1>1, <1>2

\* Whoever is live needs not be counted extra.
LEMMA ToldExactly ==
    ASSUME NEW fl, NEW fc, NEW a, Told(fl, fc, a), \A b \in Anc(a) : Live(fl, b)
    PROVE  Told(fl, fc, Root)
<1>1. Anc(Root) = {}
  BY DEF Anc
<1>2. QED  BY <1>1, Zenon DEF Told

\* rec_back_propagate goes up as far as there are spent routers, within its turns.
LEMMA RecExact ==
    ASSUME GroupTree(T), NEW fl \in Stocks, fchild \in Counters, NEW a \in Router,
           Used(T, a), Told(fl, fchild, a), Leading(fchild, a)
    PROVE  /\ Told(fl, rec_back_propagate(a, fl), Root)
           /\ \A b \in Anc(a) : Live(fl, b) => AtFront(rec_back_propagate(a, fl), b)
<1>1. PICK f : /\ f[0] = [at |-> a, fc |-> fchild]
               /\ \A i \in 1 .. N : f[i] = RecStep(f[i - 1], fl)
               /\ rec_back_propagate(a, fl) = f[N].fc
  BY RecTurns
<1> DEFINE Stops(t) == ~ Spent(t.at, fl, t.fc)
           Good(i) == LET t == f[i]
                      IN  /\ t.at \in Hub /\ Anc(t.at) \subseteq Anc(a) /\ t.fc \in Counters
                          /\ Told(fl, t.fc, t.at) /\ Leading(t.fc, t.at)
                          /\ \A b \in Anc(a) : b \in Anc(t.at) \/ ~ Live(fl, b)
                          /\ Stops(t) \/ Cardinality(Anc(t.at)) <= N - i
           Bad == {i \in 0 .. N : ~ Good(i)}
<1>2. \A q \in Hub : IsFiniteSet(Anc(q)) /\ Cardinality(Anc(q)) \in Nat
                     /\ Cardinality(Anc(q)) <= N
  BY AncFacts, RouterAssumption, FS_Subset, FS_CardinalityType DEF N
<1>3. Good(0)
  BY <1>1, <1>2, NType DEF Hub
<1>4. ASSUME NEW i \in 1 .. N, Good(i - 1) PROVE Good(i)
  <2> DEFINE t == f[i - 1]
             u == f[i]
  <2>1. /\ t.at \in Hub /\ Anc(t.at) \subseteq Anc(a) /\ t.fc \in Counters
        /\ Told(fl, t.fc, t.at) /\ Leading(t.fc, t.at)
        /\ \A b \in Anc(a) : b \in Anc(t.at) \/ ~ Live(fl, b)
        /\ Stops(t) \/ Cardinality(Anc(t.at)) <= N - (i - 1)
    BY <1>4
  <2>2. u = RecStep(t, fl)
    BY <1>1
  <2>3. CASE Stops(t)
    <3>1. u = t
      BY <2>2, <2>3 DEF RecStep
    <3>2. QED  BY <2>1, <2>3, <3>1
  <2>4. CASE Spent(t.at, fl, t.fc)
    <3>1. u = [at |-> T.parent[t.at], fc |-> back_propagate(t.at, fl, t.fc)]
      BY <2>2, <2>4 DEF RecStep
    <3>2. /\ t.at \in Router /\ ~ Live(fl, t.at)
          /\ Told(fl, u.fc, u.at) /\ Leading(u.fc, u.at)
      <4>1. t.at \in Router /\ t.at \in Anc(t.at)
        BY <2>1, <2>4, AncFacts DEF Spent, Hub
      <4>2. Used(T, t.at)
        BY <2>1, <4>1, UsedUp
      <4>3. /\ ~ Live(fl, t.at)
            /\ Told(fl, back_propagate(t.at, fl, t.fc), T.parent[t.at])
            /\ Leading(back_propagate(t.at, fl, t.fc), T.parent[t.at])
        BY <2>1, <2>4, <4>2, DropSpent
      <4>4. QED  BY <3>1, <4>1, <4>3
    <3>3. u.at \in Hub /\ u.fc \in Counters
      <4>1. T.parent[t.at] \in Hub
        BY <3>2, TreeTypes
      <4>2. back_propagate(t.at, fl, t.fc) \in Counters
        BY <2>1, BackCounters
      <4>3. QED  BY <3>1, <4>1, <4>2
    <3>4. Anc(t.at) = {t.at} \cup Anc(u.at) /\ t.at \notin Anc(u.at)
      BY <3>1, <3>2, AncFacts
    <3>5. \A b \in Anc(a) : b \in Anc(u.at) \/ ~ Live(fl, b)
      BY <2>1, <3>2, <3>4
    <3>6. Cardinality(Anc(t.at)) = Cardinality(Anc(u.at)) + 1
      <4>1. Anc(t.at) = Anc(u.at) \cup {t.at}
        BY <3>4
      <4>2. QED  BY <4>1, <3>3, <3>4, <1>2, FS_AddElement
    <3>7. Cardinality(Anc(u.at)) <= N - i
      <4>1. Cardinality(Anc(t.at)) <= N - (i - 1)
        BY <2>1, <2>4
      <4>2. Cardinality(Anc(u.at)) \in Nat
        BY <3>3, <1>2
      <4>3. QED  BY <4>1, <4>2, <3>6, NType
    <3>8. Anc(u.at) \subseteq Anc(a)
      BY <2>1, <3>4
    <3>9. QED  BY <3>2, <3>3, <3>5, <3>7, <3>8
  <2>5. QED  BY <2>3, <2>4
<1> HIDE DEF Good
<1>5. Good(N)
  <2>1. Bad = {}
    <3> SUFFICES ASSUME Bad # {} PROVE FALSE
      OBVIOUS
    <3>1. Bad \in SUBSET Nat
      BY NType
    <3>2. PICK k \in Bad : \A m \in Bad : k <= m
      BY <3>1, NatMin
    <3>3. k # 0
      BY <3>2, <1>3
    <3>4. k \in 1 .. N /\ k - 1 \in 0 .. N /\ ~ (k <= k - 1)
      BY <3>2, <3>3, NType
    <3>5. Good(k - 1)
      BY <3>2, <3>4
    <3>6. QED  BY <1>4, <3>2, <3>4, <3>5
  <2>2. N \in 0 .. N
    BY NType
  <2>3. QED  BY <2>1, <2>2
<1> DEFINE e == f[N]
<1>6. /\ e.at \in Hub /\ e.fc \in Counters
      /\ Told(fl, e.fc, e.at) /\ Leading(e.fc, e.at)
      /\ \A b \in Anc(a) : b \in Anc(e.at) \/ ~ Live(fl, b)
      /\ Stops(e) \/ Cardinality(Anc(e.at)) <= N - N
  BY <1>5 DEF Good
<1>7. Stops(e)
  <2> SUFFICES ASSUME Cardinality(Anc(e.at)) <= N - N PROVE Stops(e)
    BY <1>6
  <2>1. Cardinality(Anc(e.at)) = 0
    BY <1>2, <1>6, NType
  <2>2. Anc(e.at) = {}
    BY <2>1, <1>2, <1>6, FS_EmptySet
  <2>3. e.at = Root
    BY <2>2, <1>6, AncFacts DEF Hub
  <2>4. QED  BY <2>3 DEF Spent
<1>8. \A b \in Anc(e.at) : Live(fl, b)
  BY <1>6, <1>7, AllLive
<1>9. Told(fl, e.fc, Root)
  BY <1>6, <1>8, ToldExactly
<1>10. \A b \in Anc(a) : Live(fl, b) => AtFront(e.fc, b)
  BY <1>6 DEF Leading
<1>11. QED  BY <1>1, <1>9, <1>10

-----------------------------------------------------------------------------
\* While the walk is below the root, the router at hand and all above it count as
\* if they were live, and are the first free children of their parents, and the
\* router at hand has something below it; in the search only what is live counts, and those on the way down that are live are at
\* the front.  The router get_start keeps is on the way and has a free leaf.
Exact(fl, fc, at, q, w) ==
    /\ at \in {"start", "fill"} => Told(fl, fc, q) /\ Leading(fc, q) /\ Used(T, q)
    /\ at \in {"get_start", "descend", "next", "done"} =>
           Told(fl, fc, Root) /\ \A b \in Anc(q) : Live(fl, b) => AtFront(fc, b)
    /\ at = "descend" /\ w # Null => w \in Anc(q) /\ fl[w] > 0

ExactNow == Exact(fleaf, fchild, gpc, r, s)

\* The tree does not change.
LEMMA ExactLater ==
    ASSUME T' = T, Exact(fleaf', fchild', gpc', r', s')
    PROVE  ExactNow'
<1>1. Above' = Above
  BY Zenon DEF Above
<1>2. QED
  BY <1>1, Zenon DEF ExactNow, Exact, Told, Leading, AtFront, Live, Anc, Places, FirstFree, Used

\* reduce_tree has left every router live that has something below it.
LEMMA AllLiveAtFirst ==
    ASSUME GroupTree(T)
    PROVE  \A c \in Router : Used(T, c) => Live(T.nleaf, c)
<1> SUFFICES ASSUME NEW c \in Router, Used(T, c) PROVE Live(T.nleaf, c)
  OBVIOUS
<1> DEFINE Further(x) == Router \ Anc(x)
           S == {x \in Router : Used(T, x) /\ c \in Above[x]}
           H == {Cardinality(Further(x)) : x \in S}
<1>1. \A x \in Router : IsFiniteSet(Further(x)) /\ Cardinality(Further(x)) \in Nat
  BY RouterAssumption, FS_Subset, FS_CardinalityType
<1>2. c \in S
  BY AncFacts
<1>3. H \in SUBSET Nat /\ H # {}
  BY <1>1, <1>2
<1>4. PICK h \in H : \A g \in H : h <= g
  BY <1>3, NatMin
<1>5. PICK x \in S : h = Cardinality(Further(x))
  BY <1>4
<1>6. T.nleaf[x] > 0
  <2> SUFFICES ASSUME ~ (T.nleaf[x] > 0) PROVE FALSE
    OBVIOUS
  <2>1. T.child[x] # << >> /\ x \in Hub
    BY <1>5 DEF Hub, Used
  <2>2. 1 \in Places(x)
    BY <2>1, TreeTypes DEF Places
  <2> DEFINE y == T.child[x][1]
  <2>3. y \in Router /\ T.parent[y] = x /\ Used(T, y)
    BY <2>1, <2>2, ChildFacts
  <2>4. x \in Router /\ Anc(y) = {y} \cup Anc(x) /\ y \notin Anc(x)
    BY <1>5, <2>3, AncFacts
  <2>5. y \in S
    <3>1. c \in Anc(x) /\ Anc(y) = Above[y]
      BY <1>5, <2>3, AncFacts
    <3>2. QED  BY <2>3, <2>4, <3>1
  <2>6. Further(y) \subseteq Further(x) /\ y \in Further(x) /\ y \notin Further(y)
    <3> HIDE DEF y
    <3>1. QED  BY <2>3, <2>4
  <2>7. Cardinality(Further(y)) # Cardinality(Further(x))
        /\ Cardinality(Further(y)) <= Cardinality(Further(x))
    BY <2>6, <1>1, <1>5, <2>3, FS_Subset
  <2>8. h <= Cardinality(Further(y))
    BY <1>4, <2>5
  <2>9. Cardinality(Further(y)) \in Nat /\ Cardinality(Further(x)) \in Nat
    BY <1>1, <1>5, <2>3
  <2> HIDE DEF Further
  <2>10. QED  BY <2>7, <2>8, <2>9, <1>5
<1>7. QED  BY <1>5, <1>6 DEF Live

LEMMA InitExact == Begun => ExactNow
<1> SUFFICES ASSUME Begun PROVE ExactNow
  OBVIOUS
<1>1. GroupTree(T) /\ fleaf = T.nleaf /\ fchild = [q \in Hub |-> Len(T.child[q])]
      /\ r = Root /\ s = Null /\ gpc = "get_start"
  BY DEF Begun
<1>2. ASSUME NEW q \in Hub, NEW i \in Places(q)
      PROVE  Live(fleaf, T.child[q][i]) /\ FirstFree(fchild, q) <= i
  <2>1. Live(fleaf, T.child[q][i])
    BY <1>1, ChildFacts, AllLiveAtFirst
  <2>2. Len(T.child[q]) \in Nat /\ fchild[q] = Len(T.child[q])
    BY <1>1, ChildFacts
  <2>3. QED  BY <2>1, <2>2 DEF FirstFree, Places
<1>3. Told(fleaf, fchild, Root)
  BY <1>2 DEF Told
<1>4. Anc(r) = {}
  BY <1>1 DEF Anc
<1>5. QED  BY <1>1, <1>3, <1>4 DEF ExactNow, Exact

-----------------------------------------------------------------------------
\* The first free child of q: it is counted, and at the front.
LEMMA FirstChild ==
    ASSUME GroupTree(T), NEW fl, NEW q \in Hub, NEW a \in Hub, Told(fl, fchild, a),
           HasFree(q), fchild \in Counters
    PROVE  /\ get_free_router(q) \in Router
           /\ T.parent[get_free_router(q)] = q
           /\ AtFront(fchild, get_free_router(q))
           /\ Live(fl, get_free_router(q)) \/ get_free_router(q) \in Anc(a)
<1> DEFINE n == FirstFree(fchild, q)
<1>1. n \in Places(q) /\ get_free_router(q) = T.child[q][n]
  <2>1. fchild[q] \in Nat /\ Len(T.child[q]) \in Nat
    BY ChildFacts DEF Counters
  <2>2. n \in Places(q)
    BY <2>1 DEF HasFree, FirstFree, Places
  <2>3. QED  BY <2>2, Zenon DEF get_free_router, FirstFree
<1>2. T.child[q][n] \in Router /\ T.parent[T.child[q][n]] = q
      /\ \A i \in Places(q) : T.child[q][i] = T.child[q][n] => i = n
  BY <1>1, ChildFacts
<1>3. AtFront(fchild, T.child[q][n])
  BY <1>2 DEF AtFront
<1>4. n <= n
  BY <1>1 DEF Places
<1>5. Live(fl, T.child[q][n]) \/ T.child[q][n] \in Anc(a)
  BY <1>1, <1>4 DEF Told
<1> HIDE DEF n
<1>6. QED  BY <1>1, <1>2, <1>3, <1>5

\* Without a free child the counter is 0.
LEMMA NoneFree ==
    ASSUME GroupTree(T), NEW q \in Hub, fchild \in Counters, ~ HasFree(q)
    PROVE  fchild[q] = 0
  BY ChildFacts DEF HasFree, Counters

LEMMA SearchExact ==
    ASSUME Bounded, ExactNow,
           get_start \/ Descend \/ Found \/ Retry \/ Remaining
    PROVE  ExactNow'
<1>1. /\ T' = T /\ fchild' = fchild /\ gpc \in {"get_start", "descend"}
      /\ GroupTree(T) /\ fleaf \in [Hub -> Nat] /\ fchild \in Counters /\ r \in Hub
      /\ s \in Router \cup {Null} /\ fleaf \in Stocks
  BY DEF get_start, Descend, Found, Retry, Remaining, Bounded, Typed, GTypeOK, Counters, Stocks
<1>2. /\ Told(fleaf, fchild, Root)
      /\ \A b \in Anc(r) : Live(fleaf, b) => AtFront(fchild, b)
      /\ gpc = "descend" /\ s # Null => s \in Anc(r) /\ fleaf[s] > 0
  BY <1>1 DEF ExactNow, Exact
<1> SUFFICES Exact(fleaf', fchild', gpc', r', s')
  BY <1>1, ExactLater
<1>3. CASE get_start
  <2>1. fleaf' = fleaf /\ r' = r /\ gpc' = "descend"
        /\ s' = (IF r # Root /\ fleaf[r] > 0 THEN r ELSE Null)
    BY <1>3 DEF get_start
  <2>2. s' # Null => s' \in Anc(r) /\ fleaf[s'] > 0
    BY <1>1, <2>1, AncFacts DEF Hub
  <2>3. QED  BY <1>1, <1>2, <2>1, <2>2 DEF Exact
<1>4. CASE Descend
  <2>1. /\ fleaf' = fleaf /\ r' = get_free_router(r) /\ gpc' = "descend" /\ HasFree(r)
        /\ s' = (IF fleaf[r'] > 0 THEN r' ELSE s) /\ gpc = "descend"
    BY <1>4 DEF Descend
  <2>2. r' \in Router /\ T.parent[r'] = r /\ AtFront(fchild, r')
    BY <1>1, <1>2, <2>1, FirstChild DEF Hub
  <2>3. Anc(r') = {r'} \cup Anc(r)
    BY <1>1, <2>2, AncFacts
  <2>4. \A b \in Anc(r') : Live(fleaf, b) => AtFront(fchild, b)
    BY <1>2, <2>2, <2>3
  <2>5. s' # Null => s' \in Anc(r') /\ fleaf[s'] > 0
    BY <1>2, <2>1, <2>3
  <2>6. QED  BY <1>1, <1>2, <2>1, <2>4, <2>5 DEF Exact
<1>5. CASE Found
  <2>1. fleaf' = fleaf /\ r' = s /\ gpc' = "start" /\ s # Null /\ gpc = "descend"
    BY <1>5 DEF Found
  <2>2. s \in Anc(r) /\ fleaf[s] > 0 /\ s \in Router
    BY <1>1, <1>2, <2>1
  <2>3. Live(fleaf, s) /\ Anc(s) \subseteq Anc(r)
    BY <1>1, <2>2, LiveHere, AncFacts
  <2>4. \A b \in Anc(s) : Live(fleaf, b)
    BY <1>1, <2>2, <2>3, LiveUp
  <2>5. Leading(fchild, s)
    BY <1>2, <2>3, <2>4 DEF Leading
  <2>6. Told(fleaf, fchild, s)
    <3>1. Anc(Root) = {}
      BY DEF Anc
    <3>2. QED  BY <1>2, <2>4, <3>1, Zenon DEF Told
  <2>7. Used(T, s)
    BY <1>1, <2>2, <2>3, LiveUsed
  <2>8. QED  BY <1>1, <2>1, <2>5, <2>6, <2>7 DEF Exact
<1>6. CASE Retry
  <2>1. fleaf' = fleaf /\ r' = T.parent[r] /\ gpc' = "get_start" /\ r # Root
    BY <1>6 DEF Retry
  <2>2. r \in Router
    BY <1>1, <2>1 DEF Hub
  <2>3. Anc(r') \subseteq Anc(r)
    BY <1>1, <2>1, <2>2, AncFacts
  <2>4. QED  BY <1>1, <1>2, <2>1, <2>3 DEF Exact
<1>7. CASE Remaining
  <2>1. fleaf' = [fleaf EXCEPT ![Root] = 0] /\ r' = r /\ gpc' = "done" /\ r = Root
    BY <1>7 DEF Remaining
  <2>2. \A c \in Router : fleaf'[c] = fleaf[c]
    BY <1>1, <2>1, RouterAssumption DEF Hub
  <2>3. \A c \in Router : Live(fleaf', c) <=> Live(fleaf, c)
    BY <2>2, Zenon DEF Live
  <2>4. Told(fleaf', fchild, Root)
    <3> SUFFICES ASSUME NEW q \in Hub, NEW i \in Places(q)
                 PROVE  Live(fleaf', T.child[q][i]) \/ T.child[q][i] \in Anc(Root)
                            <=> FirstFree(fchild, q) <= i
      BY Zenon DEF Told
    <3>1. T.child[q][i] \in Router
      BY <1>1, ChildFacts
    <3>2. Live(fleaf, T.child[q][i]) \/ T.child[q][i] \in Anc(Root)
              <=> FirstFree(fchild, q) <= i
      BY <1>2, Zenon DEF Told
    <3>3. QED  BY <2>3, <3>1, <3>2
  <2>5. Anc(r) = {}
    BY <2>1 DEF Anc
  <2>6. QED  BY <1>1, <2>1, <2>4, <2>5 DEF Exact
<1>8. QED  BY <1>3, <1>4, <1>5, <1>6, <1>7

\* Leafs of q are taken: what counts stays the same, as q counts anyway.
LEMMA TakeLeafs ==
    ASSUME GroupTree(T), NEW fc, NEW fl \in [Hub -> Nat], NEW q \in Router,
           Told(fl, fc, q), NEW v \in Nat
    PROVE  Told([fl EXCEPT ![q] = v], fc, q)
<1> DEFINE fm == [fl EXCEPT ![q] = v]
<1>1. \A x \in Router : x # q => fm[x] = fl[x]
  BY DEF Hub
<1>2. Anc(q) = Above[q]
  BY AncFacts
<1> HIDE DEF fm
<1>3. \A c \in Router : Live(fm, c) \/ c \in Anc(q) <=> Live(fl, c) \/ c \in Anc(q)
  BY <1>1, <1>2 DEF Live
<1>4. ASSUME NEW c \in Hub, NEW i \in Places(c)
      PROVE  Live(fm, T.child[c][i]) \/ T.child[c][i] \in Anc(q) <=> FirstFree(fc, c) <= i
  <2>1. T.child[c][i] \in Router
    BY ChildFacts
  <2>2. Live(fl, T.child[c][i]) \/ T.child[c][i] \in Anc(q) <=> FirstFree(fc, c) <= i
    BY Zenon DEF Told
  <2>3. QED  BY <1>3, <2>1, <2>2
<1>5. Told(fm, fc, q)
  BY <1>4, Zenon DEF Told
<1>6. QED  BY <1>5 DEF fm

LEMMA FillExact ==
    ASSUME Bounded, ExactNow, Split \/ Complete \/ Fill
    PROVE  ExactNow'
<1>1. /\ T' = T /\ GroupTree(T) /\ fleaf \in [Hub -> Nat] /\ fchild \in Counters
      /\ gpc = "fill" /\ r \in Router /\ r \in Hub /\ r' = r /\ fleaf[r] > 0 /\ fleaf[r] \in Nat
  BY DEF Split, Complete, Fill, Bounded, Typed, GTypeOK, Counters, Hub
<1>2. Told(fleaf, fchild, r) /\ Leading(fchild, r) /\ Used(T, r)
  BY <1>1 DEF ExactNow, Exact
<1> SUFFICES Exact(fleaf', fchild', gpc', r', s')
  BY <1>1, ExactLater
<1>3. Bounded'
  BY FillBounded
<1>4. fleaf' \in Stocks
  BY <1>1, <1>3 DEF Bounded, Typed, GTypeOK, Stocks
<1>5. \E m \in Nat : fleaf' = [fleaf EXCEPT ![r] = fleaf[r] - m] /\ m <= fleaf[r]
                     /\ (Split => m < fleaf[r])
  <2>1. CASE Split
    <3> DEFINE m == Max - Len(addrs) - p
    <3>1. m \in Nat /\ m < fleaf[r]
      <4>1. Max \in Nat /\ Len(addrs) \in Nat /\ p \in {0, 1} /\ Len(addrs) + 1 < Max
        BY <1>1, ArgsTypes DEF Bounded, Typed, GTypeOK, Room
      <4>2. QED  BY <4>1, <1>1, <2>1 DEF Split, Need
    <3>2. add2txg(m)
      BY <2>1 DEF Split
    <3> HIDE DEF m
    <3>3. fleaf' = [fleaf EXCEPT ![r] = fleaf[r] - m]
      BY <3>2 DEF add2txg
    <3>4. m <= fleaf[r]
      BY <3>1, <1>1
    <3>5. QED  BY <3>1, <3>3, <3>4
  <2>2. CASE Complete \/ Fill
    <3>1. add2txg(fleaf[r])
      BY <2>2 DEF Complete, Fill
    <3>2. fleaf' = [fleaf EXCEPT ![r] = fleaf[r] - fleaf[r]]
      BY <3>1 DEF add2txg
    <3>3. ~ Split
      BY <1>1, <2>2, ArgsTypes DEF Split, Complete, Fill, Need, Bounded, Typed, GTypeOK
    <3>4. fleaf[r] \in Nat /\ fleaf[r] <= fleaf[r]
      BY <1>1
    <3>5. QED  BY <3>2, <3>3, <3>4, Zenon
  <2>3. QED  BY <2>1, <2>2
<1>6. PICK m \in Nat : fleaf' = [fleaf EXCEPT ![r] = fleaf[r] - m] /\ m <= fleaf[r]
                       /\ (Split => m < fleaf[r])
  BY <1>5
<1>7. fleaf[r] - m \in Nat
  BY <1>1, <1>6
<1>8. Told(fleaf', fchild, r)
  BY <1>1, <1>2, <1>6, <1>7, TakeLeafs
<1>9. CASE Split
  <2>1. fchild' = fchild /\ gpc' = "next"
    BY <1>9 DEF Split
  <2>2. fleaf'[r] > 0
    BY <1>1, <1>6, <1>9
  <2>3. \A b \in Anc(r) : Live(fleaf', b)
    BY <1>1, <2>2, LiveHere, LiveUp
  <2>4. Told(fleaf', fchild, Root)
    BY <1>8, <2>3, ToldExactly
  <2>5. QED  BY <1>1, <1>2, <2>1, <2>4, Zenon DEF Exact, Leading
<1>10. CASE Complete
  <2>1. fchild' = rec_back_propagate(r, fleaf') /\ gpc' = "next"
    BY <1>10 DEF Complete
  <2>2. Told(fleaf', fchild', Root) /\ \A b \in Anc(r) : Live(fleaf', b) => AtFront(fchild', b)
    <3>1. /\ Told(fleaf', rec_back_propagate(r, fleaf'), Root)
          /\ \A b \in Anc(r) :
                 Live(fleaf', b) => AtFront(rec_back_propagate(r, fleaf'), b)
      BY <1>1, <1>2, <1>4, <1>8, RecExact
    <3>2. QED  BY <2>1, <3>1
  <2>3. QED  BY <1>1, <2>1, <2>2 DEF Exact
<1>11. CASE Fill
  <2>1. fchild' = fchild /\ gpc' = "fill"
    BY <1>11 DEF Fill
  <2>2. QED  BY <1>1, <1>2, <1>8, <2>1 DEF Exact
<1>12. QED  BY <1>9, <1>10, <1>11

LEMMA MoveExact ==
    ASSUME Bounded, ExactNow, Enter \/ NoRoom \/ Down \/ Up \/ finish_txg
    PROVE  ExactNow'
<1>1. /\ T' = T /\ GroupTree(T) /\ fleaf \in Stocks /\ fleaf \in [Hub -> Nat]
      /\ fchild \in Counters /\ r \in Hub /\ fleaf' = fleaf
  BY DEF Enter, NoRoom, Down, Up, finish_txg, Bounded, Typed, GTypeOK, Counters, Stocks
<1>2. gpc \in {"start", "fill"} =>
          r \in Router /\ Told(fleaf, fchild, r) /\ Leading(fchild, r) /\ Used(T, r)
  BY DEF ExactNow, Exact, Bounded, Typed, GTypeOK
<1> SUFFICES Exact(fleaf', fchild', gpc', r', s')
  BY <1>1, ExactLater
<1>3. CASE Enter
  BY <1>1, <1>2, <1>3 DEF Enter, Exact
<1>4. CASE NoRoom
  <2>1. gpc = "fill" /\ fleaf[r] > 0 /\ fchild' = fchild /\ gpc' = "next" /\ r' = r
    BY <1>4 DEF NoRoom
  <2>2. \A b \in Anc(r) : Live(fleaf, b)
    BY <1>1, <1>2, <2>1, LiveHere, LiveUp
  <2>3. Told(fleaf, fchild, Root)
    BY <1>2, <2>1, <2>2, ToldExactly
  <2>4. QED  BY <1>1, <1>2, <2>1, <2>3, Zenon DEF Exact, Leading
<1>5. CASE Down
  <2>1. /\ gpc = "fill" /\ HasFree(r) /\ r' = get_free_router(r) /\ gpc' = "start"
        /\ fchild' = fchild
    BY <1>5 DEF Down
  <2>2. /\ r' \in Router /\ T.parent[r'] = r /\ AtFront(fchild, r')
        /\ Live(fleaf, r') \/ r' \in Anc(r)
    BY <1>1, <1>2, <2>1, FirstChild
  <2>3. Anc(r') = {r'} \cup Anc(r) /\ r' \notin Anc(r)
    BY <1>1, <2>2, AncFacts
  <2>4. Leading(fchild, r')
    BY <1>2, <2>1, <2>2, <2>3 DEF Leading
  <2>5. Told(fleaf, fchild, r')
    <3>1. \A c \in Router : Live(fleaf, c) \/ c \in Anc(r) <=> Live(fleaf, c) \/ c \in Anc(r')
      BY <2>2, <2>3
    <3>2. \A q \in Hub : \A i \in Places(q) : T.child[q][i] \in Router
      BY <1>1, ChildFacts
    <3>3. Told(fleaf, fchild, r)
      BY <1>2, <2>1
    <3>4. QED  BY <3>1, <3>2, <3>3, Zenon DEF Told
  <2>6. Used(T, r')
    BY <1>1, <1>2, <2>1, <2>2, LiveUsed, UsedUp
  <2>7. QED  BY <1>1, <2>1, <2>4, <2>5, <2>6 DEF Exact
<1>6. CASE Up
  <2>1. /\ gpc = "fill" /\ fleaf[r] = 0 /\ ~ HasFree(r) /\ r # Root /\ r' = T.parent[r]
        /\ fchild' = back_propagate(r, fleaf, fchild)
        /\ gpc' = (IF T.parent[r] = Root THEN "next" ELSE "start")
    BY <1>6 DEF Up
  <2>2. Spent(r, fleaf, fchild)
    BY <1>1, <2>1, NoneFree DEF Spent
  <2>3. Told(fleaf, fchild', r') /\ Leading(fchild', r')
    <3>1. /\ Told(fleaf, back_propagate(r, fleaf, fchild), T.parent[r])
          /\ Leading(back_propagate(r, fleaf, fchild), T.parent[r])
      BY <1>1, <1>2, <2>1, <2>2, DropSpent
    <3>2. QED  BY <2>1, <3>1
  <2>4. gpc' = "next" => r' = Root
    BY <2>1
  <2>5. gpc' # "next" => Used(T, r')
    <3>1. Anc(r) = {r} \cup Anc(r') /\ (r' # Root => r' \in Anc(r'))
      BY <1>1, <1>2, <2>1, AncFacts, TreeTypes DEF Hub
    <3>2. QED  BY <1>1, <1>2, <2>1, <3>1, UsedUp
  <2>6. QED  BY <1>1, <2>1, <2>3, <2>4, <2>5 DEF Exact, Leading
<1>7. CASE finish_txg
  BY <1>1, <1>7 DEF finish_txg, ExactNow, Exact
<1>8. QED  BY <1>3, <1>4, <1>5, <1>6, <1>7

LEMMA StepExact == Bounded /\ ExactNow /\ [GNext]_gvars => ExactNow'
<1> SUFFICES ASSUME Bounded, ExactNow, [GNext]_gvars PROVE ExactNow'
  OBVIOUS
<1>1. CASE get_start \/ Descend \/ Found \/ Retry \/ Remaining
  BY <1>1, SearchExact
<1>2. CASE Split \/ Complete \/ Fill
  BY <1>2, FillExact
<1>3. CASE Enter \/ NoRoom \/ Down \/ Up \/ finish_txg
  BY <1>3, MoveExact
<1>4. CASE UNCHANGED gvars
  <2>1. /\ T' = T /\ fleaf' = fleaf /\ fchild' = fchild /\ gpc' = gpc /\ r' = r /\ s' = s
    BY <1>4 DEF gvars
  <2>2. QED  BY <2>1, ExactLater DEF ExactNow
<1>5. QED  BY <1>1, <1>2, <1>3, <1>4 DEF GNext, Step, Finished

\* Whenever get_start reads the free counters they tell the truth: the routers with
\* something free are the last ones of each list, as many as the counter says.
THEOREM CountersTellTruth == GSpec => []FreeExact
<1>1. Bounded /\ ExactNow => FreeExact
  <2> SUFFICES ASSUME Bounded, ExactNow, gpc \in {"get_start", "descend", "next", "done"},
                      NEW q \in Hub
               PROVE  {i \in 1 .. Len(T.child[q]) :
                           \E x \in Router : T.child[q][i] \in Above[x] /\ fleaf[x] > 0}
                      = Len(T.child[q]) - fchild[q] + 1 .. Len(T.child[q])
    BY DEF FreeExact
  <2>1. Told(fleaf, fchild, Root) /\ Anc(Root) = {}
    BY DEF ExactNow, Exact, Anc
  <2>2. \A i \in Places(q) : Live(fleaf, T.child[q][i]) <=> FirstFree(fchild, q) <= i
    BY <2>1 DEF Told
  <2>3. Len(T.child[q]) \in Nat /\ fchild[q] \in Nat /\ fchild[q] <= Len(T.child[q])
    BY ChildFacts DEF Bounded, Typed, GTypeOK
  <2>4. \A i \in 1 .. Len(T.child[q]) :
            (\E x \in Router : T.child[q][i] \in Above[x] /\ fleaf[x] > 0)
                <=> Len(T.child[q]) - fchild[q] + 1 <= i
    BY <2>2, Zenon DEF Places, FirstFree, Live
  <2>5. {i \in 1 .. Len(T.child[q]) :
             \E x \in Router : T.child[q][i] \in Above[x] /\ fleaf[x] > 0}
        = {i \in 1 .. Len(T.child[q]) : Len(T.child[q]) - fchild[q] + 1 <= i}
    BY <2>4, Zenon
  <2>6. {i \in 1 .. Len(T.child[q]) : Len(T.child[q]) - fchild[q] + 1 <= i}
        = Len(T.child[q]) - fchild[q] + 1 .. Len(T.child[q])
    BY <2>3
  <2>7. QED  BY <2>5, <2>6
<1>2. GInit => Bounded /\ ExactNow
  BY InitBegun, InitBounded, InitExact
<1>3. Bounded /\ ExactNow /\ [GNext]_gvars => Bounded' /\ ExactNow'
  BY StepBounded, StepExact
<1>4. QED  BY <1>1, <1>2, <1>3, PTL DEF GSpec

-----------------------------------------------------------------------------
\* The sections of a header.  A header is sound if every receiver follows the
\* address of a router, which is not too far away, and above it if distances grow.
Headers == [addrs : Seq(Addresses), bm : SUBSET Nat]

SoundHeader(h) ==
    /\ h.bm \subseteq 0 .. Len(h.addrs) - 1
    /\ Covered(h) /\ ~ Far(h)

\* The header being filled, and the one it becomes.
Header(ad, b) == [addrs |-> ad, bm |-> b]

LEMMA DistFacts ==
    ASSUME NEW a \in Nat, NEW b \in Nat, NEW c \in Nat, NEW d \in Nat
    PROVE  /\ Dist(a, b) \in Nat /\ Dist(a, a) = 0 /\ Dist(a, b) = Dist(b, a)
           /\ Dist(c, a) <= d /\ Dist(c, b) <= d => ~ (Dist(a, b) > 2 * d)
  BY DEF Dist

\* Receivers at some places of a header, all from router x.
From(ad, i, x) == /\ ad[i] \in Addresses /\ ad[i][1] = x /\ ad[i][2] > 0

\* The section of x is put behind a sound header.
LEMMA OpenSound ==
    ASSUME GroupTree(T), args \in Args, NEW ad \in Seq(Addresses), NEW b, SoundHeader(Header(ad, b)),
           NEW af \in Seq(Addresses), NEW x \in Router,
           Len(af) > Len(ad),
           \A i \in 1 .. Len(ad) : af[i] = ad[i],
           af[Len(ad) + 1] = Address(x),
           \A i \in Len(ad) + 2 .. Len(af) : From(af, i, x)
    PROVE  SoundHeader(Header(af, b \cup {Len(ad)}))
<1> DEFINE n == Len(ad)
           h == Header(ad, b)
           k == Header(af, b \cup {n})
<1>1. n \in Nat /\ Len(af) \in Nat /\ n < Len(af)
  OBVIOUS
<1>2. /\ h.addrs = ad /\ h.bm = b /\ k.addrs = af /\ k.bm = b \cup {n}
      /\ SoundHeader(h)
  BY DEF Header
<1> HIDE DEF h, k
<1>3. b \subseteq 0 .. n - 1
  BY <1>2 DEF SoundHeader
<1> HIDE DEF n
<1>a. \A e \in b : e \in Int /\ 0 <= e /\ e < n
  BY <1>1, <1>3
<1>b. \A e \in k.bm : e \in b \/ e = n
  BY <1>2
<1>4. k.bm \subseteq 0 .. Len(af) - 1
  BY <1>1, <1>a, <1>b
<1>5. ASSUME NEW i \in 1 .. n, NEW c \in k.bm
      PROVE  Leads(k, c, i) <=> c \in b /\ Leads(h, c, i)
  BY <1>1, <1>2, <1>3 DEF Leads
<1>6. ASSUME NEW i \in n + 2 .. Len(af), NEW c \in k.bm
      PROVE  (Leads(k, c, i) <=> c = n) /\ i - 1 \notin k.bm
  <2>1. i \in Int /\ n < i - 1 /\ n \in k.bm
    BY <1>1, <1>2, <1>6
  <2>3. \A e \in k.bm : e \in Int /\ e <= n
    BY <1>1, <1>a, <1>b
  <2>2. c \in Int /\ c <= n
    BY <2>3, <1>6, Zenon
  <2>4. i - 1 \notin k.bm
    BY <2>1, <2>3, <1>1
  <2>5. Leads(k, c, i) => c = n
    <3> SUFFICES ASSUME c # n, Leads(k, c, i) PROVE FALSE
      OBVIOUS
    <3>1. c < n
      BY <2>2, <1>1
    <3>2. n <= c \/ n > i - 1
      BY <2>1, Zenon DEF Leads
    <3>3. QED  BY <2>1, <2>2, <3>1, <3>2, <1>1
  <2>6. c = n => Leads(k, c, i)
    BY <2>1, <2>3, <1>1 DEF Leads
  <2>7. QED  BY <2>4, <2>5, <2>6
<1>7. ASSUME NEW c \in k.bm PROVE ~ Leads(k, c, n + 1)
  <2>1. n \in k.bm /\ n + 1 - 1 = n
    BY <1>1, <1>2
  <2>2. Leads(k, c, n + 1) => c < n /\ n <= c
    BY <2>1, <1>1 DEF Leads
  <2>3. c \in Int
    BY <1>1, <1>a, <1>b
  <2>4. QED  BY <2>2, <2>3, <1>1
<1>8. Address(x)[1] = x /\ Address(x)[2] = 0
  BY DEF Address
<1>9. \A i \in 1 .. Len(af) : i \in 1 .. n \/ i = n + 1 \/ i \in n + 2 .. Len(af)
  BY <1>1
<1>10. x \in Above[x]
  BY AncFacts
<1>11. \A c \in b : c + 1 \in 1 .. n
  BY <1>1, <1>3
<1> HIDE DEF n
<1>12. Covered(k)
  <2> SUFFICES ASSUME NEW i \in 1 .. Len(af)
               PROVE  IF i - 1 \in k.bm THEN af[i][2] = 0
                      ELSE af[i][2] > 0
                           /\ \E c \in k.bm : Leads(k, c, i) /\ (Growing => af[c + 1][1] \in Above[af[i][1]])
    BY <1>2, Zenon DEF Covered
  <2>1. CASE i \in 1 .. n
    <3>1. IF i - 1 \in h.bm THEN h.addrs[i][2] = 0
          ELSE h.addrs[i][2] > 0
               /\ \E c \in h.bm : Leads(h, c, i)
                                  /\ (Growing => h.addrs[c + 1][1] \in Above[h.addrs[i][1]])
      BY <2>1, <1>2 DEF SoundHeader, Covered, n
    <3>2. af[i] = ad[i]
      BY <2>1 DEF n
    <3>3. i - 1 \in k.bm <=> i - 1 \in h.bm
      BY <2>1, <1>1, <1>2
    <3>4. ASSUME NEW c \in b, Leads(h, c, i), Growing => ad[c + 1][1] \in Above[ad[i][1]]
          PROVE  c \in k.bm /\ Leads(k, c, i) /\ (Growing => af[c + 1][1] \in Above[af[i][1]])
      <4>1. af[c + 1] = ad[c + 1]
        BY <1>11 DEF n
      <4>2. c \in k.bm
        BY <1>2
      <4>3. QED  BY <4>1, <4>2, <3>2, <3>4, <2>1, <1>5
    <3>5. QED  BY <3>1, <3>2, <3>3, <3>4, <1>2
  <2>2. CASE i = n + 1
    <3>1. i - 1 = n /\ n \in k.bm
      BY <2>2, <1>1, <1>2
    <3>2. af[i][2] = 0
      BY <2>2, <1>8 DEF n
    <3>3. QED  BY <3>1, <3>2
  <2>3. CASE i \in n + 2 .. Len(af)
    <3>1. af[i][1] = x /\ af[i][2] > 0
      BY <2>3 DEF From, n
    <3>2. n \in k.bm /\ Leads(k, n, i) /\ i - 1 \notin k.bm
      BY <2>3, <1>2, <1>6
    <3>3. af[n + 1][1] = x
      BY <1>8 DEF n
    <3>4. QED  BY <3>1, <3>2, <3>3, <1>10
  <2>4. QED  BY <2>1, <2>2, <2>3, <1>9
<1>13. ~ Far(k)
  <2> SUFFICES ASSUME NEW c \in k.bm, NEW i \in 1 .. Len(af), Leads(k, c, i),
                      Dist(T.hops[af[i][1]], T.hops[af[c + 1][1]]) > 2 * args.merge_range
               PROVE  FALSE
    BY <1>2, Zenon DEF Far
  <2>1. CASE i \in 1 .. n
    <3>1. c \in b /\ Leads(h, c, i)
      BY <2>1, <1>5
    <3>2. af[i] = ad[i] /\ af[c + 1] = ad[c + 1]
      BY <2>1, <3>1, <1>11 DEF n
    <3>3. Far(h)
      BY <3>1, <3>2, <2>1, <1>2, Zenon DEF Far, n
    <3>4. QED  BY <3>3, <1>2 DEF SoundHeader
  <2>2. CASE i = n + 1
    BY <2>2, <1>7
  <2>3. CASE i \in n + 2 .. Len(af)
    <3>1. c = n /\ af[i][1] = x /\ af[n + 1][1] = x
      BY <2>3, <1>6, <1>8 DEF From, n
    <3>2. T.hops[x] \in Nat /\ args.merge_range \in Nat
      BY TreeTypes, ArgsTypes DEF Hub
    <3>3. Dist(T.hops[x], T.hops[x]) = 0
      BY <3>2, DistFacts
    <3>4. QED  BY <3>1, <3>2, <3>3
  <2>4. QED  BY <2>1, <2>2, <2>3, <1>9
<1>14. QED  BY <1>2, <1>4, <1>12, <1>13 DEF SoundHeader, n, k

\* The section that begins at place o + 1 of a header is the last one, its router
\* is c, and c is above all its receivers if distances grow.  These, c, and the parent that may take
\* its place are near the router that opened the section.
Open(ad, b, o, c, ini) ==
    /\ o \in b /\ \A e \in b : e <= o
    /\ ad[o + 1] = Address(c)
    /\ c \in Router /\ Dist(ini, T.hops[c]) <= args.merge_range
    /\ \A i \in o + 2 .. Len(ad) :
           /\ ad[i][1] \in Router
           /\ Growing => c \in Above[ad[i][1]]
           /\ Dist(ini, T.hops[ad[i][1]]) <= args.merge_range

\* Receivers of x join the last section, whose router becomes d.
LEMMA JoinSound ==
    ASSUME GroupTree(T), args \in Args, NEW ad \in Seq(Addresses), NEW b, SoundHeader(Header(ad, b)),
           NEW o, NEW c, NEW ini \in Nat, Open(ad, b, o, c, ini),
           NEW x \in Router, Dist(ini, T.hops[x]) <= args.merge_range,
           NEW d \in Router, Dist(ini, T.hops[d]) <= args.merge_range,
           Growing => d \in Anc(c) /\ d \in Anc(x),
           NEW af \in Seq(Addresses), Len(af) >= Len(ad),
           \A i \in 1 .. Len(ad) : i # o + 1 => af[i] = ad[i],
           af[o + 1] = Address(d),
           \A i \in Len(ad) + 1 .. Len(af) : From(af, i, x)
    PROVE  SoundHeader(Header(af, b)) /\ Open(af, b, o, d, ini)
<1> DEFINE n == Len(ad)
           h == Header(ad, b)
           k == Header(af, b)
<1>1. n \in Nat /\ Len(af) \in Nat /\ n <= Len(af)
  OBVIOUS
<1>2. /\ h.addrs = ad /\ h.bm = b /\ k.addrs = af /\ k.bm = b
      /\ SoundHeader(h)
  BY DEF Header
<1> HIDE DEF h, k
<1>3. b \subseteq 0 .. n - 1
  BY <1>2 DEF SoundHeader
<1>4. o \in b /\ (\A e \in b : e <= o) /\ o \in Nat /\ o + 1 \in 1 .. n /\ c \in Router
  BY <1>1, <1>3 DEF Open
<1>5. b \subseteq 0 .. Len(af) - 1
  BY <1>1, <1>3
<1>6. \A i, e : Leads(k, e, i) <=> Leads(h, e, i)
  BY <1>2 DEF Leads
<1>7. \A i \in 1 .. Len(af) : i \in 1 .. n \/ i \in n + 1 .. Len(af)
  BY <1>1
<1>8. \A e \in b : e + 1 \in 1 .. n /\ (e # o => e + 1 # o + 1)
  BY <1>1, <1>3, <1>4
<1>9. \A i \in o + 2 .. Len(af) :
          i \in 1 .. Len(af) /\ i # o + 1 /\ i - 1 \notin b /\ Leads(k, o, i)
  <2> SUFFICES ASSUME NEW i \in o + 2 .. Len(af)
               PROVE  i \in 1 .. Len(af) /\ i # o + 1 /\ i - 1 \notin b /\ Leads(k, o, i)
    OBVIOUS
  <2>1. i \in Int /\ o < i - 1 /\ i \in 1 .. Len(af) /\ i # o + 1
    BY <1>1, <1>4
  <2>2. i - 1 \notin b
    BY <2>1, <1>4
  <2>3. Leads(k, o, i)
    BY <2>1, <1>2, <1>4 DEF Leads
  <2>4. QED  BY <2>1, <2>2, <2>3
<1>10. \A i \in 1 .. Len(af) : Leads(k, o, i) => i \in o + 2 .. Len(af)
  BY <1>1, <1>2, <1>4 DEF Leads
<1>11. \A i \in 1 .. Len(af) : \A e \in b : e # o /\ Leads(k, e, i) => i \in 1 .. n /\ i <= o
  BY <1>1, <1>2, <1>3, <1>4 DEF Leads
<1>12. Address(d)[1] = d /\ Address(d)[2] = 0
  BY DEF Address
<1>13. Anc(x) = Above[x]
  BY AncFacts
<1>14. ASSUME NEW i \in o + 2 .. Len(af)
       PROVE  /\ af[i][1] \in Router
              /\ Growing => d \in Above[af[i][1]]
              /\ Dist(ini, T.hops[af[i][1]]) <= args.merge_range
              /\ af[i][2] > 0
  <2>1. CASE i \in 1 .. n
    <3>1. af[i] = ad[i] /\ i \in o + 2 .. n
      BY <2>1, <1>4, <1>9 DEF n
    <3>2. /\ ad[i][1] \in Router
          /\ Growing => c \in Above[ad[i][1]]
          /\ Dist(ini, T.hops[ad[i][1]]) <= args.merge_range
      BY <3>1 DEF Open, n
    <3>3. Growing => Anc(ad[i][1]) = Above[ad[i][1]] /\ Anc(c) \subseteq Anc(ad[i][1])
      <4>1. ad[i][1] \in Router /\ ad[i][1] \in Hub
        BY <3>2 DEF Hub
      <4>2. Anc(ad[i][1]) = Above[ad[i][1]]
        BY <4>1, AncFacts
      <4>3. QED  BY <3>2, <4>1, <4>2, AncFacts
    <3>4. i - 1 \notin h.bm /\ i \in 1 .. Len(h.addrs)
      BY <2>1, <1>2, <1>9 DEF n
    <3>5. ad[i][2] > 0
      BY <3>4, <1>2 DEF SoundHeader, Covered
    <3>6. QED  BY <3>1, <3>2, <3>3, <3>5
  <2>2. CASE i \in n + 1 .. Len(af)
    <3>1. af[i][1] = x /\ af[i][2] > 0
      BY <2>2 DEF From, n
    <3>2. QED  BY <3>1, <1>13
  <2>3. i \in 1 .. Len(af)
    BY <1>9
  <2>4. QED  BY <2>1, <2>2, <2>3, <1>7
<1> HIDE DEF n
<1>15. Open(af, b, o, d, ini)
  BY <1>4, <1>14 DEF Open
<1>16. Covered(k)
  <2> SUFFICES ASSUME NEW i \in 1 .. Len(af)
               PROVE  IF i - 1 \in b THEN af[i][2] = 0
                      ELSE af[i][2] > 0
                           /\ \E e \in b : Leads(k, e, i) /\ (Growing => af[e + 1][1] \in Above[af[i][1]])
    BY <1>2, Zenon DEF Covered
  <2>1. CASE i = o + 1
    <3>1. i - 1 = o
      BY <2>1, <1>4
    <3>2. QED  BY <2>1, <3>1, <1>4, <1>12
  <2>2. CASE i \in o + 2 .. Len(af)
    <3>1. i - 1 \notin b /\ Leads(k, o, i)
      BY <2>2, <1>9
    <3>2. af[o + 1][1] = d /\ (Growing => d \in Above[af[i][1]]) /\ af[i][2] > 0
      BY <2>2, <1>12, <1>14
    <3>3. QED  BY <3>1, <3>2, <1>4
  <2>3. CASE i <= o
    <3>1. i \in 1 .. n /\ i # o + 1 /\ af[i] = ad[i]
      BY <2>3, <1>4, <1>1 DEF n
    <3>2. IF i - 1 \in b THEN ad[i][2] = 0
          ELSE ad[i][2] > 0
               /\ \E e \in b : Leads(h, e, i) /\ (Growing => ad[e + 1][1] \in Above[ad[i][1]])
      BY <3>1, <1>2 DEF SoundHeader, Covered, n
    <3>3. ASSUME NEW e \in b, Leads(h, e, i) PROVE Leads(k, e, i) /\ af[e + 1] = ad[e + 1]
      <4>1. Leads(k, e, i)
        BY <1>6, <3>3
      <4>2. e # o
        BY <4>1, <2>3, <1>4, <1>10
      <4>3. e + 1 \in 1 .. n /\ e + 1 # o + 1
        BY <4>2, <1>8
      <4>4. QED  BY <4>1, <4>3 DEF n
    <3>4. QED  BY <3>1, <3>2, <3>3
  <2>4. i <= o \/ i = o + 1 \/ i \in o + 2 .. Len(af)
    BY <1>1, <1>4
  <2>5. QED  BY <2>1, <2>2, <2>3, <2>4
<1>17. ~ Far(k)
  <2> SUFFICES ASSUME NEW e \in b, NEW i \in 1 .. Len(af), Leads(k, e, i),
                      Dist(T.hops[af[i][1]], T.hops[af[e + 1][1]]) > 2 * args.merge_range
               PROVE  FALSE
    BY <1>2, Zenon DEF Far
  <2>1. CASE e = o
    <3>1. i \in o + 2 .. Len(af)
      BY <2>1, <1>10
    <3>2. af[i][1] \in Router /\ Dist(ini, T.hops[af[i][1]]) <= args.merge_range
          /\ af[o + 1][1] = d
      BY <3>1, <1>12, <1>14
    <3>3. T.hops[af[i][1]] \in Nat /\ T.hops[d] \in Nat /\ args.merge_range \in Nat
      <4>1. af[i][1] \in Hub /\ d \in Hub
        BY <3>2 DEF Hub
      <4>2. T.hops \in [Hub -> Nat]
        BY TreeTypes
      <4>3. args.merge_range \in Nat
        BY ArgsTypes
      <4>4. QED  BY <4>1, <4>2, <4>3
    <3>4. ~ (Dist(T.hops[af[i][1]], T.hops[d]) > 2 * args.merge_range)
      BY <3>2, <3>3, DistFacts
    <3>5. QED  BY <3>2, <3>4, <2>1
  <2>2. CASE e # o
    <3>1. i \in 1 .. n /\ i <= o
      BY <2>2, <1>11
    <3>2. i # o + 1 /\ e + 1 \in 1 .. n /\ e + 1 # o + 1
      BY <2>2, <3>1, <1>4, <1>8
    <3>3. af[i] = ad[i] /\ af[e + 1] = ad[e + 1] /\ Leads(h, e, i)
      BY <3>1, <3>2, <1>6 DEF n
    <3>4. Far(h)
      BY <3>1, <3>3, <1>2, Zenon DEF Far, n
    <3>5. QED  BY <3>4, <1>2 DEF SoundHeader
  <2>3. QED  BY <2>1, <2>2
<1>18. QED  BY <1>2, <1>5, <1>15, <1>16, <1>17 DEF SoundHeader, k

-----------------------------------------------------------------------------
\* Where the walk is, as long as the section is open: at or below the router of the
\* section, which stays; or at or below the parent it went up to last, which is above
\* the section and takes it over when the next receivers join.
Reaches(m, q, fl) ==
    \/ m.cr \in Anc(q) /\ (m.pcr # Null => T.hops[m.cr] <= T.hops[m.pcr])
    \/ m.pcr \in Anc(q) /\ m.pcr \in Anc(m.cr) /\ m.pcr # m.cr /\ (q = m.pcr \/ Live(fl, q))

Mergeable(m, q) ==
    /\ m.cr # Null
    /\ Dist(m.init_hops, T.hops[q]) <= args.merge_range
    /\ Dist(T.hops[m.cr], T.hops[q]) <= args.merge_range

\* All headers are sound.  The walk has not left the range of the open section: Enter
\* closes it at the first router that is out of range.
Sections(ad, b, m, pp, fl, at, q, hs) ==
    /\ SoundHeader(Header(ad, b))
    /\ hs \in Seq(Headers) /\ \A i \in 1 .. Len(hs) : SoundHeader(hs[i])
    /\ m.cr = Null => m.pcr = Null
    /\ m.cr # Null =>
           /\ Open(ad, b, m.icr, m.cr, m.init_hops)
           /\ m.pcr # Null => Dist(m.init_hops, T.hops[m.pcr]) <= args.merge_range
    /\ Growing /\ at = "start" /\ Mergeable(m, q) => Reaches(m, q, fl)
    /\ Growing /\ at = "fill" /\ m.cr # Null => Reaches(m, q, fl)
    /\ at = "fill" /\ fl[q] > 0 /\ pp = 0 => Dist(m.init_hops, T.hops[q]) <= args.merge_range

SectionsNow == Sections(addrs, bm, merge, p, fleaf, gpc, r, mdc)

LEMMA SectionsLater ==
    ASSUME T' = T, args' = args,
           Sections(addrs', bm', merge', p', fleaf', gpc', r', mdc')
    PROVE  SectionsNow'
<1>1. Above' = Above
  BY Zenon DEF Above
<1>2. QED
  BY <1>1, Zenon DEF SectionsNow, Sections, SoundHeader, Covered, Far, Leads, Open, Reaches,
                     Mergeable, Live, Anc, Growing

\* If distances grow, a router is closer than all others that it is above.
LEMMA AncCloser ==
    ASSUME GroupTree(T), Growing, NEW q \in Router, NEW a \in Anc(q), a # q
    PROVE  T.hops[a] < T.hops[q]
<1>1. T.parent[q] \in Hub /\ T.hops[T.parent[q]] < T.hops[q] /\ a \in Anc(T.parent[q])
  BY AncFacts, TreeTypes DEF Growing
<1>2. a \in Hub /\ T.hops[a] <= T.hops[T.parent[q]]
  BY <1>1, AncFacts DEF Hub
<1>3. T.hops[a] \in Nat /\ T.hops[q] \in Nat /\ T.hops[T.parent[q]] \in Nat
  BY <1>1, <1>2, TreeTypes DEF Hub
<1>4. QED  BY <1>1, <1>2, <1>3

LEMMA InitSections == Begun => SectionsNow
<1> SUFFICES ASSUME Begun PROVE SectionsNow
  OBVIOUS
<1>1. addrs = << >> /\ bm = {} /\ mdc = << >> /\ gpc = "get_start"
      /\ merge.cr = Null /\ merge.pcr = Null
  BY DEF Begun, reset_merging_stats
<1>2. SoundHeader(Header(<< >>, {}))
  BY DEF SoundHeader, Header, Covered, Far
<1>3. << >> \in Seq(Headers) /\ Len(<< >>) = 0
  OBVIOUS
<1>4. QED  BY <1>1, <1>2, <1>3 DEF SectionsNow, Sections, Mergeable

LEMMA SearchSections ==
    ASSUME Bounded, SectionsNow,
           get_start \/ Descend \/ Found \/ Retry \/ Remaining
    PROVE  SectionsNow'
<1>1. /\ T' = T /\ args' = args /\ addrs' = addrs /\ bm' = bm /\ merge' = merge /\ mdc' = mdc
      /\ gpc' # "fill" /\ gpc \in {"get_start", "descend"}
  BY DEF get_start, Descend, Found, Retry, Remaining
<1>2. merge.cr = Null
  BY <1>1 DEF Bounded, Room
<1> SUFFICES Sections(addrs', bm', merge', p', fleaf', gpc', r', mdc')
  BY <1>1, SectionsLater
<1>3. QED  BY <1>1, <1>2 DEF SectionsNow, Sections, Mergeable

LEMMA EnterSections ==
    ASSUME Bounded, SectionsNow, Enter
    PROVE  SectionsNow'
<1>1. /\ T' = T /\ args' = args /\ addrs' = addrs /\ bm' = bm /\ mdc' = mdc /\ fleaf' = fleaf
      /\ gpc' = "fill" /\ gpc = "start" /\ r' = r
  BY DEF Enter
<1> SUFFICES Sections(addrs', bm', merge', p', fleaf', gpc', r', mdc')
  BY <1>1, SectionsLater
<1>2. CASE is_mergeable(r)
  <2>1. p' = 0 /\ merge' = merge
    BY <1>2 DEF Enter
  <2>2. Mergeable(merge, r)
    BY <1>2 DEF is_mergeable, Mergeable
  <2>3. Growing => Reaches(merge, r, fleaf)
    BY <2>2, <1>1 DEF SectionsNow, Sections
  <2>4. Dist(merge.init_hops, T.hops[r]) <= args.merge_range
    BY <2>2 DEF Mergeable
  <2>5. QED  BY <1>1, <2>1, <2>3, <2>4 DEF SectionsNow, Sections
<1>3. CASE ~ is_mergeable(r)
  <2>1. p' = 1 /\ merge' = (IF merge.cr # Null THEN reset_merging_stats ELSE merge)
    BY <1>3 DEF Enter
  <2>2. merge'.cr = Null /\ merge'.pcr = Null
    BY <2>1 DEF reset_merging_stats, SectionsNow, Sections
  <2>3. QED  BY <1>1, <2>1, <2>2 DEF SectionsNow, Sections
<1>4. QED  BY <1>2, <1>3

LEMMA MoveSections ==
    ASSUME Bounded, ExactNow, SectionsNow, NoRoom \/ Down \/ Up
    PROVE  SectionsNow'
<1>1. /\ T' = T /\ args' = args /\ addrs' = addrs /\ bm' = bm /\ mdc' = mdc /\ fleaf' = fleaf
      /\ gpc = "fill" /\ GroupTree(T) /\ fleaf \in Stocks /\ fchild \in Counters
      /\ r \in Router /\ r \in Hub
  BY DEF NoRoom, Down, Up, Bounded, Typed, GTypeOK, Counters, Stocks, Hub
<1>2. Told(fleaf, fchild, r) /\ Leading(fchild, r) /\ Used(T, r)
  BY <1>1 DEF ExactNow, Exact
<1>3. merge.cr # Null => (Growing => Reaches(merge, r, fleaf)) /\ merge.cr \in Router
  BY <1>1 DEF SectionsNow, Sections, Bounded, Typed, GTypeOK
<1> SUFFICES Sections(addrs', bm', merge', p', fleaf', gpc', r', mdc')
  BY <1>1, SectionsLater
<1>4. CASE NoRoom
  BY <1>1, <1>4 DEF NoRoom, SectionsNow, Sections
<1>5. CASE Down
  <2>1. HasFree(r) /\ r' = get_free_router(r) /\ gpc' = "start" /\ merge' = merge
    BY <1>5 DEF Down
  <2>2. /\ r' \in Router /\ T.parent[r'] = r
        /\ Live(fleaf, r') \/ r' \in Anc(r)
    BY <1>1, <1>2, <2>1, FirstChild
  <2>3. Anc(r') = {r'} \cup Anc(r) /\ r' \notin Anc(r)
    BY <1>1, <2>2, AncFacts
  <2>4. Growing /\ merge.cr # Null => Reaches(merge, r', fleaf)
    BY <1>3, <2>2, <2>3 DEF Reaches
  <2>5. QED  BY <1>1, <2>1, <2>4 DEF SectionsNow, Sections, Mergeable
<1>6. CASE Up
  <2> DEFINE a == T.parent[r]
  <2>1. /\ fleaf[r] = 0 /\ ~ HasFree(r) /\ r # Root /\ r' = a
        /\ merge' = (IF is_mergeable(a) THEN [merge EXCEPT !.pcr = a] ELSE merge)
        /\ gpc' = (IF a = Root THEN "next" ELSE "start")
    BY <1>6 DEF Up
  <2>2. /\ a \in Hub /\ Anc(r) = {r} \cup Anc(a) /\ r \notin Anc(a)
        /\ Growing => T.hops[a] < T.hops[r]
    BY <1>1, TreeTypes, AncFacts DEF Growing
  <2>3. ~ Live(fleaf, r)
    <3>1. Spent(r, fleaf, fchild)
      BY <1>1, <2>1, NoneFree DEF Spent
    <3>2. QED  BY <1>1, <1>2, <3>1, DropSpent
  <2>4. merge \in Merging /\ is_mergeable(a) = Mergeable(merge, a)
    BY DEF Bounded, Typed, is_mergeable, Mergeable
  <2> HIDE DEF a
  <2>5. CASE ~ is_mergeable(a)
    <3>1. merge' = merge /\ ~ Mergeable(merge, a)
      BY <2>1, <2>4, <2>5
    <3>2. gpc' # "fill"
      BY <2>1
    <3>3. QED  BY <1>1, <2>1, <3>1, <3>2 DEF SectionsNow, Sections
  <2>6. CASE is_mergeable(a)
    <3>1. /\ merge'.cr = merge.cr /\ merge'.pcr = a /\ merge'.icr = merge.icr
          /\ merge'.init_hops = merge.init_hops
      BY <2>1, <2>4, <2>6 DEF Merging
    <3>2. merge.cr # Null /\ Dist(merge.init_hops, T.hops[a]) <= args.merge_range
      BY <2>6 DEF is_mergeable
    <3>3. Growing /\ a # Root => Reaches(merge', a, fleaf)
      <4> SUFFICES ASSUME Growing, a # Root PROVE Reaches(merge', a, fleaf)
        OBVIOUS
      <4>1. a \in Router /\ a \in Anc(a) /\ merge.cr \in Router /\ Anc(a) \subseteq Router
        BY <1>3, <2>2, <3>2, AncFacts, <1>1 DEF Hub
      <4>2. CASE merge.cr = r
        BY <2>2, <3>1, <4>1, <4>2 DEF Reaches
      <4>3. CASE merge.cr \in Anc(r) /\ merge.cr # r
        <5>1. merge.cr \in Anc(a)
          BY <2>2, <4>3
        <5>2. T.hops[merge.cr] <= T.hops[a]
          BY <1>1, <2>2, <5>1, AncFacts
        <5>3. QED  BY <3>1, <5>1, <5>2 DEF Reaches
      <4>4. CASE merge.cr \notin Anc(r)
        <5>1. /\ merge.pcr \in Anc(r) /\ merge.pcr \in Anc(merge.cr) /\ merge.pcr # merge.cr
              /\ r = merge.pcr
          BY <1>3, <2>3, <3>2, <4>4 DEF Reaches
        <5>2. a \in Anc(r) /\ Anc(r) \subseteq Anc(merge.cr)
          BY <1>1, <2>2, <4>1, <5>1, AncFacts DEF Hub
        <5>3. T.hops[r] < T.hops[merge.cr]
          BY <1>1, <4>1, <5>1, AncCloser
        <5>4. a # merge.cr
          <6>1. T.hops[a] \in Nat /\ T.hops[r] \in Nat /\ T.hops[merge.cr] \in Nat
            BY <1>1, <2>2, <4>1, TreeTypes DEF Hub
          <6>2. QED  BY <2>2, <5>3, <6>1
        <5>5. QED  BY <3>1, <4>1, <5>2, <5>4 DEF Reaches
      <4>5. QED  BY <4>2, <4>3, <4>4
    <3>4. Open(addrs, bm, merge.icr, merge.cr, merge.init_hops)
      BY <3>2 DEF SectionsNow, Sections
    <3>5. gpc' # "fill" /\ (gpc' = "start" => a # Root)
      BY <2>1
    <3>6. QED  BY <1>1, <2>1, <3>1, <3>2, <3>3, <3>4, <3>5 DEF SectionsNow, Sections
  <2>7. QED  BY <2>5, <2>6
<1>7. QED  BY <1>4, <1>5, <1>6

\* set_txg_router chooses a router in range, and if distances grow, one above the
\* section and above r.
LEMMA ChosenRouter ==
    ASSUME Bounded, SectionsNow, gpc = "fill", fleaf[r] > 0, p = 0,
           args.merge_range # 0, merge.cr # Null
    PROVE  /\ Dist(merge.init_hops, T.hops[set_txg_router.cr]) <= args.merge_range
           /\ set_txg_router.init_hops = merge.init_hops
           /\ set_txg_router.pcr # Null =>
                  Dist(merge.init_hops, T.hops[set_txg_router.pcr]) <= args.merge_range
           /\ Growing =>
                  /\ set_txg_router.cr \in Anc(merge.cr) /\ set_txg_router.cr \in Anc(r)
                  /\ set_txg_router.pcr # Null =>
                         T.hops[set_txg_router.cr] <= T.hops[set_txg_router.pcr]
<1>1. /\ GroupTree(T) /\ r \in Router /\ merge \in Merging
      /\ merge.cr \in Router /\ merge.pcr \in Router \cup {Null}
  BY DEF Bounded, Typed, GTypeOK, Room
<1>2. /\ Open(addrs, bm, merge.icr, merge.cr, merge.init_hops)
      /\ merge.pcr # Null => Dist(merge.init_hops, T.hops[merge.pcr]) <= args.merge_range
      /\ Growing => Reaches(merge, r, fleaf)
      /\ Dist(merge.init_hops, T.hops[r]) <= args.merge_range
  BY DEF SectionsNow, Sections
<1>3. Dist(merge.init_hops, T.hops[merge.cr]) <= args.merge_range
  BY <1>2 DEF Open
<1>4. \A q \in Router : T.hops[q] \in Nat /\ q \in Anc(q)
  BY <1>1, TreeTypes, AncFacts DEF Hub
<1>5. CASE Growing /\ merge.cr \in Anc(r) /\ (merge.pcr # Null => T.hops[merge.cr] <= T.hops[merge.pcr])
  <2>1. T.hops[merge.cr] <= T.hops[r]
    BY <1>1, <1>5, AncFacts DEF Hub
  <2>2. ~ (T.hops[r] < T.hops[merge.cr])
    BY <1>1, <1>4, <2>1
  <2>3. merge.pcr # Null => ~ (T.hops[merge.pcr] < T.hops[merge.cr])
    BY <1>1, <1>4, <1>5
  <2>4. set_txg_router = merge
    BY <2>2, <2>3 DEF set_txg_router
  <2>5. QED  BY <1>1, <1>2, <1>3, <1>4, <1>5, <2>4
<1>6. CASE Growing /\ merge.pcr \in Anc(r) /\ merge.pcr \in Anc(merge.cr) /\ merge.pcr # merge.cr
  <2>1. merge.pcr \in Router /\ merge.pcr # Null /\ T.hops[merge.pcr] < T.hops[merge.cr]
    BY <1>1, <1>6, AncFacts, AncCloser, RouterAssumption DEF Hub
  <2>2. CASE r = merge.pcr
    <3>1. ~ (T.hops[merge.pcr] < T.hops[r]) /\ T.hops[r] < T.hops[merge.cr]
          /\ T.hops[r] <= T.hops[r]
      BY <1>1, <1>4, <2>1, <2>2
    <3>2. set_txg_router = [merge EXCEPT !.cr = r]
      BY <3>1 DEF set_txg_router
    <3>3. set_txg_router.cr = r /\ set_txg_router.pcr = r
          /\ set_txg_router.init_hops = merge.init_hops
      BY <1>1, <2>2, <3>2 DEF Merging
    <3>4. QED  BY <1>1, <1>2, <1>4, <1>6, <2>2, <3>1, <3>3
  <2>3. CASE r # merge.pcr
    <3>1. T.hops[merge.pcr] < T.hops[r]
      BY <1>1, <1>6, <2>3, AncCloser
    <3>2. set_txg_router = [merge EXCEPT !.cr = merge.pcr, !.pcr = Null]
      BY <2>1, <3>1 DEF set_txg_router
    <3>3. set_txg_router.cr = merge.pcr /\ set_txg_router.pcr = Null
          /\ set_txg_router.init_hops = merge.init_hops
      BY <1>1, <3>2 DEF Merging
    <3>4. QED  BY <1>2, <1>6, <2>1, <3>3
  <2>4. QED  BY <2>2, <2>3
<1>7. CASE ~ Growing
  <2>1. \/ set_txg_router = merge
        \/ set_txg_router = [merge EXCEPT !.cr = r]
        \/ merge.pcr # Null /\ set_txg_router = [merge EXCEPT !.cr = merge.pcr, !.pcr = Null]
    BY DEF set_txg_router
  <2>2. /\ set_txg_router.init_hops = merge.init_hops
        /\ \/ set_txg_router.cr = merge.cr
           \/ set_txg_router.cr = r
           \/ merge.pcr # Null /\ set_txg_router.cr = merge.pcr
        /\ set_txg_router.pcr \in {merge.pcr, Null}
    BY <1>1, <2>1 DEF Merging
  <2>3. QED  BY <1>2, <1>3, <1>7, <2>2
<1>8. QED  BY <1>2, <1>5, <1>6, <1>7 DEF Reaches

\* What add2txg writes: the address of r, or that of the chosen router at the place
\* of the section, and free leafs of r.
LEMMA AddShape ==
    ASSUME Typed, Room, gpc = "fill", fleaf[r] > 0,
           NEW m \in Nat, m <= fleaf[r], add2txg(m)
    PROVE  /\ (args.merge_range = 0 \/ merge.cr = Null) =>
                  /\ Len(addrs') > Len(addrs)
                  /\ \A i \in 1 .. Len(addrs) : addrs'[i] = addrs[i]
                  /\ addrs'[Len(addrs) + 1] = Address(r)
                  /\ \A i \in Len(addrs) + 2 .. Len(addrs') : From(addrs', i, r)
                  /\ bm' = bm \cup {Len(addrs)}
           /\ (args.merge_range # 0 /\ merge.cr # Null) =>
                  /\ Len(addrs') >= Len(addrs)
                  /\ \A i \in 1 .. Len(addrs) : i # merge.icr + 1 => addrs'[i] = addrs[i]
                  /\ merge.icr + 1 \in 1 .. Len(addrs) =>
                         addrs'[merge.icr + 1] = Address(set_txg_router.cr)
                  /\ \A i \in Len(addrs) + 1 .. Len(addrs') : From(addrs', i, r)
                  /\ bm' = bm
           /\ merge' = set_txg_router
           /\ \A j \in 1 .. m : addrs'[Len(addrs') - m + j] = <<r, T.nleaf[r] - fleaf[r] + j>>
<1> DEFINE n == Len(addrs)
           L == FreeLeafs(r, m)
           to == IF args.merge_range = 0 \/ merge.cr = Null THEN Append(addrs, Address(r))
                 ELSE [addrs EXCEPT ![merge.icr + 1] = Address(set_txg_router.cr)]
<1>1. /\ addrs' = to \o L /\ merge' = set_txg_router
      /\ bm' = (IF args.merge_range = 0 \/ merge.cr = Null THEN bm \cup {set_txg_router.icr}
                ELSE bm)
  BY DEF add2txg
<1>2. /\ addrs \in Seq(Addresses) /\ n \in Nat /\ addrs' \in Seq(Addresses)
      /\ r \in Router /\ r \in Hub
      /\ fleaf[r] \in Nat /\ T.nleaf[r] \in Nat /\ fleaf[r] <= T.nleaf[r]
  <2>1. addrs \in Seq(Addresses) /\ n \in Nat /\ r \in Router /\ r \in Hub
        /\ fleaf[r] \in Nat /\ fleaf[r] <= T.nleaf[r] /\ GroupTree(T)
    BY DEF Typed, GTypeOK, Hub
  <2>2. T.nleaf[r] \in Nat
    BY <2>1, TreeTypes
  <2>3. addrs' \in Seq(Addresses)
    BY AddBounded
  <2>4. QED  BY <2>1, <2>2, <2>3
<1>3. /\ L = [i \in 1 .. m |-> <<r, T.nleaf[r] - fleaf[r] + i>>]
      /\ \A i \in 1 .. m : T.nleaf[r] - fleaf[r] + i \in Nat /\ T.nleaf[r] - fleaf[r] + i > 0
  BY <1>2 DEF FreeLeafs
<1>4. L \in Seq(Addresses) /\ Len(L) = m
      /\ \A i \in 1 .. m : L[i] \in Addresses /\ L[i][1] = r /\ L[i][2] > 0
  <2>1. \A i \in 1 .. m : L[i] = <<r, T.nleaf[r] - fleaf[r] + i>>
    BY <1>3
  <2>2. \A i \in 1 .. m : L[i] \in Addresses /\ L[i][1] = r /\ L[i][2] > 0
    BY <1>2, <1>3, <2>1 DEF Addresses
  <2> HIDE DEF L
  <2>3. DOMAIN L = 1 .. m /\ L = [i \in DOMAIN L |-> L[i]]
    BY <1>3
  <2>4. L \in [1 .. m -> Addresses]
    BY <2>2, <2>3
  <2>5. QED  BY <1>2, <2>2, <2>4
<1>5. to \in Seq(Addresses) /\ Len(to) \in Nat /\ Len(to) >= n
  <2>1. CASE args.merge_range = 0 \/ merge.cr = Null
    <3>1. Address(r) \in Addresses
      BY <1>2 DEF Address, Addresses
    <3>2. QED  BY <2>1, <3>1, <1>2
  <2>2. CASE args.merge_range # 0 /\ merge.cr # Null
    <3>1. Address(set_txg_router.cr) \in Addresses
      BY <2>2, NewMerging DEF Address, Addresses, Hub
    <3>2. addrs \in [1 .. n -> Addresses]
      BY <1>2
    <3>3. to = [addrs EXCEPT ![merge.icr + 1] = Address(set_txg_router.cr)]
      BY <2>2
    <3> HIDE DEF to, n
    <3>4. to \in [1 .. n -> Addresses]
      BY <3>1, <3>2, <3>3
    <3>5. QED  BY <3>4, <1>2
  <2>3. QED  BY <2>1, <2>2
<1>a. \A j \in 1 .. m : L[j] = <<r, T.nleaf[r] - fleaf[r] + j>>
  BY <1>3
<1> HIDE DEF L, to
<1>6. /\ Len(addrs') = Len(to) + m
      /\ \A i \in 1 .. Len(to) : addrs'[i] = to[i]
      /\ \A i \in Len(to) + 1 .. Len(addrs') : addrs'[i] = L[i - Len(to)]
                                               /\ i - Len(to) \in 1 .. m
  BY <1>1, <1>4, <1>5
<1>b. \A j \in 1 .. m : addrs'[Len(addrs') - m + j] = <<r, T.nleaf[r] - fleaf[r] + j>>
  <2> TAKE j \in 1 .. m
  <2>1. Len(addrs') - m + j \in Len(to) + 1 .. Len(addrs')
        /\ Len(addrs') - m + j - Len(to) = j
    BY <1>5, <1>6
  <2>2. addrs'[Len(addrs') - m + j] = L[j]
    BY <1>6, <2>1
  <2>3. QED  BY <1>a, <2>2
<1>7. \A i \in Len(to) + 1 .. Len(addrs') : From(addrs', i, r)
  BY <1>4, <1>6 DEF From
<1>8. CASE args.merge_range = 0 \/ merge.cr = Null
  <2>1. to = Append(addrs, Address(r)) /\ Len(to) = n + 1
    BY <1>2, <1>8 DEF to
  <2>2. to[n + 1] = Address(r) /\ \A i \in 1 .. n : to[i] = addrs[i] /\ i \in 1 .. Len(to)
    BY <1>2, <2>1
  <2>3. n + 1 \in 1 .. Len(to) /\ Len(to) + 1 = n + 2 /\ Len(addrs') > n
    BY <1>2, <1>6, <2>1
  <2>4. bm' = bm \cup {n}
    BY <1>1, <1>8, NewMerging
  <2>5. QED  BY <1>1, <1>6, <1>7, <1>8, <1>b, <2>2, <2>3, <2>4
<1>9. CASE args.merge_range # 0 /\ merge.cr # Null
  <2>1. to = [addrs EXCEPT ![merge.icr + 1] = Address(set_txg_router.cr)] /\ bm' = bm
    BY <1>1, <1>9 DEF to
  <2>2. addrs \in [1 .. n -> Addresses]
    BY <1>2
  <2>3. Len(to) = n
    BY <1>2, <1>5, <2>1, <2>2
  <2>4. /\ \A i \in 1 .. n : i # merge.icr + 1 => to[i] = addrs[i]
        /\ merge.icr + 1 \in 1 .. n => to[merge.icr + 1] = Address(set_txg_router.cr)
    BY <2>1, <2>2
  <2>5. Len(addrs') >= n
    BY <1>2, <1>6, <2>3
  <2>6. QED  BY <1>1, <1>6, <1>7, <1>9, <1>b, <2>1, <2>3, <2>4, <2>5
<1>10. QED  BY <1>8, <1>9

LEMMA FillSections ==
    ASSUME Bounded, SectionsNow, Split \/ Complete \/ Fill
    PROVE  SectionsNow'
<1>1. /\ T' = T /\ args' = args /\ mdc' = mdc /\ r' = r /\ p' = p
      /\ gpc = "fill" /\ fleaf[r] > 0 /\ fleaf[r] \in Nat /\ r \in Router /\ r \in Hub
      /\ GroupTree(T) /\ args \in Args /\ addrs \in Seq(Addresses) /\ merge \in Merging
      /\ Typed /\ Room /\ fleaf \in [Hub -> Nat] /\ p \in {0, 1}
  BY DEF Split, Complete, Fill, Bounded, Typed, GTypeOK, Hub
<1>2. Bounded'
  BY FillBounded
<1>3. addrs' \in Seq(Addresses) /\ merge' \in Merging
  BY <1>2 DEF Bounded, Typed, Addresses, Hub, Merging
<1>4. \E m \in Nat : m <= fleaf[r] /\ add2txg(m) /\ (gpc' = "fill" => m = fleaf[r])
  <2>1. CASE Split
    <3> DEFINE m == Max - Len(addrs) - p
    <3>1. m \in Nat /\ m <= fleaf[r]
      <4>1. Max \in Nat /\ Len(addrs) \in Nat /\ Len(addrs) + 1 < Max
        BY <1>1, ArgsTypes DEF Room
      <4>2. QED  BY <4>1, <1>1, <2>1 DEF Split, Need
    <3>2. add2txg(m) /\ gpc' = "next"
      BY <2>1 DEF Split
    <3> HIDE DEF m
    <3>3. QED  BY <3>1, <3>2
  <2>2. CASE Complete \/ Fill
    <3>1. add2txg(fleaf[r]) /\ fleaf[r] <= fleaf[r]
      BY <1>1, <2>2 DEF Complete, Fill
    <3>2. QED  BY <1>1, <3>1
  <2>3. QED  BY <2>1, <2>2
<1>5. PICK m \in Nat : m <= fleaf[r] /\ add2txg(m) /\ (gpc' = "fill" => m = fleaf[r])
  BY <1>4
<1>6. merge' = set_txg_router /\ gpc' \in {"fill", "next"}
  BY <1>1, <1>5, AddShape DEF Split, Complete, Fill
<1>7. gpc' = "fill" => fleaf'[r] = 0
  <2>1. fleaf' = [fleaf EXCEPT ![r] = fleaf[r] - m]
    BY <1>5 DEF add2txg
  <2>2. QED  BY <1>1, <1>5, <2>1
<1>8. /\ SoundHeader(Header(addrs, bm))
      /\ mdc \in Seq(Headers) /\ \A i \in 1 .. Len(mdc) : SoundHeader(mdc[i])
      /\ merge.cr = Null => merge.pcr = Null
      /\ merge.cr # Null => Open(addrs, bm, merge.icr, merge.cr, merge.init_hops)
  BY DEF SectionsNow, Sections
<1> SUFFICES /\ SoundHeader(Header(addrs', bm'))
             /\ merge'.cr = Null => merge'.pcr = Null
             /\ merge'.cr # Null =>
                    /\ Open(addrs', bm', merge'.icr, merge'.cr, merge'.init_hops)
                    /\ merge'.pcr # Null =>
                           Dist(merge'.init_hops, T.hops[merge'.pcr]) <= args.merge_range
                    /\ Growing => Reaches(merge', r, fleaf')
  <2>1. Sections(addrs', bm', merge', p', fleaf', gpc', r', mdc')
    BY <1>1, <1>6, <1>7, <1>8 DEF Sections
  <2>2. QED  BY <1>1, <2>1, SectionsLater
<1>9. CASE args.merge_range = 0 \/ merge.cr = Null
  <2>1. /\ Len(addrs') > Len(addrs)
        /\ \A i \in 1 .. Len(addrs) : addrs'[i] = addrs[i]
        /\ addrs'[Len(addrs) + 1] = Address(r)
        /\ \A i \in Len(addrs) + 2 .. Len(addrs') : From(addrs', i, r)
        /\ bm' = bm \cup {Len(addrs)}
    BY <1>1, <1>5, <1>9, AddShape
  <2>2. SoundHeader(Header(addrs', bm'))
    BY <1>1, <1>3, <1>8, <2>1, OpenSound
  <2>3. merge.cr = Null /\ merge.pcr = Null
    BY <1>1, <1>8, <1>9 DEF Room
  <2>4. CASE args.merge_range = 0
    <3>1. merge' = [merge EXCEPT !.icr = Len(addrs)]
      BY <1>6, <2>4 DEF set_txg_router
    <3>2. merge'.cr = Null /\ merge'.pcr = Null
      BY <1>1, <2>3, <3>1 DEF Merging
    <3>3. QED  BY <2>2, <3>2
  <2>5. CASE args.merge_range # 0
    <3>1. merge' = [merge EXCEPT !.cr = r, !.icr = Len(addrs), !.init_hops = T.hops[r]]
      BY <1>6, <2>3, <2>5 DEF set_txg_router
    <3>2. merge'.cr = r /\ merge'.pcr = Null /\ merge'.icr = Len(addrs)
          /\ merge'.init_hops = T.hops[r]
      BY <1>1, <2>3, <3>1 DEF Merging
    <3>3. Dist(T.hops[r], T.hops[r]) <= args.merge_range
      <4>1. T.hops[r] \in Nat /\ args.merge_range \in Nat
        BY <1>1, TreeTypes, ArgsTypes
      <4>2. Dist(T.hops[r], T.hops[r]) = 0
        BY <4>1, DistFacts
      <4>3. QED  BY <4>1, <4>2
    <3>4. r \in Above[r] /\ r \in Anc(r)
      BY <1>1, AncFacts
    <3>5. \A e \in bm' : e <= Len(addrs)
      <4>1. Len(addrs) \in Nat
        BY <1>1
      <4>2. bm \subseteq 0 .. Len(addrs) - 1
        BY <1>8 DEF SoundHeader, Header
      <4>3. QED  BY <2>1, <4>1, <4>2
    <3>6. Open(addrs', bm', Len(addrs), r, T.hops[r])
      BY <1>1, <2>1, <3>3, <3>4, <3>5 DEF Open, From
    <3>7. Reaches(merge', r, fleaf')
      BY <3>2, <3>4 DEF Reaches
    <3>8. QED  BY <2>2, <3>2, <3>6, <3>7, <1>1, RouterAssumption
  <2>6. QED  BY <2>4, <2>5
<1>10. CASE args.merge_range # 0 /\ merge.cr # Null
  <2> DEFINE d == set_txg_router.cr
  <2>1. p = 0 /\ Dist(merge.init_hops, T.hops[r]) <= args.merge_range
    <3>1. p = 0
      BY <1>1, <1>10 DEF Room
    <3>2. QED  BY <1>1, <3>1 DEF SectionsNow, Sections
  <2>2. /\ Dist(merge.init_hops, T.hops[d]) <= args.merge_range
        /\ set_txg_router.init_hops = merge.init_hops
        /\ set_txg_router.pcr # Null =>
               Dist(merge.init_hops, T.hops[set_txg_router.pcr]) <= args.merge_range
        /\ Growing =>
               /\ d \in Anc(merge.cr) /\ d \in Anc(r)
               /\ set_txg_router.pcr # Null => T.hops[d] <= T.hops[set_txg_router.pcr]
    BY <1>1, <1>10, <2>1, ChosenRouter
  <2>3. set_txg_router.icr = merge.icr /\ d \in Router
    BY <1>1, <1>10, NewMerging
  <2>4. Open(addrs, bm, merge.icr, merge.cr, merge.init_hops)
    BY <1>8, <1>10
  <2>5. merge.icr + 1 \in 1 .. Len(addrs)
    <3>1. merge.icr \in bm /\ bm \subseteq 0 .. Len(addrs) - 1
      BY <1>8, <2>4 DEF Open, SoundHeader, Header
    <3>2. Len(addrs) \in Nat
      BY <1>1
    <3>3. merge.icr \in 0 .. Len(addrs) - 1
      BY <3>1, Zenon
    <3>4. \A i : \A l \in Nat : i \in 0 .. l - 1 => i + 1 \in 1 .. l
      OBVIOUS
    <3>5. QED  BY <3>2, <3>3, <3>4, Zenon
  <2>6. /\ Len(addrs') >= Len(addrs)
        /\ \A i \in 1 .. Len(addrs) : i # merge.icr + 1 => addrs'[i] = addrs[i]
        /\ addrs'[merge.icr + 1] = Address(d)
        /\ \A i \in Len(addrs) + 1 .. Len(addrs') : From(addrs', i, r)
        /\ bm' = bm
    BY <1>1, <1>5, <1>10, <2>5, AddShape
  <2>7. merge.init_hops \in Nat
    BY <1>1 DEF Merging
  <2> HIDE DEF d
  <2>8. SoundHeader(Header(addrs', bm)) /\ Open(addrs', bm, merge.icr, d, merge.init_hops)
    BY <1>1, <1>3, <1>8, <2>1, <2>2, <2>3, <2>4, <2>6, <2>7, JoinSound
  <2>9. merge'.cr = d /\ merge'.icr = merge.icr /\ merge'.init_hops = merge.init_hops
    BY <1>6, <2>2, <2>3 DEF d
  <2>10. Growing => Reaches(merge', r, fleaf')
    BY <1>6, <2>2, <2>9 DEF Reaches
  <2>11. d # Null
    BY <2>3, RouterAssumption DEF Hub
  <2>12. QED  BY <1>6, <2>2, <2>6, <2>8, <2>9, <2>10, <2>11
<1>11. QED  BY <1>9, <1>10

LEMMA FinishSections ==
    ASSUME Bounded, SectionsNow, finish_txg
    PROVE  SectionsNow'
<1>1. /\ T' = T /\ args' = args /\ addrs' = << >> /\ bm' = {} /\ gpc' = "get_start"
      /\ mdc' = <<Header(addrs, bm)>> \o mdc
      /\ merge'.cr = Null /\ merge'.pcr = Null
  BY DEF finish_txg, Header, reset_merging_stats
<1> SUFFICES Sections(addrs', bm', merge', p', fleaf', gpc', r', mdc')
  BY <1>1, SectionsLater
<1> DEFINE h == Header(addrs, bm)
<1>2. SoundHeader(h) /\ mdc \in Seq(Headers) /\ \A i \in 1 .. Len(mdc) : SoundHeader(mdc[i])
  BY DEF SectionsNow, Sections
<1>3. h \in Headers
  <2>1. addrs \in Seq(Addresses)
    BY DEF Bounded, Typed
  <2>2. bm \subseteq Nat
    BY DEF Bounded, Typed, GTypeOK, BITMAP_LIMIT
  <2>3. QED  BY <2>1, <2>2 DEF Header, Headers
<1> HIDE DEF h
<1>4. mdc' = <<h>> \o mdc
  BY <1>1 DEF h
<1>5. mdc' \in Seq(Headers) /\ \A i \in 1 .. Len(mdc') : mdc'[i] = h \/ \E j \in 1 .. Len(mdc) : mdc'[i] = mdc[j]
  BY <1>2, <1>3, <1>4
<1>6. \A i \in 1 .. Len(mdc') : SoundHeader(mdc'[i])
  BY <1>2, <1>5
<1>7. SoundHeader(Header(<< >>, {}))
  BY DEF SoundHeader, Header, Covered, Far
<1>8. QED  BY <1>1, <1>5, <1>6, <1>7 DEF Sections, Mergeable

LEMMA StepSections == Bounded /\ ExactNow /\ SectionsNow /\ [GNext]_gvars => SectionsNow'
<1> SUFFICES ASSUME Bounded, ExactNow, SectionsNow, [GNext]_gvars PROVE SectionsNow'
  OBVIOUS
<1>1. CASE get_start \/ Descend \/ Found \/ Retry \/ Remaining
  BY <1>1, SearchSections
<1>2. CASE Enter
  BY <1>2, EnterSections
<1>3. CASE Split \/ Complete \/ Fill
  BY <1>3, FillSections
<1>4. CASE NoRoom \/ Down \/ Up
  BY <1>4, MoveSections
<1>5. CASE finish_txg
  BY <1>5, FinishSections
<1>6. CASE UNCHANGED gvars
  <2>1. /\ T' = T /\ args' = args /\ addrs' = addrs /\ bm' = bm /\ merge' = merge /\ p' = p
        /\ fleaf' = fleaf /\ gpc' = gpc /\ r' = r /\ mdc' = mdc
    BY <1>6 DEF gvars
  <2>2. QED  BY <2>1, SectionsLater DEF SectionsNow
<1>7. QED  BY <1>1, <1>2, <1>3, <1>4, <1>5, <1>6 DEF GNext, Step, Finished

\* argp.c, merge: in every header a receiver follows the address of a router at most
\* twice the range of the option away, which is above it if distances grow.
THEOREM SectionsCover == GSpec => []SectionCovers
<1>1. SectionsNow => SectionCovers
  BY DEF SectionsNow, Sections, SoundHeader, SectionCovers, Header
<1>2. GInit => Bounded /\ ExactNow /\ SectionsNow
  BY InitBegun, InitBounded, InitExact, InitSections
<1>3. Bounded /\ ExactNow /\ SectionsNow /\ [GNext]_gvars => Bounded' /\ ExactNow' /\ SectionsNow'
  BY StepBounded, StepExact, StepSections
<1>4. QED  BY <1>1, <1>2, <1>3, PTL DEF GSpec

-----------------------------------------------------------------------------
\* Who is in which header.  A receiver is at place i of a list.
Held(ad, i, q) == ad[i][1] = q /\ ad[i][2] > 0
Holds(ad, q) == \E i \in 1 .. Len(ad) : Held(ad, i, q)

\* Receivers of a list are some of those that their router has given away.
Given(ad) ==
    \A i \in 1 .. Len(ad) :
        ad[i][2] > 0 => ad[i][1] \in Router
                        /\ ad[i][2] <= T.nleaf[ad[i][1]] - fleaf[ad[i][1]]

\* What a router has given away is in the header being filled or in one of the group.
Kept ==
    \A q \in Router : \A k \in 1 .. T.nleaf[q] - fleaf[q] :
        \/ \E i \in 1 .. Len(addrs) : addrs[i] = <<q, k>>
        \/ \E n \in 1 .. Len(mdc) : \E i \in 1 .. Len(mdc[n].addrs) : mdc[n].addrs[i] = <<q, k>>

\* No receiver is in the header twice, or in it and in the group.
Once ==
    /\ \A i, j \in 1 .. Len(addrs) : addrs[i][2] > 0 /\ addrs[i] = addrs[j] => i = j
    /\ \A i \in 1 .. Len(addrs) : addrs[i][2] > 0 =>
           \A n \in 1 .. Len(mdc) : \A j \in 1 .. Len(mdc[n].addrs) : addrs[i] # mdc[n].addrs[j]

\* A header is begun with a router that has receivers to give, and ends with some.
Useful ==
    /\ gpc \in {"start", "fill"} /\ addrs = << >> => fleaf[r] > 0
    /\ addrs # << >> => \E i \in 1 .. Len(addrs) : addrs[i][2] > 0
    /\ gpc = "next" => addrs # << >>

Ledger ==
    /\ Given(addrs) /\ \A n \in 1 .. Len(mdc) : Given(mdc[n].addrs)
    /\ Kept /\ Once /\ Useful
    /\ gpc # "done" => fleaf[Root] = T.nleaf[Root] /\ uni = {}

\* Without the option, the receivers of a router that fit a header are all free, or
\* all in one.
InOne(q, all, free, ad, hs) ==
    /\ free \in {0, all}
    /\ \A i, j \in 1 .. Len(hs) : Holds(hs[i].addrs, q) /\ Holds(hs[j].addrs, q) => i = j
    /\ Holds(ad, q) => \A i \in 1 .. Len(hs) : ~ Holds(hs[i].addrs, q)

Whole ==
    ~ args.split_nodes =>
        \A q \in Router :
            T.nleaf[q] < Max => InOne(q, T.nleaf[q], fleaf[q], addrs, mdc)

LEMMA InitLedger == Begun => Ledger /\ Whole
<1> SUFFICES ASSUME Begun PROVE Ledger /\ Whole
  OBVIOUS
<1>1. /\ addrs = << >> /\ mdc = << >> /\ fleaf = T.nleaf /\ gpc = "get_start" /\ uni = {}
      /\ GroupTree(T)
  BY DEF Begun
<1>2. Len(addrs) = 0 /\ Len(mdc) = 0
  BY <1>1
<1>3. \A q \in Hub : T.nleaf[q] \in Nat /\ T.nleaf[q] - fleaf[q] = 0
  BY <1>1, TreeTypes
<1>4. Given(addrs) /\ \A n \in 1 .. Len(mdc) : Given(mdc[n].addrs)
  BY <1>2 DEF Given
<1>5. Kept
  BY <1>3 DEF Kept, Hub
<1>6. Once
  BY <1>2 DEF Once
<1>7. Useful
  BY <1>1 DEF Useful
<1>8. Whole
  BY <1>1, <1>2 DEF Whole, InOne, Holds
<1>9. QED  BY <1>1, <1>4, <1>5, <1>6, <1>7, <1>8 DEF Ledger

LEMMA SearchLedger ==
    ASSUME Bounded, ExactNow, Ledger, Whole,
           get_start \/ Descend \/ Found \/ Retry \/ Remaining
    PROVE  Ledger' /\ Whole'
<1>1. /\ T' = T /\ args' = args /\ addrs' = addrs /\ mdc' = mdc
      /\ gpc \in {"get_start", "descend"} /\ gpc' \in {"get_start", "descend", "start", "done"}
      /\ fleaf \in [Hub -> Nat] /\ Root \in Hub
  BY DEF get_start, Descend, Found, Retry, Remaining, Bounded, Typed, GTypeOK, Hub
<1>2. \A q \in Router : fleaf'[q] = fleaf[q]
  <2>1. fleaf' = fleaf \/ fleaf' = [fleaf EXCEPT ![Root] = 0]
    BY DEF get_start, Descend, Found, Retry, Remaining
  <2>2. QED  BY <1>1, <2>1, RouterAssumption DEF Hub
<1>3. gpc' # "done" => fleaf' = fleaf /\ uni' = uni
  BY DEF get_start, Descend, Found, Retry, Remaining
<1>4. gpc' = "start" => fleaf'[r'] > 0
  BY <1>1, <1>3 DEF get_start, Descend, Found, Retry, Remaining, ExactNow, Exact
<1>5. Given(addrs)' /\ \A n \in 1 .. Len(mdc') : Given(mdc[n].addrs)'
  <2>1. Given(addrs)'
    BY <1>1, <1>2 DEF Ledger, Given
  <2>2. \A n \in 1 .. Len(mdc) : Given(mdc[n].addrs)'
    BY <1>1, <1>2 DEF Ledger, Given
  <2>3. QED  BY <1>1, <2>1, <2>2
<1>6. Kept'
  BY <1>1, <1>2 DEF Ledger, Kept
<1>7. Once'
  BY <1>1 DEF Ledger, Once
<1>8. Useful'
  BY <1>1, <1>4 DEF Ledger, Useful
<1>9. Whole'
  BY <1>1, <1>2 DEF Whole, Max
<1>10. QED  BY <1>1, <1>3, <1>5, <1>6, <1>7, <1>8, <1>9 DEF Ledger

LEMMA MoveLedger ==
    ASSUME Bounded, Ledger, Whole, Enter \/ NoRoom \/ Down \/ Up
    PROVE  Ledger' /\ Whole'
<1>1. /\ T' = T /\ args' = args /\ addrs' = addrs /\ mdc' = mdc /\ fleaf' = fleaf /\ uni' = uni
      /\ gpc \in {"start", "fill"} /\ gpc' # "done"
      /\ r \in Hub /\ fleaf[r] \in Nat /\ p \in {0, 1} /\ Max \in Nat
  BY ArgsTypes DEF Enter, NoRoom, Down, Up, Bounded, Typed, GTypeOK
<1>2. Useful'
  <2>1. Useful
    BY DEF Ledger
  <2>2. CASE Enter
    BY <1>1, <2>1, <2>2 DEF Enter, Useful
  <2>3. CASE NoRoom
    <3>1. addrs # << >>
      <4> SUFFICES ASSUME addrs = << >> PROVE FALSE
        OBVIOUS
      <4>1. Len(addrs) = 0
        OBVIOUS
      <4>2. 0 + fleaf[r] + p > Max /\ ~ (fleaf[r] >= Max)
        BY <2>3, <4>1 DEF NoRoom, Need, TooLarge
      <4>3. QED  BY <1>1, <4>2
    <3>2. QED  BY <1>1, <2>1, <2>3, <3>1 DEF NoRoom, Useful
  <2>4. CASE Down \/ Up
    <3>1. addrs # << >>
      BY <2>1, <2>4 DEF Useful, Down, Up
    <3>2. QED  BY <1>1, <2>1, <3>1 DEF Useful
  <2>5. QED  BY <2>2, <2>3, <2>4
<1>3. Given(addrs)' /\ \A n \in 1 .. Len(mdc') : Given(mdc[n].addrs)'
  <2>1. Given(addrs)' /\ \A n \in 1 .. Len(mdc) : Given(mdc[n].addrs)'
    BY <1>1 DEF Ledger, Given
  <2>2. QED  BY <1>1, <2>1
<1>4. Kept'
  BY <1>1 DEF Ledger, Kept
<1>5. Once'
  BY <1>1 DEF Ledger, Once
<1>6. Whole'
  BY <1>1 DEF Whole, Max
<1>7. QED  BY <1>1, <1>2, <1>3, <1>4, <1>5, <1>6 DEF Ledger

LEMMA FinishLedger ==
    ASSUME Bounded, SectionsNow, Ledger, Whole, finish_txg
    PROVE  Ledger' /\ Whole'
<1> DEFINE h == [addrs |-> addrs, bm |-> bm]
<1>1. /\ T' = T /\ args' = args /\ addrs' = << >> /\ mdc' = <<h>> \o mdc /\ fleaf' = fleaf
      /\ uni' = uni /\ gpc = "next" /\ gpc' = "get_start"
  BY DEF finish_txg
<1>2. mdc \in Seq(Headers) /\ h \in Headers
  <2>1. addrs \in Seq(Addresses) /\ bm \subseteq Nat
    BY DEF Bounded, Typed, GTypeOK, BITMAP_LIMIT
  <2>2. QED  BY <2>1 DEF SectionsNow, Sections, Headers
<1>3. h.addrs = addrs
  OBVIOUS
<1> HIDE DEF h
<1>4. /\ Len(mdc') = Len(mdc) + 1 /\ Len(mdc) \in Nat
      /\ mdc'[1] = h /\ \A n \in 1 .. Len(mdc) : mdc'[n + 1] = mdc[n]
  BY <1>1, <1>2
<1>5. \A n \in 1 .. Len(mdc') : n = 1 \/ (n - 1 \in 1 .. Len(mdc) /\ mdc'[n] = mdc[n - 1])
  <2> TAKE n \in 1 .. Len(mdc')
  <2>1. n # 1 => n - 1 \in 1 .. Len(mdc) /\ (n - 1) + 1 = n
    BY <1>4
  <2>2. QED  BY <2>1, <1>4
<1>6. Len(addrs') = 0
  BY <1>1
<1>7. Given(addrs)' /\ \A n \in 1 .. Len(mdc') : Given(mdc[n].addrs)'
  <2>1. Given(addrs)'
    BY <1>6 DEF Given
  <2>2. ASSUME NEW n \in 1 .. Len(mdc') PROVE Given(mdc'[n].addrs)
    BY <1>3, <1>4, <1>5 DEF Ledger
  <2>3. \A n \in 1 .. Len(mdc') : Given(mdc[n].addrs)'
    BY <2>2, <1>1 DEF Given
  <2>4. QED  BY <2>1, <2>3
<1>8. Kept'
  <2> SUFFICES ASSUME NEW q \in Router, NEW k \in 1 .. T.nleaf[q] - fleaf[q]
               PROVE  \E n \in 1 .. Len(mdc') : \E i \in 1 .. Len(mdc'[n].addrs) :
                          mdc'[n].addrs[i] = <<q, k>>
    BY <1>1 DEF Kept
  <2>1. CASE \E i \in 1 .. Len(addrs) : addrs[i] = <<q, k>>
    <3>1. 1 \in 1 .. Len(mdc') /\ mdc'[1].addrs = addrs
      BY <1>3, <1>4
    <3>2. QED  BY <2>1, <3>1
  <2>2. CASE \E n \in 1 .. Len(mdc) : \E i \in 1 .. Len(mdc[n].addrs) :
                 mdc[n].addrs[i] = <<q, k>>
    <3>1. PICK n \in 1 .. Len(mdc) : \E i \in 1 .. Len(mdc[n].addrs) :
                   mdc[n].addrs[i] = <<q, k>>
      BY <2>2
    <3>2. n + 1 \in 1 .. Len(mdc') /\ mdc'[n + 1] = mdc[n]
      BY <1>4
    <3>3. QED  BY <3>1, <3>2
  <2>3. QED  BY <2>1, <2>2 DEF Ledger, Kept
<1>9. Once'
  BY <1>6 DEF Once
<1>10. Useful'
  BY <1>1 DEF Useful
<1>11. Whole'
  <2> SUFFICES ASSUME ~ args.split_nodes, NEW q \in Router, T.nleaf[q] < Max
               PROVE  /\ fleaf[q] \in {0, T.nleaf[q]}
                      /\ \A i, j \in 1 .. Len(mdc') :
                             Holds(mdc'[i].addrs, q) /\ Holds(mdc'[j].addrs, q) => i = j
                      /\ ~ Holds(addrs', q)
    BY <1>1 DEF Whole, InOne, Max
  <2>1. /\ fleaf[q] \in {0, T.nleaf[q]}
        /\ \A i, j \in 1 .. Len(mdc) :
               Holds(mdc[i].addrs, q) /\ Holds(mdc[j].addrs, q) => i = j
        /\ Holds(addrs, q) => \A i \in 1 .. Len(mdc) : ~ Holds(mdc[i].addrs, q)
    BY DEF Whole, InOne
  <2>2. ~ Holds(addrs', q)
    BY <1>6 DEF Holds
  <2>3. ASSUME NEW i \in 1 .. Len(mdc'), NEW j \in 1 .. Len(mdc'),
               Holds(mdc'[i].addrs, q), Holds(mdc'[j].addrs, q)
        PROVE  i = j
    <3>1. CASE i = 1
      <4>1. Holds(addrs, q)
        BY <3>1, <2>3, <1>3, <1>4
      <4>2. QED  BY <4>1, <3>1, <2>1, <2>3, <1>5
    <3>2. CASE j = 1
      <4>1. Holds(addrs, q)
        BY <3>2, <2>3, <1>3, <1>4
      <4>2. QED  BY <4>1, <3>2, <2>1, <2>3, <1>5
    <3>3. CASE i # 1 /\ j # 1
      <4>1. i - 1 = j - 1
        BY <3>3, <2>1, <2>3, <1>5
      <4>2. i \in Int /\ j \in Int
        BY <1>4
      <4>3. QED  BY <4>1, <4>2
    <3>4. QED  BY <3>1, <3>2, <3>3
  <2>4. QED  BY <2>1, <2>2, <2>3
<1>12. QED  BY <1>1, <1>7, <1>8, <1>9, <1>10, <1>11 DEF Ledger

\* Each of the actions that fill a header takes some free leafs of r, and Split does so
\* only if there are too many for any header or they may be split.
LEMMA Taken ==
    ASSUME Bounded, Split \/ Complete \/ Fill
    PROVE  \E m \in Nat : /\ m > 0 /\ m <= fleaf[r] /\ add2txg(m)
                          /\ m < fleaf[r] => TooLarge
                          /\ gpc' = "fill" => m = fleaf[r]
                          /\ fleaf' = [fleaf EXCEPT ![r] = fleaf[r] - m]
<1>1. /\ gpc = "fill" /\ fleaf[r] > 0 /\ fleaf[r] \in Nat /\ p \in {0, 1}
      /\ Max \in Nat /\ Len(addrs) \in Nat /\ Len(addrs) + 1 < Max
  BY ArgsTypes DEF Split, Complete, Fill, Bounded, Typed, GTypeOK, Room
<1>2. CASE Split
  <2> DEFINE m == Max - Len(addrs) - p
  <2>1. m \in Nat /\ m > 0 /\ m <= fleaf[r]
    BY <1>1, <1>2 DEF Split, Need
  <2>2. add2txg(m) /\ gpc' = "next" /\ TooLarge
    BY <1>2 DEF Split
  <2> HIDE DEF m
  <2>3. fleaf' = [fleaf EXCEPT ![r] = fleaf[r] - m]
    BY <2>2 DEF add2txg
  <2>4. QED  BY <2>1, <2>2, <2>3
<1>3. CASE Complete \/ Fill
  <2>1. add2txg(fleaf[r])
    BY <1>3 DEF Complete, Fill
  <2>2. fleaf' = [fleaf EXCEPT ![r] = fleaf[r] - fleaf[r]]
    BY <2>1 DEF add2txg
  <2>3. fleaf[r] <= fleaf[r] /\ ~ (fleaf[r] < fleaf[r])
    BY <1>1
  <2>4. QED  BY <1>1, <2>1, <2>2, <2>3, Zenon
<1>4. QED  BY <1>2, <1>3

LEMMA FillLedger ==
    ASSUME Bounded, SectionsNow, Ledger, Whole, Split \/ Complete \/ Fill
    PROVE  Ledger' /\ Whole'
<1>1. /\ T' = T /\ args' = args /\ mdc' = mdc /\ r' = r /\ uni' = uni
      /\ gpc = "fill" /\ gpc' \in {"fill", "next"}
      /\ fleaf[r] > 0 /\ fleaf[r] \in Nat /\ r \in Router /\ r \in Hub
      /\ GroupTree(T) /\ addrs \in Seq(Addresses)
      /\ Typed /\ Room /\ fleaf \in [Hub -> Nat] /\ T.nleaf[r] \in Nat
  BY TreeTypes DEF Split, Complete, Fill, Bounded, Typed, GTypeOK, Hub
<1>2. Bounded'
  BY FillBounded
<1>3. addrs' \in Seq(Addresses)
  BY <1>2 DEF Bounded, Typed, Addresses, Hub
<1>4. PICK m \in Nat : /\ m > 0 /\ m <= fleaf[r] /\ add2txg(m)
                       /\ m < fleaf[r] => TooLarge
                       /\ gpc' = "fill" => m = fleaf[r]
                       /\ fleaf' = [fleaf EXCEPT ![r] = fleaf[r] - m]
  BY Taken
<1> DEFINE f == T.nleaf[r] - fleaf[r]
           k == Len(addrs') - m
<1>5. f \in Int /\ fleaf'[r] = fleaf[r] - m /\ T.nleaf[r] - fleaf'[r] = f + m
      /\ fleaf'[r] \in Nat /\ fleaf[r] <= T.nleaf[r] /\ f \in Nat
  <2>1. fleaf[r] <= T.nleaf[r]
    BY <1>1 DEF Typed, GTypeOK
  <2>2. fleaf'[r] = fleaf[r] - m
    BY <1>1, <1>4
  <2>3. T.nleaf[r] \in Nat /\ fleaf[r] \in Nat /\ m \in Nat /\ m <= fleaf[r]
    BY <1>1, <1>4
  <2>4. QED  BY <2>1, <2>2, <2>3
<1>6. \A q \in Router : q # r => fleaf'[q] = fleaf[q]
  BY <1>1, <1>4 DEF Hub
<1>7. k \in Nat /\ k >= Len(addrs) /\ Len(addrs') = k + m /\ Len(addrs) \in Nat
  <2>1. Len(addrs') = Len(addrs) + p + m /\ p \in {0, 1}
    BY <1>1, <1>4, AddBounded DEF Typed, GTypeOK
  <2>2. QED  BY <1>1, <2>1
<1>8. \A j \in 1 .. m : addrs'[k + j] = <<r, f + j>>
  BY <1>1, <1>4, AddShape
<1>9. /\ \A i \in 1 .. Len(addrs) : addrs[i][2] > 0 => addrs'[i] = addrs[i]
      /\ \A i \in 1 .. k : addrs'[i][2] > 0 => i \in 1 .. Len(addrs) /\ addrs'[i] = addrs[i]
  <2>1. \A q : Address(q)[2] = 0 /\ ~ (0 > 0)
    BY DEF Address
  <2>2. CASE args.merge_range = 0 \/ merge.cr = Null
    <3>1. /\ \A i \in 1 .. Len(addrs) : addrs'[i] = addrs[i]
          /\ addrs'[Len(addrs) + 1] = Address(r)
      BY <1>1, <1>4, <2>2, AddShape
    <3>2. k = Len(addrs) + 1
      BY <1>1, <1>4, <2>2, AddBounded DEF Room, Typed, GTypeOK
    <3>3. \A i \in 1 .. k : i \in 1 .. Len(addrs) \/ i = Len(addrs) + 1
      BY <3>2, <1>7
    <3>4. QED  BY <2>1, <3>1, <3>3, Zenon
  <2>3. CASE args.merge_range # 0 /\ merge.cr # Null
    <3>1. Open(addrs, bm, merge.icr, merge.cr, merge.init_hops)
          /\ bm \subseteq 0 .. Len(addrs) - 1
      BY <2>3 DEF SectionsNow, Sections, SoundHeader, Header
    <3>2. addrs[merge.icr + 1] = Address(merge.cr) /\ merge.icr \in 0 .. Len(addrs) - 1
      BY <3>1 DEF Open
    <3>3. merge.icr + 1 \in 1 .. Len(addrs)
      <4>1. \A i : \A l \in Nat : i \in 0 .. l - 1 => i + 1 \in 1 .. l
        OBVIOUS
      <4>2. QED  BY <1>7, <3>2, <4>1, Zenon
    <3>4. /\ \A i \in 1 .. Len(addrs) : i # merge.icr + 1 => addrs'[i] = addrs[i]
          /\ addrs'[merge.icr + 1] = Address(set_txg_router.cr)
      BY <1>1, <1>4, <2>3, <3>3, AddShape
    <3>5. k = Len(addrs)
      BY <1>1, <1>4, <2>3, AddBounded DEF Room, Typed, GTypeOK
    <3>6. QED  BY <2>1, <3>2, <3>4, <3>5, Zenon
  <2>4. QED  BY <2>2, <2>3
<1>10. \A i \in 1 .. Len(addrs') :
           i \in 1 .. k \/ (i - k \in 1 .. m /\ k + (i - k) = i)
  BY <1>7
<1>11. \A i \in 1 .. Len(addrs) : i \in 1 .. k /\ i \in 1 .. Len(addrs')
  BY <1>7
<1>12. \A j \in 1 .. m : k + j \in 1 .. Len(addrs')
  BY <1>7
<1> HIDE DEF f, k
<1>13. Given(addrs) /\ (\A n \in 1 .. Len(mdc) : Given(mdc[n].addrs)) /\ Kept /\ Once /\ Useful
  BY DEF Ledger
<1>c. \A n \in 1 .. Len(mdc) : mdc[n].addrs \in Seq(Addresses)
  <2>1. mdc \in Seq(Headers)
    BY DEF SectionsNow, Sections
  <2>2. \A n \in 1 .. Len(mdc) : mdc[n] \in Headers
    BY <2>1
  <2>3. \A h \in Headers : h.addrs \in Seq(Addresses)
    BY DEF Headers
  <2>4. QED  BY <2>2, <2>3
\* What r gives now it has not given before.
<1>14. \A ad : Given(ad) => \A i \in 1 .. Len(ad) : \A j \in 1 .. m : ad[i] # <<r, f + j>>
  <2> SUFFICES ASSUME NEW ad, Given(ad), NEW i \in 1 .. Len(ad), NEW j \in 1 .. m,
                      ad[i] = <<r, f + j>>
               PROVE  FALSE
    OBVIOUS
  <2>1. ad[i][1] = r /\ ad[i][2] = f + j /\ f + j > 0
    BY <1>5
  <2>2. f + j <= T.nleaf[r] - fleaf[r]
    BY <2>1 DEF Given
  <2>3. QED  BY <2>2, <1>5 DEF f
<1>15. \A q \in Router : T.nleaf[q] \in Nat /\ fleaf[q] \in Nat
                         /\ T.nleaf[q] - fleaf[q] <= T.nleaf[q] - fleaf'[q]
  <2> TAKE q \in Router
  <2>1. T.nleaf[q] \in Nat /\ fleaf[q] \in Nat
    BY <1>1, TreeTypes DEF Hub
  <2>2. CASE q = r
    BY <1>4, <1>5, <2>1, <2>2
  <2>3. CASE q # r
    BY <1>6, <2>1, <2>3
  <2>4. QED  BY <2>1, <2>2, <2>3
<1>16. fleaf' \in [Hub -> Nat]
  BY <1>2 DEF Bounded, Typed, GTypeOK
<1>17. \A ad \in Seq(Addresses) : Given(ad) =>
           \A i \in 1 .. Len(ad) : ad[i][2] > 0 =>
               ad[i][1] \in Router /\ ad[i][2] <= T.nleaf[ad[i][1]] - fleaf'[ad[i][1]]
  <2> SUFFICES ASSUME NEW ad \in Seq(Addresses), Given(ad), NEW i \in 1 .. Len(ad), ad[i][2] > 0
               PROVE  ad[i][1] \in Router /\ ad[i][2] <= T.nleaf[ad[i][1]] - fleaf'[ad[i][1]]
    OBVIOUS
  <2>1. ad[i][1] \in Router /\ ad[i][2] <= T.nleaf[ad[i][1]] - fleaf[ad[i][1]]
    BY DEF Given
  <2>2. ad[i][2] \in Nat
    BY DEF Addresses
  <2>3. \A a, b, c, d \in Nat : a <= b - c /\ b - c <= b - d => a <= b - d
    OBVIOUS
  <2>4. fleaf'[ad[i][1]] \in Nat
    BY <1>16, <2>1 DEF Hub
  <2>5. QED  BY <1>15, <2>1, <2>2, <2>3, <2>4
<1>18. Given(addrs)'
  <2> SUFFICES ASSUME NEW i \in 1 .. Len(addrs'), addrs'[i][2] > 0
               PROVE  /\ addrs'[i][1] \in Router
                      /\ addrs'[i][2] <= T.nleaf[addrs'[i][1]] - fleaf'[addrs'[i][1]]
    BY <1>1 DEF Given
  <2>1. CASE i \in 1 .. k
    BY <1>1, <1>9, <1>13, <1>17, <2>1
  <2>2. CASE i - k \in 1 .. m /\ k + (i - k) = i
    <3>1. addrs'[i] = <<r, f + (i - k)>>
      BY <1>8, <2>2
    <3>2. f + (i - k) <= f + m
      BY <1>5, <2>2
    <3>3. QED  BY <1>1, <1>5, <3>1, <3>2
  <2>3. QED  BY <1>10, <2>1, <2>2
<1>19. \A n \in 1 .. Len(mdc') : Given(mdc[n].addrs)'
  <2> SUFFICES ASSUME NEW n \in 1 .. Len(mdc), NEW i \in 1 .. Len(mdc[n].addrs),
                      mdc[n].addrs[i][2] > 0
               PROVE  /\ mdc[n].addrs[i][1] \in Router
                      /\ mdc[n].addrs[i][2]
                           <= T.nleaf[mdc[n].addrs[i][1]] - fleaf'[mdc[n].addrs[i][1]]
    BY <1>1 DEF Given
  <2>1. mdc[n].addrs \in Seq(Addresses)
    BY <1>c
  <2>2. QED  BY <1>13, <1>17, <2>1
<1>20. Kept'
  <2> SUFFICES ASSUME NEW q \in Router, NEW j \in 1 .. T.nleaf[q] - fleaf'[q]
               PROVE  \/ \E i \in 1 .. Len(addrs') : addrs'[i] = <<q, j>>
                      \/ \E n \in 1 .. Len(mdc) : \E i \in 1 .. Len(mdc[n].addrs) :
                             mdc[n].addrs[i] = <<q, j>>
    BY <1>1 DEF Kept
  <2>1. CASE j \in 1 .. T.nleaf[q] - fleaf[q]
    <3>1. ASSUME NEW i \in 1 .. Len(addrs), addrs[i] = <<q, j>>
          PROVE  i \in 1 .. Len(addrs') /\ addrs'[i] = <<q, j>>
      <4>1. addrs[i][2] > 0
        BY <2>1, <3>1
      <4>2. QED  BY <1>9, <1>11, <3>1, <4>1
    <3>2. QED  BY <1>13, <2>1, <3>1 DEF Kept
  <2>2. CASE j \notin 1 .. T.nleaf[q] - fleaf[q]
    <3>1. q = r
      BY <1>6, <2>2
    <3>2. j \in 1 .. f + m /\ j \notin 1 .. f
      BY <1>5, <2>2, <3>1 DEF f
    <3>3. j - f \in 1 .. m /\ f + (j - f) = j
      BY <1>5, <3>2
    <3>4. addrs'[k + (j - f)] = <<q, j>>
      BY <1>8, <3>1, <3>3
    <3>5. QED  BY <1>12, <3>3, <3>4
  <2>3. QED  BY <2>1, <2>2
<1>21. Once'
  <2>1. ASSUME NEW i \in 1 .. Len(addrs'), NEW j \in 1 .. Len(addrs'),
               addrs'[i][2] > 0, addrs'[i] = addrs'[j]
        PROVE  i = j
    <3>1. CASE i \in 1 .. k /\ j \in 1 .. k
      <4>1. /\ i \in 1 .. Len(addrs) /\ addrs'[i] = addrs[i]
            /\ j \in 1 .. Len(addrs) /\ addrs'[j] = addrs[j]
        BY <1>9, <2>1, <3>1
      <4>2. QED  BY <1>13, <2>1, <4>1 DEF Once
    <3>2. CASE i \in 1 .. k /\ j - k \in 1 .. m /\ k + (j - k) = j
      <4>1. i \in 1 .. Len(addrs) /\ addrs'[i] = addrs[i] /\ addrs'[j] = <<r, f + (j - k)>>
        BY <1>8, <1>9, <2>1, <3>2
      <4>2. QED  BY <1>13, <1>14, <2>1, <3>2, <4>1
    <3>3. CASE j \in 1 .. k /\ i - k \in 1 .. m /\ k + (i - k) = i
      <4>1. addrs'[j][2] > 0
        BY <2>1
      <4>2. j \in 1 .. Len(addrs) /\ addrs'[j] = addrs[j] /\ addrs'[i] = <<r, f + (i - k)>>
        BY <1>8, <1>9, <3>3, <4>1
      <4>3. QED  BY <1>13, <1>14, <2>1, <3>3, <4>2
    <3>4. CASE /\ i - k \in 1 .. m /\ k + (i - k) = i
               /\ j - k \in 1 .. m /\ k + (j - k) = j
      <4>1. addrs'[i] = <<r, f + (i - k)>> /\ addrs'[j] = <<r, f + (j - k)>>
        BY <1>8, <3>4
      <4>2. f + (i - k) = f + (j - k)
        <5>1. <<r, f + (i - k)>> = <<r, f + (j - k)>>
          BY <2>1, <4>1, Zenon
        <5>2. QED  BY <5>1, Zenon
      <4>3. QED  BY <1>5, <3>4, <4>2
    <3>5. QED  BY <1>10, <2>1, <3>1, <3>2, <3>3, <3>4
  <2>2. ASSUME NEW i \in 1 .. Len(addrs'), addrs'[i][2] > 0,
               NEW n \in 1 .. Len(mdc), NEW j \in 1 .. Len(mdc[n].addrs),
               addrs'[i] = mdc[n].addrs[j]
        PROVE  FALSE
    <3>1. CASE i \in 1 .. k
      BY <1>9, <1>13, <2>2, <3>1 DEF Once
    <3>2. CASE i - k \in 1 .. m /\ k + (i - k) = i
      <4>1. addrs'[i] = <<r, f + (i - k)>>
        BY <1>8, <3>2
      <4>2. QED  BY <1>13, <1>14, <2>2, <3>2, <4>1
    <3>3. QED  BY <1>10, <2>2, <3>1, <3>2
  <2>3. QED  BY <1>1, <2>1, <2>2 DEF Once
<1>22. Useful'
  <2>1. 1 \in 1 .. m
    BY <1>4
  <2>2. k + 1 \in 1 .. Len(addrs') /\ addrs'[k + 1] = <<r, f + 1>> /\ f + 1 > 0
    BY <1>5, <1>8, <1>12, <2>1
  <2>3. addrs' # << >>
    <3>1. Len(addrs') # 0
      BY <1>7, <1>4
    <3>2. QED  BY <3>1
  <2>4. QED  BY <1>1, <2>2, <2>3 DEF Useful
<1>23. fleaf'[Root] = fleaf[Root]
  BY <1>1, <1>4, RouterAssumption DEF Hub
<1>24. Whole'
  <2> SUFFICES ASSUME ~ args.split_nodes, NEW q \in Router, T.nleaf[q] < Max
               PROVE  InOne(q, T.nleaf[q], fleaf'[q], addrs', mdc)
    BY <1>1 DEF Whole, Max
  <2>1. /\ fleaf[q] \in {0, T.nleaf[q]}
        /\ \A i, j \in 1 .. Len(mdc) :
               Holds(mdc[i].addrs, q) /\ Holds(mdc[j].addrs, q) => i = j
        /\ Holds(addrs, q) => \A i \in 1 .. Len(mdc) : ~ Holds(mdc[i].addrs, q)
    BY DEF Whole, InOne
  <2>2. CASE q = r
    <3>1. fleaf[r] = T.nleaf[r]
      BY <1>1, <2>1, <2>2
    <3>2. ~ TooLarge
      <4>1. Max \in Nat
        BY <1>1, ArgsTypes DEF Typed
      <4>2. QED  BY <1>1, <2>2, <3>1, <4>1 DEF TooLarge
    <3>3. m = fleaf[r]
      BY <1>1, <1>4, <3>2
    <3>4. fleaf'[q] = 0
      <4>1. fleaf'[r] = fleaf[r] - fleaf[r]
        BY <1>5, <3>3, Zenon
      <4>2. QED  BY <1>1, <2>2, <4>1
    <3>5. \A i \in 1 .. Len(mdc) : ~ Holds(mdc[i].addrs, q)
      <4> SUFFICES ASSUME NEW i \in 1 .. Len(mdc), NEW j \in 1 .. Len(mdc[i].addrs),
                          Held(mdc[i].addrs, j, q)
                   PROVE  FALSE
        BY DEF Holds
      <4>1. mdc[i].addrs \in Seq(Addresses)
        BY <1>c
      <4>2. mdc[i].addrs[j][2] \in Nat /\ mdc[i].addrs[j][2] > 0 /\ mdc[i].addrs[j][1] = r
        BY <2>2, <4>1 DEF Held, Addresses
      <4>3. mdc[i].addrs[j][2] <= T.nleaf[r] - fleaf[r]
        BY <1>13, <4>2 DEF Given
      <4>4. QED  BY <1>1, <3>1, <4>2, <4>3
    <3>6. QED  BY <2>1, <3>4, <3>5 DEF InOne
  <2>3. CASE q # r
    <3>1. fleaf'[q] = fleaf[q]
      BY <1>6, <2>3
    <3>2. Holds(addrs', q) => Holds(addrs, q)
      <4> SUFFICES ASSUME NEW i \in 1 .. Len(addrs'), Held(addrs', i, q) PROVE Holds(addrs, q)
        BY DEF Holds
      <4>1. CASE i \in 1 .. k
        BY <1>9, <4>1 DEF Holds, Held
      <4>2. CASE i - k \in 1 .. m /\ k + (i - k) = i
        <5>1. addrs'[i] = <<r, f + (i - k)>>
          BY <1>8, <4>2
        <5>2. QED  BY <2>3, <5>1 DEF Held
      <4>3. QED  BY <1>10, <4>1, <4>2
    <3>3. QED  BY <2>1, <3>1, <3>2 DEF InOne
  <2>4. QED  BY <2>2, <2>3
<1>25. QED
  BY <1>1, <1>18, <1>19, <1>20, <1>21, <1>22, <1>23, <1>24 DEF Ledger

LEMMA StepLedger ==
    ASSUME Bounded, ExactNow, SectionsNow, Ledger, Whole, [GNext]_gvars
    PROVE  Ledger' /\ Whole'
<1>1. CASE get_start \/ Descend \/ Found \/ Retry \/ Remaining
  BY <1>1, SearchLedger
<1>2. CASE Enter \/ NoRoom \/ Down \/ Up
  BY <1>2, MoveLedger
<1>3. CASE Split \/ Complete \/ Fill
  BY <1>3, FillLedger
<1>4. CASE finish_txg
  BY <1>4, FinishLedger
<1>5. CASE UNCHANGED gvars
  <2>1. /\ T' = T /\ args' = args /\ addrs' = addrs /\ mdc' = mdc /\ fleaf' = fleaf
        /\ uni' = uni /\ gpc' = gpc /\ r' = r
    BY <1>5 DEF gvars
  <2>2. Given(addrs)' /\ \A n \in 1 .. Len(mdc') : Given(mdc[n].addrs)'
    <3>1. Given(addrs)' /\ \A n \in 1 .. Len(mdc) : Given(mdc[n].addrs)'
      BY <2>1 DEF Ledger, Given
    <3>2. QED  BY <2>1, <3>1
  <2>3. Kept'
    BY <2>1 DEF Ledger, Kept
  <2>4. Once' /\ Useful'
    BY <2>1 DEF Ledger, Once, Useful
  <2>5. Whole'
    BY <2>1 DEF Whole, Max
  <2>6. QED  BY <2>1, <2>2, <2>3, <2>4, <2>5 DEF Ledger
<1>6. QED  BY <1>1, <1>2, <1>3, <1>4, <1>5 DEF GNext, Step, Finished

\* All that is known of the walk.
Walk == Bounded /\ ExactNow /\ SectionsNow /\ Ledger /\ Whole

LEMMA InitWalk == Begun => Walk
  BY InitBounded, InitExact, InitSections, InitLedger DEF Walk

LEMMA StepWalk == Walk /\ [GNext]_gvars => Walk'
<1> SUFFICES ASSUME Walk, [GNext]_gvars PROVE Walk'
  OBVIOUS
<1>1. Bounded' /\ ExactNow' /\ SectionsNow'
  BY StepBounded, StepExact, StepSections DEF Walk
<1>2. Ledger' /\ Whole'
  BY StepLedger DEF Walk
<1>3. QED  BY <1>1, <1>2 DEF Walk

\* argp.c, split: without the option no two headers have receivers of the same router,
\* unless these are too many for any header.
THEOREM KeepsTogether == GSpec => []KeptTogether
<1>1. Walk => KeptTogether
  <2> SUFFICES ASSUME Walk, ~ args.split_nodes, NEW q \in Router, T.nleaf[q] < Max
               PROVE  Cardinality({i \in 1 .. Len(mdc) :
                                      LeafsOf(q) \cap Elems(mdc[i].addrs) # {}}) <= 1
    BY DEF KeptTogether
  <2> DEFINE C == {i \in 1 .. Len(mdc) : LeafsOf(q) \cap Elems(mdc[i].addrs) # {}}
  <2>1. \A i, j \in 1 .. Len(mdc) : Holds(mdc[i].addrs, q) /\ Holds(mdc[j].addrs, q) => i = j
    BY DEF Walk, Whole, InOne
  <2>2. ASSUME NEW i \in C PROVE Holds(mdc[i].addrs, q)
    <3>1. mdc[i].addrs \in Seq(Addresses)
      <4>1. mdc \in Seq(Headers)
        BY DEF Walk, SectionsNow, Sections
      <4>2. mdc[i] \in Headers
        BY <4>1, <2>2 DEF C
      <4>3. QED  BY <4>2 DEF Headers
    <3>2. PICK k \in DOMAIN mdc[i].addrs : mdc[i].addrs[k] \in LeafsOf(q)
      BY <2>2 DEF Elems
    <3>3. k \in 1 .. Len(mdc[i].addrs)
      BY <3>1, <3>2
    <3>4. T.nleaf[q] \in Nat
      BY TreeTypes DEF Walk, Bounded, Typed, Hub
    <3>5. mdc[i].addrs[k][1] = q /\ mdc[i].addrs[k][2] > 0
      BY <3>2, <3>4 DEF LeafsOf
    <3>6. QED  BY <3>3, <3>5 DEF Holds, Held
  <2>3. \A i, j \in C : i = j
    BY <2>1, <2>2
  <2> HIDE DEF C
  <2>4. CASE C = {}
    <3>1. Cardinality(C) = 0
      BY <2>4, FS_EmptySet
    <3>2. QED  BY <3>1 DEF C
  <2>5. CASE C # {}
    <3>1. PICK i \in C : C = {i}
      BY <2>3, <2>5
    <3>2. Cardinality(C) = 1
      BY <3>1, FS_Singleton
    <3>3. QED  BY <3>2 DEF C
  <2>6. QED  BY <2>4, <2>5
<1>2. QED  BY <1>1, InitBegun, InitWalk, StepWalk, PTL DEF GSpec

-----------------------------------------------------------------------------
\* The walk implements the steps of ReceiverPacking: a header that is finished is a
\* packet, and the leafs of the root are what rests.
Packets == [i \in 1 .. Len(mdc) |-> Leafs(mdc[i].addrs)]
Served(hs) == UNION {Elems(hs[i].addrs) : i \in 1 .. Len(hs)}
Todo == (All \ Served(mdc)) \ uni

\* The steps that ReceiverPacking allows, without its liveness.
PackingSteps == Packing!Init /\ [][Packing!Pack \/ Packing!Rest]_(Packing!vars)

\* The first element of a sequence, given as a function, and the others.
LEMMA HeadTail ==
    ASSUME NEW n \in Nat, NEW g, DOMAIN g = 1 .. n + 1, g = [i \in DOMAIN g |-> g[i]]
    PROVE  g # << >> /\ Head(g) = g[1] /\ Tail(g) = [i \in 1 .. n |-> g[i + 1]]
<1> DEFINE S == {g[i] : i \in 1 .. n + 1}
<1>1. g \in [1 .. n + 1 -> S]
  OBVIOUS
<1> HIDE DEF S
<1>2. g \in Seq(S) /\ Len(g) = n + 1
  BY <1>1
<1>3. g # << >> /\ Head(g) = g[1]
  BY <1>2
<1>4. /\ Tail(g) \in Seq(S) /\ Len(Tail(g)) = n
      /\ \A i \in 1 .. n : Tail(g)[i] = g[i + 1]
  BY <1>2, <1>3
<1>5. Tail(g) = [i \in 1 .. n |-> g[i + 1]]
  <2> DEFINE t == Tail(g)
  <2>1. t \in Seq(S) /\ Len(t) = n /\ \A i \in 1 .. n : t[i] = g[i + 1]
    BY <1>4
  <2> HIDE DEF t
  <2>2. t \in [1 .. n -> S]
    BY <2>1
  <2>3. t = [i \in 1 .. n |-> g[i + 1]]
    BY <2>1, <2>2
  <2>4. QED  BY <2>3 DEF t
<1>6. QED  BY <1>3, <1>5

\* Who is served, when one more header is.
LEMMA ServedMore ==
    ASSUME NEW hs \in Seq(Headers), NEW h \in Headers
    PROVE  Served(<<h>> \o hs) = Served(hs) \cup Elems(h.addrs)
<1> DEFINE all == <<h>> \o hs
<1>1. /\ Len(all) = Len(hs) + 1 /\ Len(hs) \in Nat
      /\ all[1] = h /\ \A n \in 1 .. Len(hs) : all[n + 1] = hs[n]
  OBVIOUS
<1> HIDE DEF all
<1>2. ASSUME NEW n \in 1 .. Len(all)
      PROVE  n = 1 \/ (n - 1 \in 1 .. Len(hs) /\ all[n] = hs[n - 1])
  <2>1. n # 1 => n - 1 \in 1 .. Len(hs) /\ (n - 1) + 1 = n
    BY <1>1
  <2>2. QED  BY <2>1, <1>1
<1>3. ASSUME NEW x PROVE x \in Served(all) <=> x \in Served(hs) \/ x \in Elems(h.addrs)
  <2>1. ASSUME x \in Served(all) PROVE x \in Served(hs) \/ x \in Elems(h.addrs)
    <3>1. PICK n \in 1 .. Len(all) : x \in Elems(all[n].addrs)
      BY <2>1 DEF Served
    <3>2. QED  BY <3>1, <1>1, <1>2 DEF Served
  <2>2. ASSUME x \in Elems(h.addrs) PROVE x \in Served(all)
    <3>1. 1 \in 1 .. Len(all)
      BY <1>1
    <3>2. QED  BY <2>2, <3>1, <1>1 DEF Served
  <2>3. ASSUME x \in Served(hs) PROVE x \in Served(all)
    <3>1. PICK n \in 1 .. Len(hs) : x \in Elems(hs[n].addrs)
      BY <2>3 DEF Served
    <3>2. n + 1 \in 1 .. Len(all) /\ all[n + 1] = hs[n]
      BY <1>1
    <3>3. QED  BY <3>1, <3>2 DEF Served
  <2>4. QED  BY <2>1, <2>2, <2>3
<1>4. QED  BY <1>3 DEF all

LEMMA InitPacking == GInit => Packing!Init
<1> SUFFICES ASSUME GInit PROVE Packing!Init
  OBVIOUS
<1>1. mdc = << >> /\ uni = {} /\ Root \in Hub
  BY DEF GInit, Hub
<1>2. Len(mdc) = 0
  BY <1>1
<1>3. Packets = << >>
  BY <1>2 DEF Packets
<1>4. Served(mdc) = {}
  BY <1>2 DEF Served
<1>5. LeafsOf(Root) \subseteq Todo
  BY <1>1, <1>4 DEF Todo, All
<1>6. QED  BY <1>1, <1>3, <1>5, Zenon DEF Packing!Init, Packets, Todo, Served

\* What is in a packet, and what else is in its address list: the receivers of the
\* list belong to routers; no address of a router is one of a receiver.
LEMMA GivenLeafs ==
    ASSUME GroupTree(T), NEW ad \in Seq(Addresses), Given(ad),
           fleaf \in [Hub -> Nat], NEW i \in DOMAIN ad
    PROVE  /\ ad[i] \notin LeafsOf(Root)
           /\ ad[i][2] > 0 => ad[i] \in All
           /\ ~ (ad[i][2] > 0) => ad[i] \notin All
<1>1. i \in 1 .. Len(ad) /\ ad[i] \in Addresses
  OBVIOUS
<1>2. PICK x \in Hub, k \in Nat : ad[i] = <<x, k>>
  BY <1>1 DEF Addresses
<1>3. ad[i][1] = x /\ ad[i][2] = k
  BY <1>2
<1>4. ASSUME k > 0 PROVE x \in Router /\ k \in 1 .. T.nleaf[x]
  <2>1. x \in Router /\ k <= T.nleaf[x] - fleaf[x]
    BY <1>1, <1>3, <1>4 DEF Given
  <2>2. T.nleaf[x] \in Nat /\ fleaf[x] \in Nat
    BY <1>2, TreeTypes
  <2>3. QED  BY <2>1, <2>2, <1>4
<1>5. \A q \in Hub : ad[i] \in LeafsOf(q) => q = x /\ k > 0
  <2> SUFFICES ASSUME NEW q \in Hub, ad[i] \in LeafsOf(q) PROVE q = x /\ k > 0
    OBVIOUS
  <2>1. PICK j \in 1 .. T.nleaf[q] : ad[i] = <<q, j>>
    BY DEF LeafsOf
  <2>2. T.nleaf[q] \in Nat
    BY TreeTypes
  <2>3. QED  BY <2>1, <2>2, <1>2
<1>6. ad[i] \notin LeafsOf(Root)
  BY <1>4, <1>5, RouterAssumption DEF Hub
<1>7. k > 0 => ad[i] \in All
  BY <1>2, <1>4 DEF All, LeafsOf
<1>8. ~ (k > 0) => ad[i] \notin All
  BY <1>5 DEF All
<1>9. QED  BY <1>3, <1>6, <1>7, <1>8

\* No step but finish_txg and Remaining changes what has been packed.
LEMMA PackingLater ==
    ASSUME UNCHANGED <<T, args, mdc, uni>>
    PROVE  UNCHANGED Packing!vars
<1>1. T' = T /\ args' = args /\ mdc' = mdc /\ uni' = uni
  OBVIOUS
<1>2. /\ \A q : LeafsOf(q)' = LeafsOf(q)
      /\ Max' = Max
  BY <1>1 DEF LeafsOf, Max
<1>3. LeafsOf(Root)' = LeafsOf(Root) /\ All' = All
  BY <1>1 DEF All, LeafsOf
<1>4. Packets' = Packets /\ Served(mdc)' = Served(mdc)
  BY <1>1 DEF Packets, Served, Leafs, Elems
<1>5. Todo' = Todo
  BY <1>1, <1>3, <1>4 DEF Todo
<1>6. QED
  BY <1>1, <1>2, <1>3, <1>4, <1>5, Zenon DEF Packing!vars

\* The receivers of the header that is finished.
LEMMA HeaderReceivers ==
    ASSUME Walk, gpc = "next"
    PROVE  /\ Cardinality(DOMAIN Leafs(addrs)) \in 1 .. Max - 1
           /\ Elems(Leafs(addrs)) \subseteq Todo \ LeafsOf(Root)
           /\ \A i, j \in DOMAIN Leafs(addrs) : Leafs(addrs)[i] = Leafs(addrs)[j] => i = j
           /\ Todo \ Elems(Leafs(addrs)) = (All \ (Served(mdc) \cup Elems(addrs))) \ uni
<1> DEFINE D == {j \in DOMAIN addrs : addrs[j][2] > 0}
           n == Len(addrs)
<1>1. /\ GroupTree(T) /\ addrs \in Seq(Addresses) /\ n \in Nat /\ n <= Max /\ Max \in Nat
      /\ DOMAIN addrs = 1 .. n /\ fleaf \in [Hub -> Nat]
      /\ bm \subseteq Nat /\ uni = {}
  <2>1. Typed /\ Len(addrs) <= Max /\ Ledger
    BY DEF Walk, Bounded, Room
  <2>2. /\ GroupTree(T) /\ addrs \in Seq(Addresses) /\ fleaf \in [Hub -> Nat] /\ bm \subseteq Nat
        /\ Max \in Nat
    BY <2>1, ArgsTypes DEF Typed, GTypeOK, BITMAP_LIMIT
  <2>3. uni = {}
    BY <2>1 DEF Ledger
  <2>4. QED  BY <2>1, <2>2, <2>3
<1>2. Given(addrs) /\ Once
  BY DEF Walk, Ledger
<1>3. DOMAIN Leafs(addrs) = D /\ \A i \in D : Leafs(addrs)[i] = addrs[i]
  BY DEF Leafs
<1>4. D # {}
  BY <1>1 DEF Walk, Ledger, Useful
<1>5. 1 \notin D
  <2> SUFFICES ASSUME 1 \in 1 .. n, addrs[1][2] > 0 PROVE FALSE
    BY <1>1
  <2>1. Covered(Header(addrs, bm))
    BY DEF Walk, SectionsNow, Sections, SoundHeader
  <2>2. 1 - 1 = 0
    OBVIOUS
  <2>3. 0 \notin bm
    BY <2>1, <2>2, <1>1 DEF Covered, Header, Addresses
  <2>4. PICK b \in bm : Leads(Header(addrs, bm), b, 1)
    BY <2>1, <2>2, <2>3 DEF Covered, Header
  <2>5. b < 1 - 1 /\ b \in Nat
    BY <2>4, <1>1 DEF Leads
  <2>6. QED  BY <2>5
<1>6. Cardinality(D) \in 1 .. Max - 1
  <2>1. D \subseteq 2 .. n
    BY <1>1, <1>5
  <2> HIDE DEF D, n
  <2>2. IsFiniteSet(2 .. n) /\ Cardinality(2 .. n) = IF 2 > n THEN 0 ELSE n - 2 + 1
    BY <1>1, FS_Interval
  <2>3. n >= 2
    <3>1. PICK d \in D : d \in 2 .. n
      BY <1>4, <2>1
    <3>2. n \in Nat
      BY <1>1
    <3>3. QED  BY <3>1, <3>2
  <2>4. IsFiniteSet(D) /\ Cardinality(D) <= Cardinality(2 .. n)
    BY <2>1, <2>2, FS_Subset
  <2>5. Cardinality(D) \in Nat /\ Cardinality(D) # 0
    BY <1>4, <2>4, FS_CardinalityType, FS_EmptySet
  <2>6. Cardinality(2 .. n) = n - 1 /\ n \in Nat /\ Max \in Nat /\ n <= Max
    BY <1>1, <2>2, <2>3
  <2>7. \A c, d, l, m \in Int : c > 0 /\ c <= d /\ d = l - 1 /\ l <= m => c \in 1 .. m - 1
    OBVIOUS
  <2>8. QED  BY <2>4, <2>5, <2>6, <2>7
<1>7. \A i \in D : addrs[i] \in All /\ addrs[i] \notin LeafsOf(Root)
  BY <1>1, <1>2, GivenLeafs
<1>8. \A i \in D : addrs[i] \notin Served(mdc)
  <2> SUFFICES ASSUME NEW i \in D, NEW k \in 1 .. Len(mdc), addrs[i] \in Elems(mdc[k].addrs)
               PROVE  FALSE
    BY DEF Served
  <2>1. mdc \in Seq(Headers)
    BY DEF Walk, SectionsNow, Sections
  <2>2. mdc[k].addrs \in Seq(Addresses)
    <3>1. mdc[k] \in Headers
      BY <2>1
    <3>2. QED  BY <3>1 DEF Headers
  <2>3. PICK j \in 1 .. Len(mdc[k].addrs) : addrs[i] = mdc[k].addrs[j]
    BY <2>2 DEF Elems
  <2>4. i \in 1 .. Len(addrs) /\ addrs[i][2] > 0
    BY <1>1
  <2>5. QED  BY <1>2, <2>3, <2>4 DEF Once
<1>9. \A i, j \in D : addrs[i] = addrs[j] => i = j
  BY <1>1, <1>2 DEF Once
<1>10. \A i \in DOMAIN addrs : i \notin D => addrs[i] \notin All
  BY <1>1, <1>2, GivenLeafs
<1>11. Elems(Leafs(addrs)) = {addrs[i] : i \in D}
  BY <1>3 DEF Elems
<1> HIDE DEF D, n
<1>12. Elems(Leafs(addrs)) \subseteq Todo \ LeafsOf(Root)
  BY <1>1, <1>7, <1>8, <1>11 DEF Todo
<1>13. All \cap Elems(addrs) = Elems(Leafs(addrs))
  <2>1. D \subseteq DOMAIN addrs
    BY DEF D
  <2>2. QED  BY <2>1, <1>7, <1>10, <1>11 DEF Elems
<1>14. Todo \ Elems(Leafs(addrs)) = (All \ (Served(mdc) \cup Elems(addrs))) \ uni
  BY <1>13 DEF Todo
<1>15. QED  BY <1>3, <1>6, <1>9, <1>12, <1>14

LEMMA FinishPacks ==
    ASSUME Walk, finish_txg
    PROVE  Packing!Pack
<1> DEFINE h == Header(addrs, bm)
           n == Len(mdc)
           q == Leafs(addrs)
<1>1. /\ T' = T /\ args' = args /\ uni' = uni /\ gpc = "next" /\ mdc' = <<h>> \o mdc
  BY DEF finish_txg, Header
<1>2. mdc \in Seq(Headers) /\ h \in Headers /\ h.addrs = addrs
  <2>1. addrs \in Seq(Addresses) /\ bm \subseteq Nat
    BY DEF Walk, Bounded, Typed, GTypeOK, BITMAP_LIMIT
  <2>2. QED  BY <2>1 DEF Walk, SectionsNow, Sections, Headers, Header
<1> HIDE DEF h
<1>3. n \in Nat /\ Len(mdc') = n + 1 /\ mdc'[1] = h /\ \A i \in 1 .. n : mdc'[i + 1] = mdc[i]
  BY <1>1, <1>2
<1>4. Packets' = [i \in 1 .. n + 1 |-> Leafs(mdc'[i].addrs)]
  BY <1>3 DEF Packets, Leafs
<1>5. Packets' # << >> /\ Head(Packets') = q /\ Tail(Packets') = Packets
  <2> DEFINE g == [i \in 1 .. n + 1 |-> Leafs(mdc'[i].addrs)]
  <2>1. g[1] = q /\ \A i \in 1 .. n : g[i + 1] = Leafs(mdc[i].addrs)
    BY <1>2, <1>3
  <2>2. DOMAIN g = 1 .. n + 1 /\ g = [i \in DOMAIN g |-> g[i]]
    OBVIOUS
  <2>3. g = Packets'
    BY <1>4
  <2> HIDE DEF g, q
  <2>4. g # << >> /\ Head(g) = g[1] /\ Tail(g) = [i \in 1 .. n |-> g[i + 1]]
    BY <1>3, <2>2, HeadTail
  <2>5. [i \in 1 .. n |-> g[i + 1]] = Packets
    BY <2>1 DEF Packets
  <2>6. QED  BY <2>1, <2>3, <2>4, <2>5
<1>6. /\ Cardinality(DOMAIN q) \in 1 .. Max - 1
      /\ Elems(q) \subseteq Todo \ LeafsOf(Root)
      /\ \A i, j \in DOMAIN q : q[i] = q[j] => i = j
      /\ Todo \ Elems(q) = (All \ (Served(mdc) \cup Elems(addrs))) \ uni
  BY <1>1, HeaderReceivers
<1>7. LeafsOf(Root)' = LeafsOf(Root) /\ All' = All /\ Max' = Max
  BY <1>1 DEF LeafsOf, All, Max
<1>8. Served(mdc') = Served(mdc) \cup Elems(addrs)
  BY <1>1, <1>2, ServedMore
<1>9. Todo' = Todo \ Elems(q)
  <2>1. Todo' = (All' \ Served(mdc')) \ uni'
    BY DEF Todo, Served, Elems
  <2>2. QED  BY <2>1, <1>1, <1>6, <1>7, <1>8
<1> HIDE DEF q, n
<1> DEFINE Fits(x) ==
             LET S == {x[i] : i \in DOMAIN x}
             IN  /\ Packing!Cardinality(DOMAIN x) \in 1 .. Max - 1
                 /\ S \subseteq Todo \ LeafsOf(Root)
                 /\ \A i, j \in DOMAIN x : x[i] = x[j] => i = j
                 /\ Todo' = Todo \ S
<1>10. \A S : Packing!Cardinality(S) = Cardinality(S)
  BY DEF Packing!Cardinality, Cardinality
<1>11. Fits(q)
  BY <1>6, <1>9, <1>10, Zenon DEF Elems
<1>12. Packets' # << >> /\ Tail(Packets') = Packets
  BY <1>5
<1>13. UNCHANGED <<LeafsOf(Root), Max, uni>>
  BY <1>1, <1>7
<1>14. Fits(Head(Packets'))
  <2> HIDE DEF Fits
  <2>1. Head(Packets') = q
    BY <1>5
  <2>2. QED  BY <2>1, <1>11, Zenon
<1>15. Packing!Pack <=> /\ Packets' # << >> /\ Tail(Packets') = Packets
                         /\ Fits(Head(Packets'))
                         /\ UNCHANGED <<LeafsOf(Root), Max, uni>>
  BY DEF Packing!Pack, Packets, Todo, Served
<1>16. QED
  BY <1>12, <1>13, <1>14, <1>15, Zenon

\* When no child of the root is free, no router has a free leaf: the uppermost of those
\* that are live would be such a child.
LEMMA NoneLeft ==
    ASSUME Bounded, ExactNow, gpc = "descend", fchild[Root] = 0, NEW x \in Router
    PROVE  fleaf[x] = 0
<1> SUFFICES ASSUME fleaf[x] > 0 PROVE FALSE
  BY DEF Bounded, Typed, GTypeOK, Hub
<1> DEFINE L == {c \in Router : Live(fleaf, c)}
<1>1. GroupTree(T) /\ Root \in Hub /\ Told(fleaf, fchild, Root)
  BY DEF Bounded, Typed, Hub, ExactNow, Exact
<1>2. L \in SUBSET Router /\ x \in L
  BY <1>1, LiveHere
<1>3. PICK c \in L : T.parent[c] \notin L
  BY <1>1, <1>2, TreeTypes
<1>4. T.parent[c] = Root
  <2> SUFFICES ASSUME T.parent[c] # Root PROVE FALSE
    OBVIOUS
  <2>1. T.parent[c] \in Router
    BY <1>1, <1>3, TreeTypes DEF Hub
  <2>2. T.parent[c] \in Anc(c)
    BY <1>1, <1>3, <2>1, AncFacts
  <2>3. QED  BY <1>1, <1>3, <2>1, <2>2, LiveUp
<1>5. PICK i \in Places(Root) : T.child[Root][i] = c
  <2>1. fleaf \in Stocks
    BY DEF Bounded, Typed, GTypeOK, Stocks
  <2>2. Used(T, c)
    BY <1>1, <1>3, <2>1, LiveUsed
  <2>3. QED  BY <1>1, <1>3, <1>4, <2>2, PlaceOf
<1>6. FirstFree(fchild, Root) <= i
  BY <1>1, <1>3, <1>5 DEF Told
<1>7. Len(T.child[Root]) \in Nat /\ i \in 1 .. Len(T.child[Root])
  BY <1>1, <1>5, ChildFacts DEF Places
<1>8. Len(T.child[Root]) - 0 + 1 <= i
  BY <1>6 DEF FirstFree
<1>9. QED  BY <1>7, <1>8

\* The search ends when all receivers but the leafs of the root have been served.
LEMMA RestsOnly ==
    ASSUME Walk, gpc = "descend", fchild[Root] = 0
    PROVE  Todo = LeafsOf(Root)
<1>1. /\ GroupTree(T) /\ Root \in Hub /\ addrs = << >> /\ uni = {}
      /\ Kept /\ \A n \in 1 .. Len(mdc) : Given(mdc[n].addrs)
      /\ fleaf \in [Hub -> Nat] /\ mdc \in Seq(Headers)
  BY DEF Walk, Bounded, Typed, Room, GTypeOK, Ledger, Hub, SectionsNow, Sections
<1>2. \A n \in 1 .. Len(mdc) : mdc[n].addrs \in Seq(Addresses)
  <2> SUFFICES ASSUME NEW n \in 1 .. Len(mdc) PROVE mdc[n].addrs \in Seq(Addresses)
    OBVIOUS
  <2>1. mdc[n] \in Headers
    BY <1>1
  <2>2. QED  BY <2>1 DEF Headers
<1>3. ASSUME NEW e \in LeafsOf(Root) PROVE e \in All /\ e \notin Served(mdc)
  <2>1. e \in All
    BY <1>1, <1>3 DEF All
  <2>2. ASSUME NEW n \in 1 .. Len(mdc), e \in Elems(mdc[n].addrs) PROVE FALSE
    <3>1. PICK i \in DOMAIN mdc[n].addrs : e = mdc[n].addrs[i]
      BY <2>2 DEF Elems
    <3>2. mdc[n].addrs[i] \notin LeafsOf(Root)
      BY <1>1, <1>2, <3>1, GivenLeafs
    <3>3. QED  BY <1>3, <3>1, <3>2
  <2>3. QED  BY <2>1, <2>2 DEF Served
<1>4. ASSUME NEW q \in Router, NEW e \in LeafsOf(q) PROVE e \in Served(mdc)
  <2>1. PICK k \in 1 .. T.nleaf[q] : e = <<q, k>>
    BY <1>4 DEF LeafsOf
  <2>2. fleaf[q] = 0
    BY NoneLeft DEF Walk
  <2>3. T.nleaf[q] \in Nat
    BY <1>1, TreeTypes DEF Hub
  <2>4. k \in 1 .. T.nleaf[q] - fleaf[q] /\ Len(addrs) = 0
    BY <1>1, <2>1, <2>2, <2>3
  <2>5. PICK n \in 1 .. Len(mdc) : \E i \in 1 .. Len(mdc[n].addrs) : mdc[n].addrs[i] = <<q, k>>
    <3>1. ~ \E i \in 1 .. Len(addrs) : addrs[i] = <<q, k>>
      BY <2>4
    <3>2. k \in 1 .. T.nleaf[q] - fleaf[q] /\ q \in Router
      BY <2>4
    <3>3. QED  BY <1>1, <3>1, <3>2, Zenon DEF Kept
  <2>6. PICK i \in 1 .. Len(mdc[n].addrs) : mdc[n].addrs[i] = e
    BY <2>1, <2>5
  <2>7. e \in Elems(mdc[n].addrs)
    BY <1>2, <2>6 DEF Elems
  <2>8. QED  BY <2>7 DEF Served
<1>5. \A e \in All : e \in LeafsOf(Root) \/ e \in Served(mdc)
  BY <1>4 DEF All, Hub
<1>6. QED  BY <1>1, <1>3, <1>5 DEF Todo

LEMMA RemainingRests ==
    ASSUME Walk, Remaining
    PROVE  Packing!Rest \/ UNCHANGED Packing!vars
<1> DEFINE m == fleaf[Root]
<1>1. /\ T' = T /\ args' = args /\ mdc' = mdc /\ gpc = "descend" /\ r = Root /\ ~ HasFree(r)
      /\ uni' = {FreeLeafs(Root, m)[i] : i \in 1 .. m}
  BY DEF Remaining
<1>2. GroupTree(T) /\ Root \in Hub /\ uni = {} /\ m = T.nleaf[Root] /\ m \in Nat
      /\ fchild \in Counters
  BY <1>1, TreeTypes DEF Walk, Bounded, Typed, GTypeOK, Ledger, Hub, Counters
<1>3. Todo = LeafsOf(Root)
  <2>1. fchild[Root] = 0
    BY <1>1, <1>2, NoneFree
  <2>2. QED  BY <1>1, <2>1, RestsOnly
<1>4. uni' = LeafsOf(Root)
  <2>1. \A i \in 1 .. m : FreeLeafs(Root, m)[i] = <<Root, i>>
    <3> SUFFICES ASSUME NEW i \in 1 .. m PROVE FreeLeafs(Root, m)[i] = <<Root, i>>
      OBVIOUS
    <3>1. FreeLeafs(Root, m)[i] = <<Root, T.nleaf[Root] - fleaf[Root] + i>>
      BY DEF FreeLeafs
    <3>2. T.nleaf[Root] - fleaf[Root] + i = i
      BY <1>2
    <3>3. QED  BY <3>1, <3>2
  <2> HIDE DEF m
  <2>2. uni' = {<<Root, i>> : i \in 1 .. m}
    BY <1>1, <2>1
  <2>3. QED  BY <1>2, <2>2 DEF LeafsOf
<1>5. /\ LeafsOf(Root)' = LeafsOf(Root) /\ Max' = Max /\ All' = All
      /\ Packets' = Packets /\ Served(mdc)' = Served(mdc)
  <2>1. LeafsOf(Root)' = LeafsOf(Root) /\ Max' = Max /\ All' = All
    BY <1>1 DEF LeafsOf, Max, All
  <2>2. Packets' = Packets /\ Served(mdc)' = Served(mdc)
    BY <1>1 DEF Packets, Served, Leafs, Elems
  <2>3. QED  BY <2>1, <2>2
<1>6. Todo' = {}
  <2>1. Todo' = (All \ Served(mdc)) \ LeafsOf(Root)
    BY <1>4, <1>5 DEF Todo
  <2>2. QED  BY <2>1, <1>2, <1>3 DEF Todo
<1>7. CASE LeafsOf(Root) = {}
  <2>1. Todo' = Todo /\ uni' = uni
    BY <1>2, <1>3, <1>4, <1>6, <1>7
  <2>2. QED  BY <1>5, <2>1 DEF Packing!vars, Todo, Served, Packets
<1>8. CASE LeafsOf(Root) # {}
  <2>1. Todo = LeafsOf(Root) /\ Todo # {} /\ uni' = LeafsOf(Root) /\ Todo' = {}
    BY <1>3, <1>4, <1>6, <1>8
  <2>2. UNCHANGED <<LeafsOf(Root), Max, Packets>>
    BY <1>5
  <2>3. QED  BY <2>1, <2>2 DEF Packing!Rest, Todo, Served, Packets
<1>9. QED  BY <1>7, <1>8

\* When the walk has ended everything is used up, and the leafs of the root are in the
\* unicast list.
Ended ==
    gpc = "done" => /\ addrs = << >> /\ uni = LeafsOf(Root)
                    /\ \A q \in Hub : fleaf[q] = 0 /\ fchild[q] = 0

LEMMA StepEnded ==
    ASSUME Walk, Step, gpc' = "done"
    PROVE  Ended'
<1>1. Remaining
  BY DEF Step, get_start, Descend, Found, Retry, Remaining, Enter, Split, NoRoom, Complete,
         Fill, Down, Up, finish_txg
<1> DEFINE m == fleaf[Root]
<1>2. /\ T' = T /\ fchild' = fchild /\ gpc = "descend" /\ r = Root /\ ~ HasFree(r)
      /\ addrs' = addrs /\ fleaf' = [fleaf EXCEPT ![Root] = 0]
      /\ uni' = {FreeLeafs(Root, m)[i] : i \in 1 .. m}
  BY <1>1 DEF Remaining
<1>3. /\ GroupTree(T) /\ Root \in Hub /\ m = T.nleaf[Root] /\ m \in Nat
      /\ fchild \in Counters /\ fleaf \in [Hub -> Nat] /\ addrs = << >>
      /\ Told(fleaf, fchild, Root) /\ Anc(Root) = {}
  BY <1>2, TreeTypes DEF Walk, Bounded, Typed, Room, GTypeOK, Ledger, Hub, Counters,
                         ExactNow, Exact, Anc
<1>4. fchild[Root] = 0
  BY <1>2, <1>3, NoneFree
<1>5. \A x \in Router : fleaf[x] = 0
  BY <1>2, <1>4, NoneLeft DEF Walk
<1>6. \A q \in Hub : fleaf'[q] = 0
  BY <1>2, <1>3, <1>5 DEF Hub
<1>7. ASSUME NEW q \in Hub PROVE fchild[q] = 0
  <2> SUFFICES ASSUME fchild[q] # 0 PROVE FALSE
    OBVIOUS
  <2> DEFINE n == Len(T.child[q])
  <2>1. fchild[q] \in Nat /\ n \in Nat /\ fchild[q] <= n
    BY <1>3, ChildFacts DEF Counters
  <2>2. n \in Places(q) /\ FirstFree(fchild, q) <= n
    BY <2>1 DEF Places, FirstFree
  <2>3. Live(fleaf, T.child[q][n])
    BY <1>3, <2>2 DEF Told
  <2>4. QED  BY <1>5, <2>3 DEF Live
<1>8. uni' = LeafsOf(Root)'
  <2>1. \A i \in 1 .. m : FreeLeafs(Root, m)[i] = <<Root, i>>
    <3> SUFFICES ASSUME NEW i \in 1 .. m PROVE FreeLeafs(Root, m)[i] = <<Root, i>>
      OBVIOUS
    <3>1. FreeLeafs(Root, m)[i] = <<Root, T.nleaf[Root] - fleaf[Root] + i>>
      BY DEF FreeLeafs
    <3>2. T.nleaf[Root] - fleaf[Root] + i = i
      BY <1>3
    <3>3. QED  BY <3>1, <3>2
  <2> HIDE DEF m
  <2>2. uni' = {<<Root, i>> : i \in 1 .. m}
    BY <1>2, <2>1
  <2>3. QED  BY <1>2, <1>3, <2>2 DEF LeafsOf
<1>9. QED  BY <1>2, <1>3, <1>6, <1>7, <1>8 DEF Ended

\* greedy_grouping implements ReceiverPacking, as far as safety goes: every header it
\* finishes holds receivers that are in no header yet, each of them once, at least one
\* and at most one less than the limit; the unicast list is given what rests, when
\* nothing else does.
THEOREM StepsOfPacking == GSpec => PackingSteps
<1>1. Walk /\ [GNext]_gvars => [Packing!Pack \/ Packing!Rest]_(Packing!vars)
  <2> SUFFICES ASSUME Walk, [GNext]_gvars
               PROVE  Packing!Pack \/ Packing!Rest \/ UNCHANGED Packing!vars
    OBVIOUS
  <2>1. CASE finish_txg
    BY <2>1, FinishPacks
  <2>2. CASE Remaining
    BY <2>2, RemainingRests
  <2>3. CASE get_start \/ Descend \/ Found \/ Retry
    <3>1. UNCHANGED <<T, args, mdc, uni>>
      BY <2>3 DEF get_start, Descend, Found, Retry
    <3>2. QED  BY <3>1, PackingLater
  <2>4. CASE Enter \/ Split \/ NoRoom \/ Complete \/ Fill \/ Down \/ Up
    <3>1. UNCHANGED <<T, args, mdc, uni>>
      BY <2>4 DEF Enter, Split, NoRoom, Complete, Fill, Down, Up
    <3>2. QED  BY <3>1, PackingLater
  <2>5. CASE UNCHANGED gvars
    <3>1. UNCHANGED <<T, args, mdc, uni>>
      BY <2>5 DEF gvars
    <3>2. QED  BY <3>1, PackingLater
  <2>6. QED  BY <2>1, <2>2, <2>3, <2>4, <2>5 DEF GNext, Step, Finished
<1>2. QED  BY <1>1, InitBegun, InitWalk, StepWalk, InitPacking, PTL DEF GSpec, PackingSteps
===============================================================================
