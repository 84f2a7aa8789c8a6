------------------------------ MODULE Workload ------------------------------
(***************************************************************************)
(* How a benchmark run is prepared and reported, through the files the     *)
(* programs leave each other: gen_numbers writes prime_cal_cnt.txt and     *)
(* numbers.bin, gen_orders reads the latter and writes orders.bin, the     *)
(* client (example/client/main.c) loads orders.bin, runs, and prints the   *)
(* percentiles of the delays of its orders.  The programs are started by   *)
(* hand, in any order and any number of times.                             *)
(*                                                                         *)
(* What the client's event loop does is in Client.tla; here a run ends     *)
(* with some of its orders answered.  An order that was not answered keeps *)
(* the timestamps of orders.bin, all zero, and counts as a delay of 0.     *)
(***************************************************************************)
EXTENDS Numbers, Sequences, SequencesExt

CONSTANTS
    Starts,       \* first number gen_numbers looks at; {100000000000} in the code
    Num,          \* how many, 1000000 in the code
    Margin,       \* accepted distance from the largest count, 2000 in the code
    Uint64,       \* values of a uint64_t, 2^64 in the code
    Leftover,     \* what malloc may have left where a count is
    Total,        \* orders gen_orders writes, 10000 in the code
    Uint32,       \* values of a uint32_t, 2^32 in the code
    Rounds,       \* args.round, as the client may be called
    PerRound,     \* args.order_per_round
    Delays,       \* delays an answered order may have had
    Parts         \* 100 in the code, percent; it prints every tenth line

ASSUME SizesAssumption ==
    /\ Starts \subseteq Nat
    /\ {Num, Parts, Uint32, Uint64} \subseteq Nat \ {0}
    /\ Margin \in 0..(Uint64 - 1)
    /\ Total \in Nat
    /\ Leftover \subseteq 0..(Uint64 - 1)
    /\ Rounds \subseteq 0..(Uint32 - 1)
    /\ PerRound \subseteq 0..(Uint32 - 1)
    /\ Delays \subseteq Nat \ {0}

\* A count fits the uint64_t it is kept in.
ASSUME CountsAssumption ==
    \A start \in Starts : \A i \in 0..(Num - 1) : calc_cnt(start + i) < Uint64

NoFile == [exists |-> FALSE, content |-> <<>>]
File(content) == [exists |-> TRUE, content |-> content]

NoArgs == [round |-> 0, order_per_round |-> 0]

VARIABLES
    looked_at,   \* the numbers the last gen_numbers has looked at
    zeroed,      \* and whether malloc had given it zeroed memory
    yes,         \* prime_cal_cnt.txt: the numbers with a "yes"
    numbers,     \* numbers.bin
    has_orders,  \* orders.bin exists, with Total orders
    ended,       \* how the last program ended
    client,      \* the client: "none", "running"
    args,        \* its round and order_per_round
    elapsed,     \* the delays of one leg of its orders, as dump_orders has them
    printed      \* the lines output_percentile has printed for it

genVars == <<looked_at, zeroed, yes, numbers>>
clientVars == <<client, args, elapsed, printed>>
vars == <<looked_at, zeroed, yes, numbers, has_orders, ended, client, args,
          elapsed, printed>>

Init ==
    /\ looked_at = {}
    /\ zeroed = TRUE
    /\ yes = {}
    /\ numbers = NoFile
    /\ has_orders = FALSE
    /\ ended = "none"
    /\ client = "none"
    /\ args = NoArgs
    /\ elapsed = <<>>
    /\ printed = <<>>

-----------------------------------------------------------------------------
(* Helpers.  A definition named Fault_... is a seeded fault: a plausible    *)
(* slip in the definition that follows it.  Nothing uses it.                *)

\* gen_numbers: the counts after the first loop, from what was in the memory.
Counts(start, left) ==
    [n \in start..(start + Num - 1) |-> (left[n - start] + calc_cnt(n)) % Uint64]

\* gen_numbers: the orders qsort with cmp_num_cal_cnt may leave the numbers in,
\* the largest count first.  Equal counts may come in any order.
Descending(cnt) ==
    {arr \in Bijection(1..Num, DOMAIN cnt) :
        \A i, j \in 1..Num : i < j => cnt[arr[i]] >= cnt[arr[j]]}

\* gen_numbers: accept_cal_cnt, for the largest count.
Accept(max) == (max - Margin) % Uint64

Fault_Accepted(cnt, arr) ==    \* only counts above the threshold
    {k \in DOMAIN arr : \A j \in 1..k : cnt[arr[j]] > Accept(cnt[arr[1]])}

\* gen_numbers: the loop that writes numbers.bin, up to its break.
Accepted(cnt, arr) ==
    {k \in DOMAIN arr : \A j \in 1..k : cnt[arr[j]] >= Accept(cnt[arr[1]])}

\* client main: the product compared with total_orders and kept in max_idx.
max_idx(a) == (a.round * a.order_per_round) % Uint32

\* client main: not "number of order < need order".
Enough(a) == max_idx(a) <= Total

Fault_Elapsed(answered, delay) == \* the two timestamps of the leg swapped
    [i \in 1..max_idx(args) |-> IF i - 1 \in answered THEN 0 - delay[i - 1] ELSE 0]

\* dump_orders: get_elapsed_ns of one leg for each order, in the order of coid.
Elapsed(answered, delay) ==
    [i \in 1..max_idx(args) |-> IF i - 1 \in answered THEN delay[i - 1] ELSE 0]

\* dump_orders: the delays e once qsort with cmp_uint64 is through.  The i-th is
\* the least of them with i of them at most as large.
Sorted(e) ==
    LET upto(v) == Cardinality({k \in DOMAIN e : e[k] <= v})
    IN  [i \in DOMAIN e |->
            CHOOSE v \in Range(e) :
                /\ i <= upto(v)
                /\ \A w \in Range(e) : i <= upto(w) => v <= w]

\* output_percentile of the sorted delays.  Position counts from 0.
Lines(sorted) ==
    [i \in 1..(Parts + 1) |-> sorted[Position(i - 1, Len(sorted), Parts) + 1]]

-----------------------------------------------------------------------------
(* The programs.                                                            *)

GenNumbers(start, left) ==
    LET cnt == Counts(start, left)
    IN  /\ looked_at' = DOMAIN cnt
        /\ zeroed' = \A k \in DOMAIN left : left[k] = 0
        /\ yes' = {n \in DOMAIN cnt : is_prime(n)}
        /\ \E arr \in Descending(cnt) :
              numbers' = File(SubSeq(arr, 1, Cardinality(Accepted(cnt, arr))))
        /\ ended' = "ok"
        /\ UNCHANGED <<has_orders, clientVars>>

\* gen_orders without argument.
GenOrders ==
    /\ numbers.exists
    /\ numbers.content # <<>>
    /\ has_orders' = TRUE
    /\ ended' = "ok"
    /\ UNCHANGED <<genVars, clientVars>>

\* load_numbers: "failed read".
GenOrdersNoNumbers ==
    /\ ~numbers.exists
    /\ ended' = "failed"
    /\ UNCHANGED <<genVars, has_orders, clientVars>>

\* An empty numbers.bin: malloc(0) returns NULL, or rand() % cnt divides by 0.
GenOrdersEmpty ==
    /\ numbers.exists
    /\ numbers.content = <<>>
    /\ ended' \in {"failed", "trapped"}
    /\ UNCHANGED <<genVars, has_orders, clientVars>>

\* gen_orders with an argument: atoi(argv[0]) reads the name of the program and
\* makes 0 of it, "invalid order number".
GenOrdersWithNumber ==
    /\ numbers.exists
    /\ ended' = "failed"
    /\ UNCHANGED <<genVars, has_orders, clientVars>>

\* client main, up to the event loop.
ClientStart(a) ==
    /\ client = "none"
    /\ \/ /\ has_orders /\ Enough(a)
          /\ client' = "running"
          /\ args' = a
          /\ elapsed' = <<>>
          /\ printed' = <<>>
          /\ UNCHANGED ended
       \/ /\ ~(has_orders /\ Enough(a))
          /\ ended' = "failed"
          /\ UNCHANGED clientVars
    /\ UNCHANGED <<genVars, has_orders>>

\* client main, after the event loop: dump_orders.
ClientReport(answered, delay) ==
    /\ client = "running"
    /\ elapsed' = Elapsed(answered, delay)
    /\ printed' = Lines(Sorted(elapsed'))
    /\ client' = "none"
    /\ args' = NoArgs
    /\ ended' = "ok"
    /\ UNCHANGED <<genVars, has_orders>>

\* dump_orders of no orders: output_percentile reads arr[cnt - 1] with cnt = 0,
\* before the start of the array: whatever is there is printed, or the process
\* dies.
ClientReportNothing ==
    /\ client = "running"
    /\ max_idx(args) = 0
    /\ ended' \in {"ok", "trapped"}
    /\ client' = "none"
    /\ args' = NoArgs
    /\ UNCHANGED <<genVars, has_orders, elapsed, printed>>

Next ==
    \/ \E start \in Starts, left \in [0..(Num - 1) -> Leftover] : GenNumbers(start, left)
    \/ GenOrders
    \/ GenOrdersNoNumbers
    \/ GenOrdersEmpty
    \/ GenOrdersWithNumber
    \/ \E a \in [round : Rounds, order_per_round : PerRound] : ClientStart(a)
    \/ /\ max_idx(args) > 0
       /\ \E answered \in SUBSET (0..(max_idx(args) - 1)) :
              \E delay \in [answered -> Delays] : ClientReport(answered, delay)
    \/ ClientReportNothing

Spec == Init /\ [][Next]_vars

-----------------------------------------------------------------------------
(* Properties.                                                              *)

TypeOK ==
    /\ looked_at \subseteq Nat
    /\ zeroed \in BOOLEAN
    /\ yes \subseteq looked_at
    /\ numbers \in [exists : BOOLEAN, content : Seq(looked_at)]
    /\ has_orders \in BOOLEAN
    /\ ended \in {"none", "ok", "failed", "trapped"}
    /\ client \in {"none", "running"}
    /\ args \in [round : 0..(Uint32 - 1), order_per_round : 0..(Uint32 - 1)]
    /\ elapsed \in Seq(Delays \cup {0})
    /\ printed \in Seq(Delays \cup {0})

\* prime_cal_cnt.txt says "yes" to every prime that was looked at: the trial
\* division, which tries i and i + 2 at a time, rejects none.
PrimesKept == {n \in looked_at : Prime(n)} \subseteq yes

\* If gen_numbers started from zeroed memory, numbers.bin has exactly the
\* numbers whose count is within Margin of the largest; and it is empty if the
\* largest count is below Margin, when the subtraction wraps.
CostlyNumbersOnly ==
    numbers.exists /\ zeroed =>
        LET max == CHOOSE m \in {calc_cnt(n) : n \in looked_at} :
                       \A n \in looked_at : calc_cnt(n) <= m
            costly == {n \in looked_at : calc_cnt(n) + Margin >= max}
        IN  IF max < Margin THEN numbers.content = <<>>
            ELSE /\ {numbers.content[k] : k \in DOMAIN numbers.content} = costly
                 /\ Len(numbers.content) = Cardinality(costly)

\* Each line of the report is at most the true percentile (enough orders took
\* at least as long), it is too low by less than one order per line, and it is
\* the true percentile when the number of orders is a multiple of Parts.
PercentilesClose ==
    \A i \in DOMAIN printed :
        LET cnt == Len(elapsed)
            line == i - 1
            AtLeast == Cardinality({k \in 1..cnt : elapsed[k] >= printed[i]})
            AtMost == Cardinality({k \in 1..cnt : elapsed[k] <= printed[i]})
        IN  /\ AtLeast * Parts >= (Parts - line) * cnt
            /\ (AtMost + line) * Parts > line * cnt
            /\ cnt % Parts = 0 => AtMost * Parts >= line * cnt

(* A statement the code does not keep; see the README.                      *)

\* is_prime is to "detect n is prime" (gen_numbers/main.c): prime_cal_cnt.txt
\* says "yes" to primes only.
PrimesOnly == \A n \in yes : Prime(n)

=============================================================================
