-------------------------------- MODULE Ante ---------------------------------
(*
 * The ante handlers of x/wasm: each transaction of a block gets its position, a
 * counter that is kept in the store together with the height. Blocks are executed
 * on a branch of the store that is committed at their end; transactions are
 * checked for the mempool on another branch. A node that stops loses both and
 * executes the block again. Simulations neither get a counter nor store one.
 *
 * Sources: x/wasm/keeper/ante.go, the order of the decorators in app/ante.go,
 * TXCounter in x/wasm/types/context.go. The baseapp is external: the writes of
 * the ante handlers are kept if none of them fails, also when a message fails.
 *
 * Bounds: Base, HeightDigits and CounterDigits stand for 256, 8 and 4; MaxHeight
 * and MaxBlockTx bound the heights and the transactions of a block.
 *)
EXTENDS Integers, Sequences, FiniteSets

CONSTANTS Base, HeightDigits, CounterDigits, MaxHeight, MaxBlockTx

VARIABLES height,    (* of the last committed block *)
          committed, (* the stored counter, empty or bytes *)
          check,     (* its value on the branch for checks *)
          block,     (* transactions of the block, or what was decided of it *)
          running,   (* the block is being executed *)
          branch,    (* the stored counter on the branch of the block *)
          counters   (* what the transactions executed so far got *)
anteVars == <<height, committed, check, block, running, branch, counters>>

NoCounter == -1

AnteIdle ==
    /\ height = 0 /\ committed = << >> /\ check = << >> /\ block = << >>
    /\ running = FALSE /\ branch = << >> /\ counters = << >>

------------------------------------------------------------------------------
(* Numbers as bytes *)

(* n without its last k digits, for k up to width. *)
Shifts(n, width) ==
    LET shift[k \in 0..width] == IF k = 0 THEN n ELSE shift[k - 1] \div Base
    IN  shift

BigEndian(n, width) ==
    LET shift == Shifts(n, width)
    IN  [i \in 1..width |-> shift[width - i] % Base]

Number(digits) ==
    LET value[k \in 0..Len(digits)] ==
          IF k = 0 THEN 0 ELSE value[k - 1] * Base + digits[k]
    IN  value[Len(digits)]

(* A number of at most width digits. *)
Fits(n, width) == Shifts(n, width)[width] = 0

(* Heights and counters fit: 2^64 and 2^32 are out of reach. *)
ASSUME AnteAssumption ==
    /\ Base \in Nat /\ Base > 1
    /\ HeightDigits \in Nat \ {0} /\ CounterDigits \in Nat \ {0}
    /\ MaxHeight \in Nat /\ \A h \in 0..MaxHeight : Fits(h, HeightDigits)
    /\ MaxBlockTx \in Nat /\ \A n \in 0..MaxBlockTx : Fits(n, CounterDigits)

encodeHeightCounter(h, counter) ==
    BigEndian(h, HeightDigits) \o BigEndian(counter, CounterDigits)

decodeHeightCounter(bz) ==
    [height |-> Number(SubSeq(bz, 1, HeightDigits)),
     counter |-> Number(SubSeq(bz, HeightDigits + 1, Len(bz)))]

------------------------------------------------------------------------------
(* The decorators *)

(* The counter of a transaction at this height. *)
txCounter_AnyHeight(store, h) ==
    IF store = << >> THEN 0 ELSE decodeHeightCounter(store).counter
txCounter(store, h) ==
    IF store # << >> /\ decodeHeightCounter(store).height = h
      THEN decodeHeightCounter(store).counter ELSE 0

(* What CountTXDecorator stores. *)
Counted(store, h) == encodeHeightCounter(h, txCounter(store, h) + 1)

------------------------------------------------------------------------------
(* Blocks. A transaction is whether it passes all the ante handlers. *)

(* A node that starts again gets the block that was decided before. *)
BeginBlock ==
    /\ ~running
    /\ height < MaxHeight
    /\ IF block = << >> THEN block' \in UNION {[1..n -> BOOLEAN] : n \in 1..MaxBlockTx}
                        ELSE UNCHANGED block
    /\ running' = TRUE
    /\ branch' = committed
    /\ counters' = << >>
    /\ UNCHANGED <<height, committed, check>>

(* Messages run with the counter in their context. *)
DeliverTx ==
    /\ running
    /\ Len(counters) < Len(block)
    /\ LET passes == block[Len(counters) + 1]
       IN  /\ branch' = IF passes THEN Counted(branch, height + 1) ELSE branch
           /\ counters' = Append(counters, IF passes
                                             THEN txCounter(branch, height + 1)
                                             ELSE NoCounter)
    /\ UNCHANGED <<height, committed, check, block, running>>

Commit ==
    /\ running
    /\ Len(counters) = Len(block)
    /\ height' = height + 1
    /\ committed' = branch
    /\ check' = branch
    /\ block' = << >>
    /\ running' = FALSE
    /\ branch' = << >>
    /\ counters' = << >>

(* The node stops and starts again from what is committed. *)
Restart ==
    /\ check' = committed
    /\ running' = FALSE
    /\ branch' = << >>
    /\ counters' = << >>
    /\ UNCHANGED <<height, committed, block>>

(* Before, between and after the transactions of a block. *)
CheckTx ==
    /\ txCounter(check, height) < MaxBlockTx
    /\ check' = Counted(check, height)
    /\ UNCHANGED <<height, committed, block, running, branch, counters>>

AnteNext ==
    \/ BeginBlock
    \/ DeliverTx
    \/ Commit
    \/ Restart
    \/ CheckTx

AnteSpec == AnteIdle /\ [][AnteNext]_anteVars

------------------------------------------------------------------------------
(* Properties *)

(* The counter with which the messages of a transaction run is the number of  *)
(* earlier transactions of the same block that passed the ante handlers: it   *)
(* starts at 0 in every block, no two transactions of a block share one, and  *)
(* neither checks, rejected transactions nor a restart of the node in the     *)
(* middle of the block change it.                                             *)
CounterIsPosition ==
    \A i \in DOMAIN counters :
        block[i] =>
            counters[i] = Cardinality({j \in 1..(i - 1) : block[j]})
==============================================================================
