------------------------------ MODULE IntFifo ------------------------------
(***************************************************************************)
(* What the Lua interrupt queue promises (doc/en/inthandlers.txt), without *)
(* the ring, the hook or the virtual machine: while a Lua state is open,   *)
(* interrupts are accepted into a FIFO of bounded capacity, they are taken *)
(* out one at a time in the order of acceptance, and closing the state     *)
(* discards what is left.  EluaInt is shown to implement this module.      *)
(***************************************************************************)
EXTENDS Naturals, Sequences

CONSTANTS
    Capacity,   \* how many interrupts can wait
    Items,      \* the interrupts (an ID and a resource number each)
    NoItem      \* "no interrupt is being served"

VARIABLES
    fifo,       \* accepted interrupts not yet taken, oldest first
    current,    \* the interrupt being served
    open        \* a Lua state exists

fifoVars == <<fifo, current, open>>

FifoInit ==
    /\ fifo = <<>>
    /\ current = NoItem
    /\ open = FALSE

Open ==
    /\ ~open
    /\ open' = TRUE
    /\ UNCHANGED <<fifo, current>>

Accept(x) ==
    /\ open
    /\ Len(fifo) < Capacity
    /\ fifo' = Append(fifo, x)
    /\ UNCHANGED <<current, open>>

Take ==
    /\ open
    /\ fifo # <<>>
    /\ current = NoItem
    /\ current' = Head(fifo)
    /\ fifo' = Tail(fifo)
    /\ UNCHANGED open

\* The handler of the current interrupt has run, or there was none to run.
Done ==
    /\ current # NoItem
    /\ current' = NoItem
    /\ UNCHANGED <<fifo, open>>

Close ==
    /\ open
    /\ current = NoItem
    /\ open' = FALSE
    /\ fifo' = <<>>
    /\ UNCHANGED current

FifoNext ==
    \/ Open
    \/ \E x \in Items : Accept(x)
    \/ Take
    \/ Done
    \/ Close

FifoSafety == FifoInit /\ [][FifoNext]_fifoVars

\* A waiting interrupt is taken as long as the Lua state stays open, and a
\* handler returns.
FifoSpec == FifoSafety /\ WF_fifoVars(Take) /\ WF_fifoVars(Done)
=============================================================================
