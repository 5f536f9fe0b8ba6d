--------------------------- MODULE EluaIntNested ---------------------------
(***************************************************************************)
(* elua_int_add statement by statement, on a CPU whose interrupts have     *)
(* preemption priorities.  The stm32 port (platform_int_init) gives the    *)
(* interrupt lines of the EXTI, the SysTick timer and the USARTs different *)
(* ones, and the handlers of all three call elua_int_add.  The index is    *)
(* volatile: each statement reads it again.                                *)
(***************************************************************************)
EXTENDS EluaInt

CONSTANT NLevels    \* preemption levels; level l is preempted by l + 1, ...

VARIABLE isr        \* per level, where elua_int_add is (idle, store, publish)
                    \* and the element it adds

Levels == 1 .. NLevels
Idle == [at |-> "idle", item |-> Empty]

nestedVars == <<vars, isr>>

IsrActive == \E l \in Levels : isr[l].at # "idle"

NestedInit == Init /\ isr = [l \in Levels |-> Idle]

\* An interrupt of level l is taken: nothing of its level or above is active.
\* The early returns of elua_int_add are passed.
AddCheck(l, id, resnum) ==
    /\ gie
    /\ \A k \in l .. NLevels : isr[k].at = "idle"
    /\ Wanted(id)
    /\ HasRoom
    /\ isr' = [isr EXCEPT ![l] = [at |-> "store",
                                  item |-> [id |-> id, resnum |-> resnum]]]
    /\ UNCHANGED vars

\* Level l has the CPU and is about to execute statement `at'.
OnCpu(l, at) ==
    /\ isr[l].at = at
    /\ \A k \in l + 1 .. NLevels : isr[k].at = "idle"

\* The element's fields are written.
AddStore(l) ==
    /\ OnCpu(l, "store")
    /\ queue' = [queue EXCEPT ![write_idx] = isr[l].item]
    /\ pending' = Append(pending, isr[l].item)
    /\ isr' = [isr EXCEPT ![l].at = "publish"]
    /\ UNCHANGED <<read_idx, write_idx, flags, handlers, gie, vmVars>>

\* The index is advanced and the hook is set: a preempting elua_int_add would
\* find the slot at write_idx occupied until then, and leave.
AddPublish(l) ==
    /\ OnCpu(l, "publish")
    /\ write_idx' = NextIdx(write_idx)
    /\ Arm(Main)
    /\ isr' = [isr EXCEPT ![l] = Idle]
    /\ UNCHANGED <<queue, read_idx, flags, handlers, gie, chain, suspended,
                   pc, crt, pending>>

NestedIsr ==
    \E l \in Levels :
        \/ \E id \in Ids, resnum \in Resnums : AddCheck(l, id, resnum)
        \/ AddStore(l)
        \/ AddPublish(l)

\* The main program only runs when no ISR does.
NestedNext ==
    \/ NestedIsr
    \/ ~IsrActive /\ MainProgram /\ UNCHANGED isr

NestedSpec == NestedInit /\ [][NestedNext]_nestedVars

----------------------------------------------------------------------------
(* Checked here: NoOverwrite, of which doc/en/inthandlers.txt:13 says that  *)
(* with a full queue "subsequent interrupts are ignored (not added to the   *)
(* queue)".  The room is checked some statements, and maybe some preempting *)
(* interrupts, before the interrupt is stored.                              *)
=============================================================================
