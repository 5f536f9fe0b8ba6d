--------------------------- MODULE EluaIntProofs ---------------------------
(***************************************************************************)
(* Theorems about EluaInt, for every size of the queue, every set of       *)
(* interrupts and, where not said otherwise, every Lua program.            *)
(***************************************************************************)
EXTENDS EluaInt, TLAPS

\* What the FIFO theorems assume of the Lua program: its handlers return and
\* it creates no coroutine.  Without this they are false (runs int_x_*).
WellBehaved == Coroutines = {} /\ ~HandlersMayFail

----------------------------------------------------------------------------
(* The operators                                                           *)

\* Advancing an index: the modulo is a wrap-around test.
LEMMA NextIdxWraps ==
    ASSUME NEW i \in Slots
    PROVE  /\ NextIdx(i) \in Slots
           /\ NextIdx(i) = IF i = QSize - 1 THEN 0 ELSE i + 1
  <1>1. CASE i = QSize - 1
    <2>1. (i + 1) % QSize = 0
      BY <1>1, QSizeAssumption DEF Slots
    <2> QED
      BY <2>1, <1>1, QSizeAssumption DEF NextIdx, Slots
  <1>2. CASE i # QSize - 1
    <2>1. i + 1 \in 0 .. QSize - 1
      BY <1>2, QSizeAssumption DEF Slots
    <2>2. (i + 1) % QSize = i + 1
      BY <2>1, QSizeAssumption
    <2> QED
      BY <2>1, <2>2, <1>2 DEF NextIdx, Slots
  <1> QED
    BY <1>1, <1>2

\* elua_int_add appends to the sequence the ring holds.
LEMMA AddAppends ==
    ASSUME NEW q \in [Slots -> Items \cup {Empty}], NEW s \in Slots,
           NEW w \in Slots, NEW p \in Seq(Items), NEW x \in Items,
           Holds(q, s, w, p), q[w] = Empty
    PROVE  Holds([q EXCEPT ![w] = x], s, NextIdx(w), Append(p, x))
  <1> DEFINE r == [q EXCEPT ![w] = x]
             n == Len(p)
             ps == Append(p, x)
  <1>1. n \in Nat /\ Len(ps) = n + 1 /\ ps[n + 1] = x
        /\ \A k \in 1 .. n : ps[k] = p[k] /\ p[k] \in Items
    OBVIOUS
  <1>2. n < QSize
    <2> SUFFICES ASSUME n = QSize PROVE FALSE
      BY <1>1, QSizeAssumption DEF Holds
    <2>1. w = s /\ Offset(s, w) = 0
      BY QSizeAssumption DEF Holds, Offset, Slots
    <2>2. q[w] = p[1] /\ p[1] \in Items
      BY <2>1, <1>1, QSizeAssumption DEF Holds
    <2> QED
      BY <2>2, EmptyAssumption
  <1>3. Offset(s, w) = n
    BY <1>1, <1>2, QSizeAssumption DEF Holds
  <1>4. \A i \in Slots : Offset(s, i) \in 0 .. QSize - 1
                         /\ (Offset(s, i) = n => i = w)
    BY <1>3, QSizeAssumption DEF Offset, Slots
  <1>5. ASSUME NEW i \in Slots
        PROVE  r[i] = IF Offset(s, i) < Len(ps) THEN ps[Offset(s, i) + 1]
                                                ELSE Empty
    <2>1. CASE i = w
      BY <2>1, <1>1, <1>3
    <2>2. CASE i # w /\ Offset(s, i) < n
      <3>1. r[i] = p[Offset(s, i) + 1]
        BY <2>2 DEF Holds
      <3> QED
        BY <3>1, <2>2, <1>1, <1>4
    <2>3. CASE i # w /\ ~(Offset(s, i) < n)
      <3>1. r[i] = Empty
        BY <2>3 DEF Holds
      <3>2. Offset(s, i) # n
        BY <2>3, <1>4
      <3> QED
        BY <3>1, <3>2, <2>3, <1>1, <1>4
    <2> QED
      BY <2>1, <2>2, <2>3
  <1>6. IF Len(ps) = QSize THEN NextIdx(w) = s
                           ELSE Offset(s, NextIdx(w)) = Len(ps)
    <2>1. NextIdx(w) \in Slots /\ NextIdx(w) = IF w = QSize - 1 THEN 0 ELSE w + 1
      BY NextIdxWraps
    <2>2. Len(ps) = n + 1
      BY <1>1
    <2> HIDE DEF n, ps
    <2> QED
      BY <2>1, <2>2, <1>1, <1>2, <1>3, QSizeAssumption DEF Offset, Slots
  <1>7. Len(ps) <= QSize
    BY <1>1, <1>2, QSizeAssumption
  <1>8. Holds(r, s, NextIdx(w), ps)
    <2> HIDE DEF r, ps
    <2> QED
      BY <1>5, <1>6, <1>7 DEF Holds
  <1> QED
    BY <1>8

\* elua_int_hook takes the head of the sequence the ring holds.
LEMMA TakeIsTail ==
    ASSUME NEW q \in [Slots -> Items \cup {Empty}], NEW s \in Slots,
           NEW w \in Slots, NEW p \in Seq(Items),
           Holds(q, s, w, p), p # <<>>
    PROVE  /\ q[s] = Head(p)
           /\ Holds([q EXCEPT ![s] = Empty], NextIdx(s), w, Tail(p))
  <1> DEFINE r == [q EXCEPT ![s] = Empty]
             z == NextIdx(s)
             n == Len(p)
             ps == Tail(p)
  <1>1. n \in Nat \ {0} /\ Len(ps) = n - 1 /\ Head(p) = p[1]
        /\ \A k \in 1 .. n - 1 : ps[k] = p[k + 1]
    OBVIOUS
  <1>2. n <= QSize /\ Offset(s, s) = 0
    BY QSizeAssumption DEF Holds, Offset, Slots
  <1>3. q[s] = Head(p)
    BY <1>1, <1>2 DEF Holds
  <1>4. z \in Slots /\ z = IF s = QSize - 1 THEN 0 ELSE s + 1
    BY NextIdxWraps
  <1>5. \A i \in Slots : /\ Offset(s, i) \in 0 .. QSize - 1
                         /\ Offset(z, i) = IF i = s THEN QSize - 1
                                                    ELSE Offset(s, i) - 1
                         /\ i # s => Offset(s, i) # 0
    BY <1>4, QSizeAssumption DEF Offset, Slots
  <1>6. ASSUME NEW i \in Slots
        PROVE  r[i] = IF Offset(z, i) < Len(ps) THEN ps[Offset(z, i) + 1]
                                                ELSE Empty
    <2>1. CASE i = s
      BY <2>1, <1>1, <1>2, <1>5, QSizeAssumption
    <2>2. CASE i # s /\ Offset(s, i) < n
      <3>1. r[i] = p[Offset(s, i) + 1]
        BY <2>2 DEF Holds
      <3>2. Offset(z, i) = Offset(s, i) - 1 /\ Offset(s, i) \in 1 .. n - 1
        BY <2>2, <1>1, <1>5
      <3> QED
        BY <3>1, <3>2, <1>1
    <2>3. CASE i # s /\ ~(Offset(s, i) < n)
      <3>1. r[i] = Empty
        BY <2>3 DEF Holds
      <3>2. ~(Offset(z, i) < Len(ps))
        BY <2>3, <1>1, <1>5
      <3> QED
        BY <3>1, <3>2
    <2> QED
      BY <2>1, <2>2, <2>3
  <1>7. IF Len(ps) = QSize THEN w = z ELSE Offset(z, w) = Len(ps)
    <2>1. CASE n = QSize
      BY <2>1, <1>1, <1>5 DEF Holds
    <2>2. CASE n # QSize
      <3>1. Offset(s, w) = n
        BY <2>2 DEF Holds
      <3> QED
        BY <3>1, <2>2, <1>1, <1>2, <1>5
    <2> QED
      BY <2>1, <2>2
  <1>8. Len(ps) <= QSize
    BY <1>1, <1>2, QSizeAssumption
  <1>9. Holds(r, z, w, ps)
    <2> HIDE DEF r, z, ps
    <2> QED
      BY <1>6, <1>7, <1>8 DEF Holds
  <1> QED
    BY <1>3, <1>9

----------------------------------------------------------------------------
(* Type correctness, for every Lua program                                 *)

\* A new element of the ring is an interrupt.
LEMMA ItemType ==
    ASSUME NEW id \in Ids, NEW resnum \in Resnums
    PROVE  [id |-> id, resnum |-> resnum] \in Items
  BY DEF Items

\* The running thread is a thread, and unwinding leaves a chain of threads.
LEMMA ChainType ==
    ASSUME TypeOK, LuaOpen
    PROVE  /\ Running \in Threads
           /\ SubSeq(chain, 1, Len(chain) - 1) \in Seq(Threads)
           /\ Len(chain) \in Nat \ {0}
  BY DEF TypeOK, LuaOpen, Running

\* The step of an ISR keeps the types.
LEMMA IsrType == TypeOK /\ Isr => TypeOK'
  <1> SUFFICES ASSUME TypeOK, NEW id \in Ids, NEW resnum \in Resnums,
                      elua_int_add(id, resnum)
               PROVE  TypeOK'
    BY DEF Isr
  <1> DEFINE x == [id |-> id, resnum |-> resnum]
  <1>1. x \in Items
    BY ItemType
  <1>2. write_idx' \in Slots
    BY NextIdxWraps DEF TypeOK, elua_int_add
  <1>3. queue' \in [Slots -> Items \cup {Empty}] /\ pending' \in Seq(Items)
    <2> HIDE DEF x
    <2> QED
      BY <1>1 DEF TypeOK, elua_int_add, x
  <1>4. hook' \in SUBSET Threads
    BY DEF TypeOK, elua_int_add, Arm, Threads
  <1> QED
    BY <1>2, <1>3, <1>4 DEF TypeOK, elua_int_add

\* So does every statement of elua_int_hook.
LEMMA HookType == ASSUME TypeOK, NEW t \in Threads, HookStep(t)
                  PROVE  TypeOK'
  <1>1. CASE HookFetch(t)
    BY <1>1 DEF TypeOK, HookFetch, Goto, Labels, intVars
  <1>2. CASE HookClear(t)
    <2>1. pending' \in Seq(Items)
      <3>1. CASE pending = <<>>
        BY <3>1, <1>2 DEF TypeOK, HookClear
      <3>2. CASE pending # <<>>
        BY <3>2, <1>2 DEF TypeOK, HookClear
      <3> QED
        BY <3>1, <3>2
    <2> QED
      BY <1>2, <2>1 DEF TypeOK, HookClear, Goto, Labels
  <1>3. CASE HookAdvance(t)
    BY <1>3, NextIdxWraps DEF TypeOK, HookAdvance, Goto, Labels
  <1>4. CASE HookDispatch(t)
    BY <1>4 DEF TypeOK, HookDispatch, Goto, Labels, intVars
  <1>5. CASE HandlerReturn(t)
    BY <1>5 DEF TypeOK, HandlerReturn, Goto, Labels, intVars
  <1>6. CASE HookFinish(t)
    BY <1>6 DEF TypeOK, HookFinish, Goto, Labels, intVars, Disarm
  <1> QED
    BY <1>1, <1>2, <1>3, <1>4, <1>5, <1>6 DEF HookStep

\* Abandoning the hook, by an error or at the end of a coroutine.
LEMMA UnwindType ==
    ASSUME TypeOK, LuaOpen, NEW t \in Threads, Unwind(t)
    PROVE  /\ hook' \in SUBSET Threads
           /\ chain' \in Seq(Threads)
           /\ pc' \in [Threads -> Labels]
           /\ crt' \in [Threads -> Items \cup {Empty}]
  BY ChainType DEF TypeOK, Unwind, Goto, Labels

\* So does everything a Lua program can do.
LEMMA LuaCodeType == ASSUME TypeOK, NEW t \in Threads, LuaCode(t)
                     PROVE  TypeOK'
  <1>1. ASSUME NEW id \in Ids, cpu_set_int_handler(t, id) PROVE TypeOK'
    BY <1>1 DEF TypeOK, cpu_set_int_handler, vmVars
  <1>2. ASSUME NEW id \in Ids, cpu_clear_int_handler(t, id) PROVE TypeOK'
    BY <1>2 DEF TypeOK, cpu_clear_int_handler, vmVars
  <1>3. ASSUME NEW id \in Ids, cpu_set_int_handler_nomem(t, id) PROVE TypeOK'
    BY <1>3, UnwindType DEF TypeOK, cpu_set_int_handler_nomem, InLua
  <1>4. CASE cpu_cli(t)
    BY <1>4 DEF TypeOK, cpu_cli, intVars, vmVars
  <1>5. CASE cpu_sei(t)
    BY <1>5 DEF TypeOK, cpu_sei, intVars, vmVars
  <1>6. CASE HandlerError(t)
    BY <1>6, UnwindType DEF TypeOK, HandlerError, intVars
  <1>7. ASSUME NEW c \in Coroutines, luaE_newthread(t, c) PROVE TypeOK'
    BY <1>7 DEF TypeOK, luaE_newthread, intVars, Threads
  <1>8. ASSUME NEW c \in Coroutines, lua_resume(t, c) PROVE TypeOK'
    BY <1>8 DEF TypeOK, lua_resume, intVars, Threads
  <1>9. CASE lua_yield(t)
    BY <1>9, ChainType DEF TypeOK, lua_yield, intVars, Threads
  <1>10. CASE CoroutineReturn(t)
    BY <1>10, UnwindType DEF TypeOK, CoroutineReturn, intVars
  <1> QED
    BY <1>1, <1>2, <1>3, <1>4, <1>5, <1>6, <1>7, <1>8, <1>9, <1>10
    DEF LuaCode

\* Opening and closing the Lua state keeps the types.
LEMMA StateType == TypeOK /\ (lua_open \/ lua_close) => TypeOK'
  <1>1. ASSUME TypeOK, lua_open PROVE TypeOK'
    BY <1>1 DEF TypeOK, lua_open, intVars, Threads
  <1>2. ASSUME TypeOK, lua_close PROVE TypeOK'
    <2>1. <<>> \in Seq(Threads) /\ <<>> \in Seq(Items) /\ 0 \in Slots
      BY QSizeAssumption DEF Slots
    <2> QED
      BY <1>2, <2>1 DEF TypeOK, lua_close, elua_int_cleanup, EmptyQueue
  <1> QED
    BY <1>1, <1>2

\* The indices stay inside the ring, the ring and the hook's local variable
\* hold interrupts or empty slots, whatever the Lua program does: errors in
\* handlers and coroutines included (src/elua_int.c).
THEOREM TypeCorrect == Spec => []TypeOK
  <1>1. Init => TypeOK
    BY QSizeAssumption DEF Init, TypeOK, EmptyQueue, Slots, Labels
  <1>2. TypeOK /\ [Next]_vars => TypeOK'
    <2> SUFFICES ASSUME TypeOK, [Next]_vars PROVE TypeOK'
      OBVIOUS
    <2>1. CASE Isr
      BY <2>1, IsrType
    <2>2. ASSUME NEW t \in Threads, HookStep(t) \/ LuaCode(t) PROVE TypeOK'
      BY <2>2, HookType, LuaCodeType
    <2>3. CASE lua_open \/ lua_close
      BY <2>3, StateType
    <2>4. CASE UNCHANGED vars
      BY <2>4 DEF TypeOK, vars, intVars, vmVars
    <2> QED
      BY <2>1, <2>2, <2>3, <2>4 DEF Next, MainProgram
  <1> QED
    BY <1>1, <1>2, PTL DEF Spec

----------------------------------------------------------------------------
(* Waiting interrupts are not overwritten, for every Lua program           *)

\* elua_int_add stores only into an empty slot, elua_int_hook and lua_close
\* only empty slots: a waiting interrupt is never replaced by another.
THEOREM NeverOverwritten == Spec => NoOverwrite
  <1> DEFINE Kept == \A i \in Slots :
                        queue[i] # Empty => queue'[i] \in {queue[i], Empty}
  <1>1. TypeOK /\ [Next]_vars => Kept
    <2> SUFFICES ASSUME TypeOK, [Next]_vars PROVE Kept
      OBVIOUS
    <2>1. CASE Isr
      <3>1. PICK id \in Ids, resnum \in Resnums : elua_int_add(id, resnum)
        BY <2>1 DEF Isr
      <3> QED
        BY <3>1 DEF elua_int_add, HasRoom, TypeOK
    <2>2. ASSUME NEW t \in Threads, HookClear(t) PROVE Kept
      BY <2>2 DEF HookClear, TypeOK
    <2>3. CASE lua_close
      BY <2>3 DEF lua_close, elua_int_cleanup, EmptyQueue
    <2>4. CASE UNCHANGED queue
      BY <2>4
    <2>5. ASSUME NEW t \in Threads, HookStep(t) \/ LuaCode(t), ~HookClear(t)
          PROVE  UNCHANGED queue
      BY <2>5 DEF HookStep, HookFetch, HookAdvance, HookDispatch,
                  HandlerReturn, HookFinish, LuaCode, cpu_set_int_handler,
                  cpu_clear_int_handler, cpu_set_int_handler_nomem, cpu_cli,
                  cpu_sei, HandlerError, luaE_newthread, lua_resume,
                  lua_yield, CoroutineReturn, intVars
    <2>6. lua_open => UNCHANGED queue
      BY DEF lua_open, intVars
    <2>7. UNCHANGED vars => UNCHANGED queue
      BY DEF vars, intVars
    <2> QED
      BY <2>1, <2>2, <2>3, <2>4, <2>5, <2>6, <2>7 DEF Next, MainProgram
  <1>2. []TypeOK /\ [][Next]_vars => NoOverwrite
    <2>1. TypeOK /\ [Next]_vars => [Kept]_vars
      BY <1>1
    <2> QED
      BY <2>1, PTL DEF NoOverwrite
  <1> QED
    BY <1>2, TypeCorrect, PTL DEF Spec

----------------------------------------------------------------------------
(* A closed Lua state leaves nothing behind, for every Lua program         *)

\* The bottom of the chain of threads is the main thread, so only lua_close
\* empties it.
CleanInv ==
    /\ TypeOK
    /\ LuaOpen => chain[1] = Main
    /\ CleanWhenClosed

\* Unwinding a coroutine does not empty the chain.
LEMMA PopKeepsMain ==
    ASSUME CleanInv, LuaOpen, Running # Main
    PROVE  LET c == SubSeq(chain, 1, Len(chain) - 1)
           IN  c # <<>> /\ c[1] = Main
  <1>1. chain \in Seq(Threads) /\ Len(chain) \in Nat /\ Len(chain) >= 1
    BY DEF CleanInv, TypeOK, LuaOpen
  <1>2. Len(chain) # 1 /\ chain[1] = Main
    BY <1>1 DEF CleanInv, Running
  <1> DEFINE n == Len(chain) - 1
             c == SubSeq(chain, 1, n)
  <1>3. n \in Nat /\ n >= 1 /\ n <= Len(chain)
    <2>1. \A m \in Nat : m >= 1 /\ m # 1 => m - 1 \in Nat /\ m - 1 >= 1 /\ m - 1 <= m
      OBVIOUS
    <2> HIDE DEF c
    <2> QED
      BY <1>1, <1>2, <2>1
  <1>4. Len(c) = n /\ \A i \in 1 .. n : c[i] = chain[i]
    <2> HIDE DEF n
    <2> QED
      BY <1>1, <1>3
  <1>5. c # <<>> /\ c[1] = Main
    <2> HIDE DEF c, n
    <2> QED
      BY <1>2, <1>3, <1>4
  <1> QED
    BY <1>5

\* After lua_close, and before the first lua_open, no interrupt is queued, no
\* ID is enabled, no hook is set and the two indices agree, even if a failed
\* handler or a coroutine had driven them apart (lua_close in lstate.c,
\* elua_int_cleanup in elua_int.c).
THEOREM ClosedIsClean == Spec => []CleanWhenClosed
  <1>1. Init => CleanInv
    <2>1. Init => TypeOK
      BY QSizeAssumption DEF Init, TypeOK, EmptyQueue, Slots, Labels
    <2> QED
      BY <2>1 DEF Init, CleanInv, CleanWhenClosed, LuaOpen, QueueEmpty,
                  EmptyQueue
  <1>2. CleanInv /\ TypeOK' /\ [Next]_vars => CleanInv'
    <2> SUFFICES ASSUME CleanInv, TypeOK', [Next]_vars PROVE CleanInv'
      OBVIOUS
    <2>0. chain \in Seq(Threads) /\ (LuaOpen => chain[1] = Main)
      BY DEF CleanInv, TypeOK
    <2>1. SUFFICES (LuaOpen => chain[1] = Main)' /\ CleanWhenClosed'
      BY DEF CleanInv
    <2>2. ASSUME LuaOpen, UNCHANGED chain
          PROVE  (LuaOpen => chain[1] = Main)' /\ CleanWhenClosed'
      BY <2>0, <2>2 DEF LuaOpen, CleanWhenClosed
    <2>3. CASE Isr
      BY <2>3, <2>2 DEF Isr, elua_int_add, Wanted
    <2>4. ASSUME NEW t \in Threads, HookStep(t)
          PROVE  (LuaOpen => chain[1] = Main)' /\ CleanWhenClosed'
      <3>1. LuaOpen /\ UNCHANGED chain
        BY <2>4 DEF HookStep, HookFetch, HookClear, HookAdvance, HookDispatch,
                    HandlerReturn, HookFinish
      <3> QED
        BY <3>1, <2>2
    <2>5. ASSUME NEW t \in Threads, LuaCode(t)
          PROVE  (LuaOpen => chain[1] = Main)' /\ CleanWhenClosed'
      <3>1. LuaOpen
        BY <2>5 DEF LuaCode, cpu_set_int_handler, cpu_clear_int_handler,
                    cpu_set_int_handler_nomem, cpu_cli, cpu_sei, HandlerError,
                    luaE_newthread, lua_resume, lua_yield, CoroutineReturn,
                    InLua
      <3>2. \/ UNCHANGED chain
            \/ \E c \in Coroutines : chain' = Append(chain, c)
            \/ /\ Running # Main
               /\ chain' = SubSeq(chain, 1, Len(chain) - 1)
        BY <2>5 DEF LuaCode, cpu_set_int_handler, cpu_clear_int_handler,
                    cpu_set_int_handler_nomem, cpu_cli, cpu_sei, HandlerError,
                    luaE_newthread, lua_resume, lua_yield, CoroutineReturn,
                    InLua, Unwind, vmVars
      <3>3. ASSUME NEW c \in Coroutines, chain' = Append(chain, c)
            PROVE  chain' # <<>> /\ chain'[1] = Main
        BY <3>1, <3>3, <2>0 DEF LuaOpen
      <3>4. CASE chain' # <<>> /\ chain'[1] = Main
        BY <3>4 DEF LuaOpen, CleanWhenClosed
      <3> QED
        BY <3>1, <3>2, <3>3, <3>4, <2>2, PopKeepsMain
    <2>6. CASE lua_open
      BY <2>6 DEF lua_open, LuaOpen, CleanWhenClosed
    <2>7. CASE lua_close
      BY <2>7 DEF lua_close, elua_int_cleanup, LuaOpen, CleanWhenClosed,
                  QueueEmpty, EmptyQueue
    <2>8. CASE UNCHANGED vars
      BY <2>8 DEF vars, intVars, vmVars, CleanInv, LuaOpen, CleanWhenClosed,
                  QueueEmpty
    <2> QED
      BY <2>3, <2>4, <2>5, <2>6, <2>7, <2>8 DEF Next, MainProgram
  <1>3. CleanInv => CleanWhenClosed
    BY DEF CleanInv
  <1> QED
    BY <1>1, <1>2, <1>3, TypeCorrect, PTL DEF Spec

----------------------------------------------------------------------------
(* The ring is a FIFO and the hook follows it, for a well-behaved program  *)

\* The inductive invariant.  Besides the ring it says what the hook knows at
\* each statement: it was entered because something waits, and what it copied
\* is still the oldest interrupt when it empties the slot.
FifoInv ==
    /\ TypeOK
    /\ chain \in {<<>>, <<Main>>}
    /\ RingMatches
    /\ pending # <<>> => Main \in hook
    /\ pc[Main] = "vm" /\ Main \in hook => pending # <<>>
    /\ pc[Main] = "clear" => pending # <<>> /\ crt[Main] = Head(pending)
    /\ pc[Main] \notin {"vm", "clear"} => crt[Main] # Empty
    /\ ~LuaOpen => pc[Main] = "vm" /\ hook = {}

\* The reader's position is a slot.
LEMMA StartType == TypeOK => Start \in Slots
  BY NextIdxWraps DEF TypeOK, Start

\* An empty sequence is held by a ring of empty slots only, and a sequence
\* that is not empty has its head at the reader's slot.
LEMMA HoldsHead ==
    ASSUME TypeOK, RingMatches
    PROVE  /\ pending = <<>> <=> QueueEmpty
           /\ pending = <<>> <=> queue[Start] = Empty
           /\ pending # <<>> => queue[Start] = Head(pending)
  <1>1. Start \in Slots /\ Offset(Start, Start) = 0
    BY StartType DEF Offset, Slots
  <1>2. \A i \in Slots : Offset(Start, i) \in Nat
    BY StartType, QSizeAssumption DEF Offset, Slots
  <1>3. CASE pending = <<>>
    <2>1. Len(pending) = 0
      BY <1>3
    <2>2. \A i \in Slots : queue[i] = Empty
      BY <2>1, <1>2 DEF RingMatches, Holds
    <2> QED
      BY <2>2, <1>1, <1>3 DEF QueueEmpty
  <1>4. CASE pending # <<>>
    <2>1. Len(pending) \in Nat /\ Len(pending) > 0
          /\ Head(pending) = pending[1] /\ pending[1] \in Items
      BY <1>4 DEF TypeOK
    <2>2. queue[Start] = pending[1]
      BY <2>1, <1>1 DEF RingMatches, Holds
    <2> QED
      BY <2>1, <2>2, <1>1, <1>4, EmptyAssumption DEF QueueEmpty
  <1> QED
    BY <1>3, <1>4

\* Nothing about the ring changes unless one of these variables does.
LEMMA RingFrame ==
    ASSUME RingMatches, UNCHANGED <<queue, read_idx, write_idx, pending>>,
           (pc[Main] = "advance") <=> (pc'[Main] = "advance")
    PROVE  RingMatches'
  <1>1. Start' = Start
    BY DEF Start
  <1> QED
    BY <1>1 DEF RingMatches, Holds, Slots, Offset

\* An ISR adds an interrupt, at any statement of the hook.
LEMMA IsrFifo == WellBehaved /\ FifoInv /\ TypeOK' /\ Isr => FifoInv'
  <1> SUFFICES ASSUME WellBehaved, FifoInv, TypeOK',
                      NEW id \in Ids, NEW resnum \in Resnums,
                      elua_int_add(id, resnum)
               PROVE  FifoInv'
    BY DEF Isr
  <1> DEFINE x == [id |-> id, resnum |-> resnum]
  <1>1. x \in Items
    BY ItemType
  <1>2. /\ queue' = [queue EXCEPT ![write_idx] = x]
        /\ write_idx' = NextIdx(write_idx)
        /\ pending' = Append(pending, x)
        /\ hook' = hook \cup {Main}
        /\ queue[write_idx] = Empty
        /\ LuaOpen
        /\ UNCHANGED <<read_idx, chain, pc, crt>>
    BY DEF elua_int_add, HasRoom, Wanted, Arm
  <1> HIDE DEF x
  <1>3. RingMatches'
    <2>1. Start' = Start /\ Start \in Slots
      BY <1>2, StartType DEF Start, FifoInv
    <2>2. Holds(queue', Start, write_idx', pending')
      BY <1>1, <1>2, <2>1, AddAppends DEF FifoInv, TypeOK, RingMatches
    <2> QED
      BY <2>1, <2>2 DEF RingMatches, Holds, Offset, Slots
  <1>4. pending' # <<>> /\ (pending # <<>> => Head(pending') = Head(pending))
    BY <1>1, <1>2 DEF FifoInv, TypeOK
  <1> QED
    BY <1>2, <1>3, <1>4 DEF FifoInv, LuaOpen

\* The statements of elua_int_hook.
LEMMA HookFifo ==
    ASSUME WellBehaved, FifoInv, TypeOK', HookStep(Main)
    PROVE  FifoInv'
  <1>0. LuaOpen /\ UNCHANGED chain
    BY DEF HookStep, HookFetch, HookClear, HookAdvance, HookDispatch,
           HandlerReturn, HookFinish
  <1>1. CASE HookFetch(Main)
    <2>1. /\ pc[Main] = "vm" /\ pc'[Main] = "clear" /\ Main \in hook
          /\ crt'[Main] = queue[read_idx]
          /\ UNCHANGED <<queue, read_idx, write_idx, pending, hook>>
      BY <1>1 DEF HookFetch, Goto, intVars, FifoInv, TypeOK, Threads
    <2>2. RingMatches'
      BY <2>1, RingFrame DEF FifoInv
    <2>3. Start = read_idx
      BY <2>1 DEF Start
    <2>4. pending # <<>> /\ crt'[Main] = Head(pending)
      BY <2>1, <2>3, HoldsHead DEF FifoInv
    <2> QED
      BY <2>1, <2>2, <2>4, <1>0 DEF FifoInv, LuaOpen
  <1>2. CASE HookClear(Main)
    <2>1. /\ pc[Main] = "clear" /\ pc'[Main] = "advance"
          /\ queue' = [queue EXCEPT ![read_idx] = Empty]
          /\ UNCHANGED <<read_idx, write_idx, hook, crt>>
      BY <1>2 DEF HookClear, Goto, FifoInv, TypeOK, Threads
    <2>2. pending # <<>> /\ crt[Main] = Head(pending)
      BY <2>1 DEF FifoInv
    <2>3. Start = read_idx /\ Start' = NextIdx(read_idx)
      BY <2>1 DEF Start
    <2>4. pending' = Tail(pending)
      BY <1>2, <2>2, <2>3, HoldsHead DEF HookClear, FifoInv
    <2>5. Holds(queue', NextIdx(read_idx), write_idx, pending')
      BY <2>1, <2>2, <2>3, <2>4, TakeIsTail DEF FifoInv, TypeOK, RingMatches
    <2>6. RingMatches'
      BY <2>1, <2>3, <2>5 DEF RingMatches, Holds, Offset, Slots
    <2>7. crt'[Main] # Empty
      BY <2>1, <2>2, EmptyAssumption DEF FifoInv, TypeOK
    <2>8. pending' # <<>> => Main \in hook'
      BY <2>1, <2>2 DEF FifoInv
    <2> QED
      BY <2>1, <2>6, <2>7, <2>8, <1>0 DEF FifoInv, LuaOpen
  <1>3. CASE HookAdvance(Main)
    <2>1. /\ pc[Main] = "advance" /\ pc'[Main] = "dispatch"
          /\ read_idx' = NextIdx(read_idx)
          /\ UNCHANGED <<queue, write_idx, pending, hook, crt>>
      BY <1>3 DEF HookAdvance, Goto, FifoInv, TypeOK, Threads
    <2>2. Start' = Start
      BY <2>1 DEF Start
    <2>3. RingMatches'
      BY <2>1, <2>2 DEF FifoInv, RingMatches, Holds, Offset, Slots
    <2> QED
      BY <2>1, <2>3, <1>0 DEF FifoInv, LuaOpen
  <1>4. CASE HookDispatch(Main) \/ HandlerReturn(Main)
    <2>1. /\ pc[Main] \in {"dispatch", "handler"}
          /\ pc'[Main] \in {"handler", "finish"}
          /\ UNCHANGED <<queue, read_idx, write_idx, pending, hook, crt>>
      BY <1>4 DEF HookDispatch, HandlerReturn, Goto, intVars, FifoInv, TypeOK,
                  Threads
    <2>2. RingMatches'
      BY <2>1, RingFrame DEF FifoInv
    <2> QED
      BY <2>1, <2>2, <1>0 DEF FifoInv, LuaOpen
  <1>5. CASE HookFinish(Main)
    <2>1. /\ pc[Main] = "finish" /\ pc'[Main] = "vm"
          /\ UNCHANGED <<queue, read_idx, write_idx, pending>>
          /\ hook' = IF queue[read_idx] = Empty THEN hook \ {Main} ELSE hook
      BY <1>5 DEF HookFinish, Goto, Disarm, intVars, FifoInv, TypeOK, Threads
    <2>2. RingMatches'
      BY <2>1, RingFrame DEF FifoInv
    <2>3. Start = read_idx
      BY <2>1 DEF Start
    <2>4. pending = <<>> <=> queue[read_idx] = Empty
      BY <2>3, HoldsHead DEF FifoInv
    <2> QED
      BY <2>1, <2>2, <2>4, <1>0 DEF FifoInv, LuaOpen
  <1> QED
    BY <1>1, <1>2, <1>3, <1>4, <1>5 DEF HookStep

\* What Lua code does, its handlers included, does not touch the ring.
LEMMA LuaCodeFifo ==
    ASSUME WellBehaved, FifoInv, TypeOK', LuaCode(Main)
    PROVE  FifoInv'
  <1>1. /\ UNCHANGED <<queue, read_idx, write_idx, pending, hook, chain>>
        /\ \/ UNCHANGED <<pc, crt>>
           \/ pc[Main] = "vm" /\ pc'[Main] = "vm"
    BY DEF LuaCode, cpu_set_int_handler, cpu_clear_int_handler,
           cpu_set_int_handler_nomem, cpu_cli, cpu_sei, HandlerError,
           luaE_newthread, lua_resume, lua_yield, CoroutineReturn, InLua,
           Unwind, Goto, WellBehaved, intVars, vmVars, FifoInv, TypeOK, Threads
  <1>2. RingMatches'
    BY <1>1, RingFrame DEF FifoInv
  <1> QED
    BY <1>1, <1>2 DEF FifoInv, LuaOpen

\* Opening and closing the Lua state: the ring is empty in the new program.
LEMMA StateFifo ==
    ASSUME WellBehaved, FifoInv, TypeOK', lua_open \/ lua_close
    PROVE  FifoInv'
  <1>1. CASE lua_open
    <2>1. /\ UNCHANGED <<queue, read_idx, write_idx, pending, hook, pc, crt>>
          /\ ~LuaOpen /\ chain' = <<Main>>
      BY <1>1 DEF lua_open, intVars
    <2>2. RingMatches'
      BY <2>1, RingFrame DEF FifoInv
    <2> QED
      BY <2>1, <2>2 DEF FifoInv, LuaOpen
  <1>2. CASE lua_close
    <2>1. /\ pc[Main] = "vm" /\ UNCHANGED <<pc, crt>>
          /\ read_idx' = 0 /\ write_idx' = 0
          /\ queue' = [i \in Slots |-> Empty]
          /\ pending' = <<>> /\ hook' = {} /\ chain' = <<>>
      BY <1>2 DEF lua_close, elua_int_cleanup, EmptyQueue
    <2>2. Start' = 0 /\ Len(pending') = 0
      BY <2>1 DEF Start
    <2>3. RingMatches'
      BY <2>1, <2>2, QSizeAssumption DEF RingMatches, Holds, Offset, Slots
    <2> QED
      BY <2>1, <2>3 DEF FifoInv
  <1> QED
    BY <1>1, <1>2

\* FifoInv is inductive, given the types of the next state.
LEMMA FifoInductive ==
    WellBehaved => (Init => FifoInv) /\ (FifoInv /\ TypeOK' /\ [Next]_vars => FifoInv')
  <1> SUFFICES ASSUME WellBehaved
               PROVE  /\ Init => FifoInv
                      /\ FifoInv /\ TypeOK' /\ [Next]_vars => FifoInv'
    OBVIOUS
  <1>1. Init => FifoInv
    <2> SUFFICES ASSUME Init PROVE FifoInv
      OBVIOUS
    <2>1. TypeOK
      BY QSizeAssumption DEF Init, TypeOK, EmptyQueue, Slots, Labels
    <2>2. pc[Main] = "vm" /\ hook = {} /\ chain = <<>> /\ Len(pending) = 0
      BY DEF Init, Threads
    <2>3. Start = 0
      BY <2>2 DEF Start, Init
    <2>4. RingMatches
      BY <2>2, <2>3, QSizeAssumption
      DEF RingMatches, Holds, Offset, Slots, Init, EmptyQueue
    <2> QED
      BY <2>1, <2>2, <2>4 DEF FifoInv, Init
  <1>2. FifoInv /\ TypeOK' /\ [Next]_vars => FifoInv'
    <2> SUFFICES ASSUME FifoInv, TypeOK', [Next]_vars PROVE FifoInv'
      OBVIOUS
    <2>1. CASE Isr
      BY <2>1, IsrFifo
    <2>2. ASSUME NEW t \in Threads, HookStep(t) \/ LuaCode(t) PROVE FifoInv'
      BY <2>2, HookFifo, LuaCodeFifo DEF WellBehaved, Threads
    <2>3. CASE lua_open \/ lua_close
      BY <2>3, StateFifo
    <2>4. CASE UNCHANGED vars
      <3>1. UNCHANGED <<queue, read_idx, write_idx, pending, hook, chain, pc, crt>>
        BY <2>4 DEF vars, intVars, vmVars
      <3>2. RingMatches'
        BY <3>1, RingFrame DEF FifoInv
      <3> QED
        BY <3>1, <3>2 DEF FifoInv, LuaOpen
    <2> QED
      BY <2>1, <2>2, <2>3, <2>4 DEF Next, MainProgram
  <1> QED
    BY <1>1, <1>2

\* For every queue size and every set of interrupts: the ring holds exactly
\* the accepted interrupts that were not taken, in order, at every point of
\* every interleaving of elua_int_add with elua_int_hook.
THEOREM RingIsFifo == WellBehaved => (Spec => []RingMatches)
  <1> SUFFICES ASSUME WellBehaved PROVE Spec => []RingMatches
    OBVIOUS
  <1>1. Init => FifoInv
    BY FifoInductive
  <1>2. FifoInv /\ TypeOK' /\ [Next]_vars => FifoInv'
    BY FifoInductive
  <1>3. FifoInv => RingMatches
    BY DEF FifoInv
  <1> QED
    BY <1>1, <1>2, <1>3, TypeCorrect, PTL DEF Spec

\* The hook is set as long as the queue is not empty, and is cleared by the
\* time the program's own code continues after the queue was emptied: the
\* last test of elua_int_hook and the interrupts around it never miss each
\* other (doc/en/inthandlers.txt:10).
THEOREM HookFollowsQueue ==
    WellBehaved => (Spec => [](ArmedWhileQueued /\ NeverRunsOnEmpty))
  <1> SUFFICES ASSUME WellBehaved
               PROVE  Spec => [](ArmedWhileQueued /\ NeverRunsOnEmpty)
    OBVIOUS
  <1>1. Init => FifoInv
    BY FifoInductive
  <1>2. FifoInv /\ TypeOK' /\ [Next]_vars => FifoInv'
    BY FifoInductive
  <1>3. FifoInv => ArmedWhileQueued /\ NeverRunsOnEmpty
    <2> SUFFICES ASSUME FifoInv PROVE ArmedWhileQueued /\ NeverRunsOnEmpty
      OBVIOUS
    <2>1. ArmedWhileQueued
      BY HoldsHead DEF FifoInv, ArmedWhileQueued
    <2>2. LuaOpen => Running = Main
      BY DEF FifoInv, LuaOpen, Running
    <2>3. pc[Main] = "vm" => Start = read_idx
      BY DEF Start
    <2>4. NeverRunsOnEmpty
      BY <2>2, <2>3, HoldsHead DEF FifoInv, NeverRunsOnEmpty
    <2> QED
      BY <2>1, <2>4
  <1> QED
    BY <1>1, <1>2, <1>3, TypeCorrect, PTL DEF Spec

\* Whenever the program's own code runs, the hook of the running thread is set
\* only if an interrupt waits at read_idx: elua_int_hook never takes an element
\* from an empty slot.
THEOREM HookNeverEmpty == WellBehaved => (Spec => []NeverRunsOnEmpty)
  BY HookFollowsQueue, PTL

----------------------------------------------------------------------------
(* The implementation of IntFifo (its safety part)                         *)

\* Every step of the ring and the hook is a step of the FIFO or leaves it
\* alone: interrupts are accepted at the end while there is room, served from
\* the head one at a time, and discarded when the Lua state is closed.
THEOREM ImplementsFifoSafety == WellBehaved => (Spec => Fifo!FifoSafety)
  <1> SUFFICES ASSUME WellBehaved PROVE Spec => Fifo!FifoSafety
    OBVIOUS
  <1> DEFINE cur == IF pc[Main] \in {"vm", "clear"} THEN Empty ELSE crt[Main]
  <1>1. Init => FifoInv
    BY FifoInductive
  <1>2. FifoInv /\ TypeOK' /\ [Next]_vars => FifoInv'
    BY FifoInductive
  <1>3. Init => Fifo!FifoInit
    BY DEF Init, Fifo!FifoInit, LuaOpen, Threads
  <1>4. FifoInv /\ TypeOK' /\ [Next]_vars => [Fifo!FifoNext]_(Fifo!fifoVars)
    <2> SUFFICES ASSUME FifoInv, TypeOK', [Next]_vars
                 PROVE  Fifo!FifoNext \/ UNCHANGED <<pending, cur, LuaOpen>>
      BY DEF Fifo!fifoVars
    <2>1. CASE Isr
      <3>1. PICK id \in Ids, resnum \in Resnums : elua_int_add(id, resnum)
        BY <2>1 DEF Isr
      <3> DEFINE x == [id |-> id, resnum |-> resnum]
      <3>2. x \in Items
        BY ItemType
      <3>3. pending' = Append(pending, x) /\ LuaOpen /\ UNCHANGED <<pc, crt, chain>>
        BY <3>1 DEF elua_int_add, Wanted
      <3>4. Len(pending) < QSize
        <4>1. queue[write_idx] = Empty /\ Len(pending) <= QSize
          BY <3>1 DEF elua_int_add, HasRoom, FifoInv, RingMatches, Holds
        <4>2. Len(pending) = QSize => write_idx = Start /\ pending # <<>>
          BY QSizeAssumption DEF FifoInv, RingMatches, Holds
        <4> QED
          BY <4>1, <4>2, HoldsHead, QSizeAssumption DEF FifoInv, TypeOK
      <3>5. Fifo!Accept(x)
        <4> HIDE DEF x
        <4> QED
          BY <3>3, <3>4 DEF Fifo!Accept, LuaOpen
      <3> QED
        BY <3>2, <3>5 DEF Fifo!FifoNext
    <2>2. ASSUME HookStep(Main)
          PROVE  Fifo!FifoNext \/ UNCHANGED <<pending, cur, LuaOpen>>
      <3>0. LuaOpen /\ UNCHANGED LuaOpen
        BY <2>2 DEF HookStep, HookFetch, HookClear, HookAdvance, HookDispatch,
                    HandlerReturn, HookFinish, LuaOpen
      <3>1. CASE HookClear(Main)
        <4>1. /\ pc[Main] = "clear" /\ pc'[Main] = "advance"
              /\ pending # <<>> /\ crt[Main] = Head(pending) /\ crt' = crt
          BY <3>1 DEF HookClear, Goto, FifoInv, TypeOK, Threads
        <4>2. Start = read_idx
          BY <4>1 DEF Start
        <4>3. pending' = Tail(pending)
          BY <3>1, <4>1, <4>2, HoldsHead DEF HookClear, FifoInv
        <4>4. Fifo!Take
          BY <3>0, <4>1, <4>3 DEF Fifo!Take
        <4> QED
          BY <4>4 DEF Fifo!FifoNext
      <3>2. CASE HookFinish(Main)
        <4>1. pc[Main] = "finish" /\ pc'[Main] = "vm" /\ pending' = pending
          BY <3>2 DEF HookFinish, Goto, FifoInv, TypeOK, Threads
        <4>2. crt[Main] # Empty
          BY <4>1 DEF FifoInv
        <4>3. Fifo!Done
          BY <3>0, <4>1, <4>2 DEF Fifo!Done
        <4> QED
          BY <4>3 DEF Fifo!FifoNext
      <3>3. CASE HookFetch(Main)
        BY <3>0, <3>3 DEF HookFetch, Goto, FifoInv, TypeOK, Threads
      <3>4. CASE HookAdvance(Main) \/ HookDispatch(Main) \/ HandlerReturn(Main)
        BY <3>0, <3>4 DEF HookAdvance, HookDispatch, HandlerReturn, Goto,
                          FifoInv, TypeOK, Threads
      <3> QED
        BY <2>2, <3>1, <3>2, <3>3, <3>4 DEF HookStep
    <2>3. ASSUME LuaCode(Main) PROVE UNCHANGED <<pending, cur, LuaOpen>>
      <3>1. /\ UNCHANGED <<pending, chain>>
            /\ \/ UNCHANGED <<pc, crt>>
               \/ pc[Main] = "vm" /\ pc'[Main] = "vm"
        BY <2>3
        DEF LuaCode, cpu_set_int_handler, cpu_clear_int_handler,
            cpu_set_int_handler_nomem, cpu_cli, cpu_sei, HandlerError,
            luaE_newthread, lua_resume, lua_yield, CoroutineReturn, InLua,
            Unwind, Goto, WellBehaved, intVars, vmVars, FifoInv, TypeOK, Threads
      <3> QED
        BY <3>1 DEF LuaOpen
    <2>4. CASE lua_open
      <3>1. Fifo!Open
        BY <2>4 DEF lua_open, Fifo!Open, LuaOpen
      <3> QED
        BY <3>1 DEF Fifo!FifoNext
    <2>5. CASE lua_close
      <3>1. Fifo!Close
        BY <2>5 DEF lua_close, Fifo!Close, LuaOpen
      <3> QED
        BY <3>1 DEF Fifo!FifoNext
    <2>6. CASE UNCHANGED vars
      BY <2>6 DEF vars, vmVars, LuaOpen
    <2> QED
      BY <2>1, <2>2, <2>3, <2>4, <2>5, <2>6
      DEF Next, MainProgram, WellBehaved, Threads
  <1> QED
    BY <1>1, <1>2, <1>3, <1>4, TypeCorrect, PTL DEF Spec, Fifo!FifoSafety
=============================================================================
