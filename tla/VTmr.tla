------------------------------- MODULE VTmr --------------------------------
(***************************************************************************)
(* The virtual timers of src/common_tmr.c.  The platform's tick interrupt  *)
(* (cmn_virtual_timer_cb) advances all counters, raises match interrupts   *)
(* and serves reset requests; the main program configures, resets and      *)
(* waits for timers.  The tick strikes between any two statements of the   *)
(* main program, in particular between the read and the write of           *)
(* `byte |= mask' on the bytes it shares with the main program, unless the *)
(* program has disabled all interrupts with cpu.cli().                     *)
(***************************************************************************)
EXTENDS Naturals, Sequences

CONSTANTS
    Timers,        \* the virtual timers, at most 8: one byte of each bit array
    NoTimer,       \* -1
    Modulus,       \* the counters count modulo 2^32
    Periods,       \* match periods and delays in ticks
    Types,         \* PLATFORM_TIMER_INT_ONESHOT, PLATFORM_TIMER_INT_CYCLIC
    Ops,           \* the operations the program uses
    LiveReconfig   \* may a timer be set up again while its interrupt is enabled?

AllOps == {"match", "off", "start", "delay", "get_flag", "sei", "cli"}
GlobalOps == {"cpu.cli", "cpu.sei"}

ASSUME ModulusAssumption == Modulus \in Nat \ {0, 1}
ASSUME PeriodsAssumption == Periods \subseteq 1 .. Modulus - 1
ASSUME TypesAssumption == Types \subseteq {"oneshot", "cyclic"}
ASSUME OpsAssumption == Ops \subseteq AllOps \cup GlobalOps /\ LiveReconfig \in BOOLEAN
ASSUME NoTimerAssumption == NoTimer \notin Timers

VARIABLES
    counter,    \* vtmr_counters
    limit,      \* vtmr_period_limit
    periodic,   \* vtmr_int_periodic_flag, as a set of timers
    enabled,    \* vtmr_int_enabled
    flag,       \* vtmr_int_flag
    reset,      \* vtmr_reset_idx
    interrupts, \* are interrupts enabled globally?
    op,         \* the call in progress: operation, timer, period, type
    todo,       \* its remaining statements
    tmp,        \* the byte that was read by a read-modify-write
    age,        \* history: ticks since a timer was set up, reset or wrapped
    spent,      \* history: the one-shot timers that fired since they were set up
    struck      \* history: those that may fire again, see Struck

tmrVars == <<counter, limit, periodic, enabled, flag, reset>>
mainVars == <<op, todo, tmp>>
histVars == <<age, spent, struck>>
vars == <<tmrVars, interrupts, mainVars, histVars>>

Calls ==
    [kind : {"match"}, timer : Timers, period : Periods, type : Types]
        \cup [kind : {"delay"}, timer : Timers, period : Periods]
        \cup [kind : AllOps \ {"match", "delay"}, timer : Timers]
NoCall == [kind |-> "none"]
Statements == {"limit", "periodic", "load_flag", "store_flag", "reset", "wait",
               "load_enabled", "store_enabled", "spin"}

TypeOK ==
    /\ counter \in [Timers -> 0 .. Modulus - 1]
    /\ limit \in [Timers -> Periods \cup {0}]
    /\ periodic \in SUBSET Timers /\ enabled \in SUBSET Timers
    /\ flag \in SUBSET Timers /\ tmp \in SUBSET Timers
    /\ reset \in Timers \cup {NoTimer}
    /\ interrupts \in BOOLEAN
    /\ op \in Calls \cup {NoCall}
    /\ todo \in Seq(Statements)
    /\ age \in [Timers -> 0 .. Modulus]
    /\ spent \in SUBSET Timers /\ struck \in SUBSET Timers

Init ==
    /\ counter = [t \in Timers |-> 0]
    /\ limit = [t \in Timers |-> 0]
    /\ periodic = {} /\ enabled = {} /\ flag = {} /\ tmp = {}
    /\ reset = NoTimer /\ interrupts = TRUE
    /\ op = NoCall /\ todo = <<>>
    /\ age = [t \in Timers |-> 0]
    /\ spent = {} /\ struck = {}

----------------------------------------------------------------------------
(* The tick: cmn_virtual_timer_cb                                          *)

\* Wrong variant: the counters are wider than timer_data_type.
AdvancedWide(t) == counter[t] + 1

Advanced(t) == (counter[t] + 1) % Modulus

\* The timers whose counter reaches the limit in this tick, those of them that
\* queue an interrupt, and those that start again.
Hits == {t \in Timers : Advanced(t) >= limit[t]}
Fires == Hits \cap enabled

\* Wrong variant: a cyclic timer goes on counting.
CountOn(t) == Advanced(t)

Count(t) == IF t = reset \/ t \in Hits \cap periodic THEN 0 ELSE Advanced(t)

\* Wrong variant: a one-shot timer stays enabled.
EnabledForever == enabled

StillEnabled == enabled \ (Hits \ periodic)

\* Wrong variant: the request is not acknowledged.
AckForgotten == reset

AckReset == NoTimer

Older(t) ==
    IF t = reset \/ t \in Hits \cap periodic THEN 0
    ELSE IF age[t] = Modulus THEN Modulus ELSE age[t] + 1

\* The one-shot timers whose enable bit this tick clears.
Cleared == Fires \ periodic

\* The tick has struck between the read and the write of the enable bits by a
\* call for another timer: that call puts the cleared bits back.
Struck ==
    IF todo # <<>> /\ Head(todo) = "store_enabled"
    THEN (struck \ Cleared) \cup (Cleared \ {op.timer})
    ELSE struck \ Cleared

cmn_virtual_timer_cb ==
    /\ interrupts
    /\ counter' = [t \in Timers |-> Count(t)]
    /\ flag' = flag \cup Hits
    /\ enabled' = StillEnabled
    /\ reset' = AckReset
    /\ age' = [t \in Timers |-> Older(t)]
    /\ spent' = spent \cup Cleared
    /\ struck' = Struck
    /\ UNCHANGED <<limit, periodic, interrupts, mainVars>>

----------------------------------------------------------------------------
(* The main program                                                        *)

\* The statements of each operation, at the grain the tick can observe.
\*   match:    vtmr_set_match_int with a period
\*   off:      vtmr_set_match_int with period 0
\*   start:    platform_timer_op( START ), that is vtmr_reset_timer
\*   delay:    vtmr_delay
\*   get_flag: vtmr_int_get_flag with clear
\*   sei, cli: vtmr_int_set_status
Program(kind) ==
    CASE kind = "match" -> <<"limit", "periodic", "load_flag", "store_flag",
                             "reset", "wait", "load_enabled", "store_enabled">>
      [] kind = "off" -> <<"load_enabled", "store_enabled",
                           "load_flag", "store_flag">>
      [] kind = "start" -> <<"reset", "wait">>
      [] kind = "delay" -> <<"reset", "wait", "spin">>
      [] kind = "get_flag" -> <<"load_flag", "store_flag">>
      [] kind \in {"sei", "cli"} -> <<"load_enabled", "store_enabled">>

\* The Lua program calls an operation.
Call(c) ==
    /\ todo = <<>>
    /\ c.kind \in Ops
    /\ c.kind = "match" /\ ~LiveReconfig => c.timer \notin enabled
    /\ op' = c
    /\ todo' = Program(c.kind)
    /\ age' = IF c.kind = "match" THEN [age EXCEPT ![c.timer] = 0] ELSE age
    /\ UNCHANGED <<tmrVars, interrupts, tmp, spent, struck>>

\* cpu.cli() and cpu.sei() without arguments.
platform_cpu_set_global_interrupts ==
    /\ todo = <<>>
    /\ \/ "cpu.cli" \in Ops /\ interrupts' = FALSE
       \/ "cpu.sei" \in Ops /\ interrupts' = TRUE
    /\ UNCHANGED <<tmrVars, mainVars, histVars>>

\* Statement s of the call in progress is the next one, and completes.
Do(s) ==
    /\ todo # <<>> /\ Head(todo) = s
    /\ todo' = Tail(todo)
    /\ op' = IF Tail(todo) = <<>> THEN NoCall ELSE op
    /\ UNCHANGED interrupts

SetLimit ==
    /\ Do("limit")
    /\ limit' = [limit EXCEPT ![op.timer] = op.period]
    /\ UNCHANGED <<counter, periodic, enabled, flag, reset, tmp, histVars>>

\* The tick only reads this byte, so read and write are one step.
SetPeriodic ==
    /\ Do("periodic")
    /\ periodic' = IF op.type = "cyclic" THEN periodic \cup {op.timer}
                                         ELSE periodic \ {op.timer}
    /\ UNCHANGED <<counter, limit, enabled, flag, reset, tmp, histVars>>

LoadFlag ==
    /\ Do("load_flag")
    /\ tmp' = flag
    /\ UNCHANGED <<tmrVars, histVars>>

StoreFlag ==
    /\ Do("store_flag")
    /\ flag' = tmp \ {op.timer}
    /\ tmp' = {}
    /\ UNCHANGED <<counter, limit, periodic, enabled, reset, histVars>>

LoadEnabled ==
    /\ Do("load_enabled")
    /\ tmp' = enabled
    /\ UNCHANGED <<tmrVars, histVars>>

StoreEnabled ==
    /\ Do("store_enabled")
    /\ enabled' = IF op.kind \in {"match", "sei"} THEN tmp \cup {op.timer}
                                                  ELSE tmp \ {op.timer}
    /\ tmp' = {}
    /\ spent' = IF op.kind = "match" THEN spent \ {op.timer} ELSE spent
    /\ struck' = IF op.kind = "sei" THEN struck \cup {op.timer}
                                    ELSE struck \ {op.timer}
    /\ UNCHANGED <<counter, limit, periodic, flag, reset, age>>

\* vtmr_reset_timer: request, then wait for the tick.
RequestReset ==
    /\ Do("reset")
    /\ reset' = op.timer
    /\ UNCHANGED <<counter, limit, periodic, enabled, flag, tmp, histVars>>

\* Wrong variant: the program does not wait for the tick.
NoWaitReset ==
    /\ Do("wait")
    /\ UNCHANGED <<tmrVars, tmp, histVars>>

WaitReset ==
    /\ reset = NoTimer
    /\ Do("wait")
    /\ UNCHANGED <<tmrVars, tmp, histVars>>

\* vtmr_delay: while( vtmr_counters[ id ] < final );
Spin ==
    /\ Do("spin")
    /\ counter[op.timer] >= op.period
    /\ UNCHANGED <<tmrVars, tmp, histVars>>

Statement ==
    \/ SetLimit
    \/ SetPeriodic
    \/ LoadFlag
    \/ StoreFlag
    \/ LoadEnabled
    \/ StoreEnabled
    \/ RequestReset
    \/ WaitReset
    \/ Spin

Next ==
    \/ cmn_virtual_timer_cb
    \/ \E c \in Calls : Call(c)
    \/ platform_cpu_set_global_interrupts
    \/ Statement

Spec == Init /\ [][Next]_vars

\* The tick interrupt keeps coming, and the main program executes many
\* statements per tick: a statement that is possible again and again (the
\* loop of vtmr_delay seeing a large enough counter) is executed.
FairSpec == Spec /\ WF_vars(cmn_virtual_timer_cb) /\ SF_vars(Statement)

----------------------------------------------------------------------------
(* Properties                                                              *)

\* If a timer is only set up while its interrupt is disabled, a match interrupt
\* never comes before its period has passed since it was set up or reset, and
\* a cyclic one comes exactly then, whatever the main program does meanwhile
\* with this and the other timers.
MatchOnTime ==
    [][cmn_virtual_timer_cb =>
         \A t \in Fires : /\ age[t] + 1 >= limit[t]
                          /\ t \in periodic => age[t] + 1 = limit[t]]_vars

\* A cyclic timer that is set up never shows a counter at or above its limit.
CyclicBelowLimit ==
    \A t \in periodic :
        counter[t] < limit[t] \/ (op.kind = "match" /\ op.timer = t)

\* Every operation of the main program ends, unless it is a delay on a timer
\* with a cyclic match interrupt, or waits for a reset that was requested with
\* interrupts disabled: the tick serves the reset requests and the delays are
\* met even if the tick strikes at the worst moments and the counters wrap
\* around, and operations that do not wait are not held up by anything.
OpsFinish ==
    todo # <<>> ~>
        \/ todo = <<>>
        \/ op.kind = "delay" /\ op.timer \in periodic
        \/ ~interrupts /\ reset = op.timer

\* A one-shot timer that is set up queues one interrupt, and another one only
\* after cpu.sei enabled it again, or after the tick cleared its enable bit
\* between the read and the write of the same byte by a call for another timer:
\* then one more, and no third.  "tmr.INT_ONESHOT to generate a single interrupt
\* after period microseconds" (doc/eluadoc/refman_gen_tmr.lua:87) is what the
\* code does but for that race (common_tmr.c:123, 133, 146).
SecondShot == [][cmn_virtual_timer_cb => Cleared \cap spent \subseteq struck]_vars
=============================================================================
