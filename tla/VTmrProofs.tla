---------------------------- MODULE VTmrProofs ----------------------------
(***************************************************************************)
(* Theorems about VTmr, for every set of timers, every width of the        *)
(* counters and every choice of operations: when the tick may call a       *)
(* match interrupt, wherever it strikes.                                   *)
(***************************************************************************)
EXTENDS VTmr, Integers, TLAPS

----------------------------------------------------------------------------
(* The statements of a call                                                *)

\* A counter goes up by one or starts again.
LEMMA CountsUp ==
    ASSUME NEW n \in Nat, NEW m \in Nat \ {0}, n < m
    PROVE  (n + 1) % m = IF n + 1 = m THEN 0 ELSE n + 1
  BY SMT

\* Periods are whole numbers of ticks, at least one, less than a full round.
LEMMA PeriodRange ==
    ASSUME NEW p \in Periods
    PROVE  p \in Int /\ 0 < p /\ p < Modulus
  <1>1. p \in 1 .. Modulus - 1
    BY PeriodsAssumption
  <1> QED
    BY <1>1, ModulusAssumption, SMT

\* What can be left to do of a call.
AtMatch ==
    \/ todo = <<"limit", "periodic", "load_flag", "store_flag",
                "reset", "wait", "load_enabled", "store_enabled">>
    \/ todo = <<"periodic", "load_flag", "store_flag",
                "reset", "wait", "load_enabled", "store_enabled">>
    \/ todo = <<"load_flag", "store_flag",
                "reset", "wait", "load_enabled", "store_enabled">>
    \/ todo = <<"store_flag", "reset", "wait", "load_enabled", "store_enabled">>
    \/ todo = <<"reset", "wait", "load_enabled", "store_enabled">>
    \/ todo = <<"wait", "load_enabled", "store_enabled">>
    \/ todo = <<"load_enabled", "store_enabled">>
    \/ todo = <<"store_enabled">>

AtOther ==
    \/ todo = <<"load_enabled", "store_enabled", "load_flag", "store_flag">>
    \/ todo = <<"store_enabled", "load_flag", "store_flag">>
    \/ todo = <<"load_flag", "store_flag">>
    \/ todo = <<"store_flag">>
    \/ todo = <<"reset", "wait">>
    \/ todo = <<"wait">>
    \/ todo = <<"reset", "wait", "spin">>
    \/ todo = <<"wait", "spin">>
    \/ todo = <<"spin">>
    \/ todo = <<"load_enabled", "store_enabled">>
    \/ todo = <<"store_enabled">>

Matching == op.kind = "match"

Position ==
    \/ op = NoCall /\ todo = <<>>
    \/ op \in Calls /\ Matching /\ AtMatch
    \/ op \in Calls /\ ~Matching /\ AtOther

\* While a match is set up, the number of statements left tells which is next.
LEMMA MatchStatement ==
    ASSUME NEW s, Matching, AtMatch, Do(s)
    PROVE  /\ s = "limit" => Len(todo) = 8
           /\ s = "periodic" => Len(todo) = 7
           /\ s = "load_flag" => Len(todo) = 6
           /\ s = "store_flag" => Len(todo) = 5
           /\ s = "reset" => Len(todo) = 4
           /\ s = "wait" => Len(todo) = 3
           /\ s = "load_enabled" => Len(todo) = 2
           /\ s = "store_enabled" => Len(todo) = 1
           /\ s # "spin"
           /\ s \notin {"limit", "reset"} => Len(todo) < 8 /\ Len(todo) # 4
           /\ Len(todo) \in 1 .. 8
           /\ Len(todo') = Len(todo) - 1
           /\ Len(todo) = 1 => op' = NoCall /\ todo' = <<>>
           /\ Len(todo) # 1 => op' = op /\ AtMatch'
  <1>1. CASE todo = <<"limit", "periodic", "load_flag", "store_flag",
                      "reset", "wait", "load_enabled", "store_enabled">>
    BY <1>1, SMT DEF AtMatch, Do
  <1>2. CASE todo = <<"periodic", "load_flag", "store_flag", "reset",
                      "wait", "load_enabled", "store_enabled">>
    BY <1>2, SMT DEF AtMatch, Do
  <1>3. CASE todo = <<"load_flag", "store_flag", "reset", "wait",
                      "load_enabled", "store_enabled">>
    BY <1>3, SMT DEF AtMatch, Do
  <1>4. CASE todo = <<"store_flag", "reset", "wait", "load_enabled",
                      "store_enabled">>
    BY <1>4, SMT DEF AtMatch, Do
  <1>5. CASE todo = <<"reset", "wait", "load_enabled", "store_enabled">>
    BY <1>5, SMT DEF AtMatch, Do
  <1>6. CASE todo = <<"wait", "load_enabled", "store_enabled">>
    BY <1>6, SMT DEF AtMatch, Do
  <1>7. CASE todo = <<"load_enabled", "store_enabled">>
    BY <1>7, SMT DEF AtMatch, Do
  <1>8. CASE todo = <<"store_enabled">>
    BY <1>8, SMT DEF AtMatch, Do
  <1> QED
    BY <1>1, <1>2, <1>3, <1>4, <1>5, <1>6, <1>7, <1>8, Zenon DEF AtMatch

LEMMA OtherStatement ==
    ASSUME NEW s, AtOther, Do(s)
    PROVE  /\ s \notin {"limit", "periodic"}
           /\ (op' = NoCall /\ todo' = <<>>) \/ (op' = op /\ AtOther')
  <1>1. CASE todo = <<"load_enabled", "store_enabled", "load_flag", "store_flag">>
    BY <1>1, SMT DEF AtOther, Do
  <1>2. CASE todo = <<"store_enabled", "load_flag", "store_flag">>
    BY <1>2, SMT DEF AtOther, Do
  <1>3. CASE todo = <<"load_flag", "store_flag">>
    BY <1>3, SMT DEF AtOther, Do
  <1>4. CASE todo = <<"store_flag">>
    BY <1>4, SMT DEF AtOther, Do
  <1>5. CASE todo = <<"reset", "wait">>
    BY <1>5, SMT DEF AtOther, Do
  <1>6. CASE todo = <<"wait">>
    BY <1>6, SMT DEF AtOther, Do
  <1>7. CASE todo = <<"reset", "wait", "spin">>
    BY <1>7, SMT DEF AtOther, Do
  <1>8. CASE todo = <<"wait", "spin">>
    BY <1>8, SMT DEF AtOther, Do
  <1>9. CASE todo = <<"spin">>
    BY <1>9, SMT DEF AtOther, Do
  <1>10. CASE todo = <<"load_enabled", "store_enabled">>
    BY <1>10, SMT DEF AtOther, Do
  <1>11. CASE todo = <<"store_enabled">>
    BY <1>11, SMT DEF AtOther, Do
  <1> QED
    BY <1>1, <1>2, <1>3, <1>4, <1>5, <1>6, <1>7, <1>8, <1>9, <1>10, <1>11, Zenon DEF AtOther

----------------------------------------------------------------------------
(* Types                                                                   *)

LEMMA CallType ==
    ASSUME NEW c \in Calls
    PROVE  /\ c.timer \in Timers
           /\ c.kind \in AllOps
           /\ c.kind = "match" => c.period \in Periods /\ c.type \in Types
           /\ c.kind = "delay" => c.period \in Periods
  BY SMT DEF Calls, AllOps

\* The operation in progress has a timer.
LEMMA InProgress ==
    ASSUME TypeOK, Position, todo # <<>>
    PROVE  op \in Calls /\ op.timer \in Timers
  BY CallType DEF Position

LEMMA ProgramType ==
    ASSUME NEW kind \in AllOps
    PROVE  Program(kind) \in Seq(Statements)
  <1>1. CASE kind = "match"
    BY <1>1, SMT DEF Program, Statements
  <1>2. CASE kind = "off"
    BY <1>2, SMT DEF Program, Statements
  <1>3. CASE kind = "start"
    BY <1>3, SMT DEF Program, Statements
  <1>4. CASE kind = "delay"
    BY <1>4, SMT DEF Program, Statements
  <1>5. CASE kind = "get_flag"
    BY <1>5, SMT DEF Program, Statements
  <1>6. CASE kind = "sei"
    BY <1>6, SMT DEF Program, Statements
  <1>7. CASE kind = "cli"
    BY <1>7, SMT DEF Program, Statements
  <1> QED
    BY <1>1, <1>2, <1>3, <1>4, <1>5, <1>6, <1>7 DEF AllOps

LEMMA DoType ==
    ASSUME TypeOK, NEW s, Do(s)
    PROVE  /\ todo' \in Seq(Statements)
           /\ op' \in Calls \cup {NoCall}
           /\ interrupts' \in BOOLEAN
  <1>1. todo' \in Seq(Statements)
    BY SMT DEF TypeOK, Do
  <1> QED
    BY <1>1 DEF TypeOK, Do

LEMMA TickType == TypeOK /\ cmn_virtual_timer_cb => TypeOK'
  <1> SUFFICES ASSUME TypeOK, cmn_virtual_timer_cb PROVE TypeOK'
    OBVIOUS
  <1>1. \A t \in Timers : Count(t) \in 0 .. Modulus - 1
    <2> SUFFICES ASSUME NEW t \in Timers PROVE Count(t) \in 0 .. Modulus - 1
      OBVIOUS
    <2>1. counter[t] \in 0 .. Modulus - 1 /\ Modulus \in Nat \ {0, 1}
      BY ModulusAssumption DEF TypeOK
    <2>2. Advanced(t) \in 0 .. Modulus - 1
      BY <2>1, CountsUp, SMT DEF Advanced
    <2> QED
      BY <2>1, <2>2, SMT DEF Count
  <1>2. \A t \in Timers : Older(t) \in 0 .. Modulus
    BY ModulusAssumption, SMT DEF TypeOK, Older
  <1>3. flag' \in SUBSET Timers /\ enabled' \in SUBSET Timers
        /\ spent' \in SUBSET Timers
    BY DEF TypeOK, cmn_virtual_timer_cb, Hits, Fires, Cleared, StillEnabled
  <1>6. struck' \in SUBSET Timers
    BY DEF TypeOK, cmn_virtual_timer_cb, Hits, Fires, Cleared, Struck
  <1>4. reset' \in Timers \cup {NoTimer}
    BY DEF TypeOK, cmn_virtual_timer_cb, AckReset
  <1>5. counter' \in [Timers -> 0 .. Modulus - 1] /\ age' \in [Timers -> 0 .. Modulus]
    BY <1>1, <1>2 DEF cmn_virtual_timer_cb
  <1> QED
    BY <1>3, <1>4, <1>5, <1>6 DEF TypeOK, cmn_virtual_timer_cb, mainVars

LEMMA CallsType ==
    ASSUME TypeOK, NEW c \in Calls, Call(c)
    PROVE  TypeOK'
  <1>1. c.timer \in Timers /\ c.kind \in AllOps
    BY CallType
  <1>2. todo' \in Seq(Statements)
    BY <1>1, ProgramType DEF Call
  <1>3. age' \in [Timers -> 0 .. Modulus]
    BY <1>1, ModulusAssumption, SMT DEF TypeOK, Call
  <1>4. spent' \in SUBSET Timers /\ struck' \in SUBSET Timers
    BY DEF TypeOK, Call
  <1>5. op' \in Calls \cup {NoCall}
    BY DEF Call
  <1> QED
    BY <1>2, <1>3, <1>4, <1>5 DEF TypeOK, Call, tmrVars

LEMMA StatementType ==
    ASSUME TypeOK, Position, Statement
    PROVE  TypeOK'
  <1>1. op \in Calls /\ op.timer \in Timers
    BY InProgress DEF Statement, SetLimit, SetPeriodic, LoadFlag, StoreFlag, LoadEnabled,
                      StoreEnabled, RequestReset, WaitReset, Spin, Do
  <1>2. CASE SetLimit
    <2>1. op.kind = "match"
      BY <1>2, OtherStatement DEF SetLimit, Position, Matching, Do
    <2>2. op.period \in Periods
      BY <1>1, <2>1, CallType
    <2>3. limit' \in [Timers -> Periods \cup {0}]
      BY <1>1, <1>2, <2>2 DEF SetLimit, TypeOK
    <2> QED
      BY <1>2, <2>3, DoType DEF SetLimit, TypeOK, histVars
  <1>3. CASE SetPeriodic
    <2>1. periodic' \in SUBSET Timers
      BY <1>1, <1>3 DEF SetPeriodic, TypeOK
    <2> QED
      BY <1>3, <2>1, DoType DEF SetPeriodic, TypeOK, histVars
  <1>4. CASE LoadFlag
    BY <1>4, DoType DEF LoadFlag, TypeOK, tmrVars, histVars
  <1>5. CASE StoreFlag
    <2>1. flag' \in SUBSET Timers /\ tmp' \in SUBSET Timers
      BY <1>5 DEF StoreFlag, TypeOK
    <2> QED
      BY <1>5, <2>1, DoType DEF StoreFlag, TypeOK, histVars
  <1>6. CASE LoadEnabled
    BY <1>6, DoType DEF LoadEnabled, TypeOK, tmrVars, histVars
  <1>7. CASE StoreEnabled
    <2>1. /\ enabled' \in SUBSET Timers /\ tmp' \in SUBSET Timers
          /\ spent' \in SUBSET Timers /\ struck' \in SUBSET Timers
      BY <1>1, <1>7 DEF StoreEnabled, TypeOK
    <2> QED
      BY <1>7, <2>1, DoType DEF StoreEnabled, TypeOK, histVars
  <1>8. CASE RequestReset
    BY <1>1, <1>8, DoType DEF RequestReset, TypeOK, histVars
  <1>9. CASE WaitReset
    BY <1>9, DoType DEF WaitReset, TypeOK, tmrVars, histVars
  <1>10. CASE Spin
    BY <1>10, DoType DEF Spin, TypeOK, tmrVars, histVars
  <1> QED
    BY <1>2, <1>3, <1>4, <1>5, <1>6, <1>7, <1>8, <1>9, <1>10 DEF Statement

----------------------------------------------------------------------------
(* The position in a call                                                  *)

LEMMA DoPosition ==
    ASSUME Position, NEW s, Do(s)
    PROVE  Position'
  <1>1. todo # <<>>
    BY DEF Do
  <1>2. CASE Matching
    <2>1. AtMatch /\ op \in Calls
      BY <1>1, <1>2 DEF Position
    <2>2. CASE Len(todo) = 1
      BY <1>2, <2>1, <2>2, MatchStatement DEF Position
    <2>3. CASE Len(todo) # 1
      <3>1. op' = op /\ AtMatch'
        BY <1>2, <2>1, <2>3, MatchStatement
      <3> QED
        BY <3>1, <2>1, <1>2 DEF Position, Matching
    <2> QED
      BY <2>2, <2>3
  <1>3. CASE ~Matching
    <2>1. AtOther /\ op \in Calls
      BY <1>1, <1>3 DEF Position
    <2>2. (op' = NoCall /\ todo' = <<>>) \/ (op' = op /\ AtOther')
      BY <2>1, OtherStatement
    <2> QED
      BY <2>1, <2>2, <1>3 DEF Position, Matching
  <1> QED
    BY <1>2, <1>3

LEMMA CallPosition ==
    ASSUME NEW c \in Calls, Call(c)
    PROVE  Position'
  <1>1. c.kind \in AllOps /\ op' = c /\ todo' = Program(c.kind)
    BY CallType DEF Call
  <1>2. CASE c.kind = "match"
    <2>1. AtMatch'
      BY <1>1, <1>2 DEF Program, AtMatch
    <2> QED
      BY <1>1, <1>2, <2>1 DEF Position, Matching
  <1>3. CASE c.kind # "match"
    <2>1. AtOther'
      BY <1>1, <1>3, SMT DEF Program, AtOther, AllOps
    <2> QED
      BY <1>1, <1>3, <2>1 DEF Position, Matching
  <1> QED
    BY <1>2, <1>3

----------------------------------------------------------------------------
(* Counters and ages                                                       *)

\* vtmr_set_match_int has changed the timer, and the tick has not yet served
\* its reset.
SettingUp(t) ==
    /\ Matching /\ op.timer = t
    /\ Len(todo) > 3 \/ (Len(todo) = 3 /\ reset # NoTimer)

\* The counter is not ahead of the ticks since the timer was set up or reset;
\* that of a cyclic timer is their number, and below its limit.
Counted(t) ==
    /\ counter[t] <= age[t]
    /\ t \in periodic => counter[t] = age[t] /\ counter[t] < limit[t]

Setup ==
    /\ Matching /\ Len(todo) < 8 => limit[op.timer] = op.period
    /\ Matching /\ Len(todo) = 3 => reset \in {NoTimer, op.timer}
    /\ \A t \in Timers : SettingUp(t) \/ Counted(t)

TmrInv == TypeOK /\ Position /\ Setup

\* Where the program is in a call that sets up a match.
LEMMA MatchPosition ==
    ASSUME TmrInv, Matching
    PROVE  /\ AtMatch /\ op \in Calls /\ op.timer \in Timers
           /\ op.period \in Periods /\ Len(todo) \in 1 .. 8
  <1>1. op # NoCall
    BY DEF Matching, NoCall
  <1>2. AtMatch /\ op \in Calls
    BY <1>1 DEF TmrInv, Position
  <1>3. Len(todo) \in 1 .. 8
    BY <1>2, SMT DEF AtMatch
  <1> QED
    BY <1>2, <1>3, CallType DEF Matching

LEMMA TickSetup == TmrInv /\ cmn_virtual_timer_cb => Setup'
  <1> SUFFICES ASSUME TmrInv, cmn_virtual_timer_cb PROVE Setup'
    OBVIOUS
  <1> USE DEF TmrInv
  <1>1. /\ op' = op /\ todo' = todo /\ limit' = limit /\ periodic' = periodic
        /\ reset' = NoTimer
    BY DEF cmn_virtual_timer_cb, mainVars, AckReset
  <1>2. Matching' = Matching
    BY <1>1 DEF Matching
  <1>3. ASSUME NEW t \in Timers
        PROVE  SettingUp(t)' \/ Counted(t)'
    <2>1. counter'[t] = Count(t) /\ age'[t] = Older(t) /\ limit'[t] = limit[t]
      BY DEF cmn_virtual_timer_cb
    <2>2. /\ counter[t] \in 0 .. Modulus - 1 /\ age[t] \in 0 .. Modulus
          /\ limit[t] \in Int /\ limit[t] < Modulus /\ Modulus \in Nat \ {0, 1}
      <3>1. limit[t] \in Periods \cup {0}
        BY DEF TypeOK
      <3> QED
        BY <3>1, ModulusAssumption, PeriodRange, SMT DEF TypeOK
    <2>3. Advanced(t) = IF counter[t] + 1 = Modulus THEN 0 ELSE counter[t] + 1
      BY <2>2, CountsUp, SMT DEF Advanced
    <2>4. CASE SettingUp(t) /\ Len(todo) > 3
      BY <2>4, <1>1, <1>2 DEF SettingUp
    <2>5. CASE SettingUp(t) /\ Len(todo) = 3
      <3>1. t = reset /\ limit[t] = op.period /\ op.period \in Periods
        BY <2>5, MatchPosition, SMT DEF SettingUp, Setup
      <3>2. counter'[t] = 0 /\ age'[t] = 0
        BY <2>1, <3>1 DEF Count, Older
      <3>3. 0 < limit[t]
        BY <3>1, PeriodRange
      <3>4. Counted(t)'
        BY <2>1, <3>2, <3>3, SMT DEF Counted
      <3> QED
        BY <3>4
    <2>6. CASE Counted(t)
      <3>1. CASE t = reset \/ t \in Hits \cap periodic
        <4>1. counter'[t] = 0 /\ age'[t] = 0
          BY <2>1, <3>1 DEF Count, Older
        <4> QED
          BY <4>1, <2>1, <2>2, <2>6, <1>1, SMT DEF Counted
      <3>2. CASE ~(t = reset \/ t \in Hits \cap periodic)
        <4>1. /\ counter'[t] = Advanced(t)
              /\ age'[t] = IF age[t] = Modulus THEN Modulus ELSE age[t] + 1
          BY <2>1, <3>2 DEF Count, Older
        <4>2. t \in periodic => Advanced(t) < limit[t]
          BY <3>2, <2>2, <2>3, SMT DEF Hits
        <4>3. counter[t] <= age[t]
              /\ (t \in periodic => counter[t] = age[t] /\ counter[t] < limit[t])
          BY <2>6 DEF Counted
        <4>4. counter'[t] <= age'[t]
          BY <4>1, <4>3, <2>2, <2>3, SMT
        <4>5. t \in periodic => counter'[t] = age'[t] /\ counter'[t] < limit[t]
          BY <4>1, <4>2, <4>3, <2>2, <2>3, SMT
        <4> QED
          BY <4>4, <4>5, <2>1, <1>1, Zenon DEF Counted
      <3> QED
        BY <3>1, <3>2
    <2> QED
      BY <2>4, <2>5, <2>6, SMT DEF Setup, SettingUp
  <1> QED
    BY <1>1, <1>2, <1>3 DEF Setup

LEMMA CallSetup ==
    ASSUME TmrInv, NEW c \in Calls, Call(c)
    PROVE  Setup'
  <1> USE DEF TmrInv
  <1>1. /\ op' = c /\ todo' = Program(c.kind) /\ ~Matching
        /\ UNCHANGED tmrVars
    <2>1. todo = <<>>
      BY DEF Call
    <2>2. ~AtMatch
      BY <2>1, SMT DEF AtMatch
    <2> QED
      BY <2>1, <2>2, MatchPosition DEF Call
  <1>2. Matching' => Len(todo') > 3 /\ Len(todo') # 3 /\ ~(Len(todo') < 8)
    BY <1>1, SMT DEF Matching, Program
  <1>3. ASSUME NEW t \in Timers
        PROVE  SettingUp(t)' \/ Counted(t)'
    <2>1. Counted(t)
      BY <1>1 DEF Setup, SettingUp
    <2>2. CASE Matching' /\ c.timer = t
      BY <1>1, <1>2, <2>2 DEF SettingUp
    <2>3. CASE ~(Matching' /\ c.timer = t)
      <3>1. age'[t] = age[t]
        BY <1>1, <2>3 DEF Call, Matching, TypeOK
      <3> QED
        BY <1>1, <2>1, <3>1 DEF Counted, tmrVars
    <2> QED
      BY <2>2, <2>3
  <1> QED
    BY <1>2, <1>3, Zenon DEF Setup

\* A statement that leaves counters, periods and the kinds of timers alone
\* can only take the setting-up further.
LEMMA StatementSetup ==
    ASSUME TmrInv, Statement
    PROVE  Setup'
  <1> USE DEF TmrInv
  <1> USE DEF tmrVars, histVars
  <1>1. PICK s \in Statements : Do(s)
    BY DEF Statement, SetLimit, SetPeriodic, LoadFlag, StoreFlag, LoadEnabled,
           StoreEnabled, RequestReset, WaitReset, Spin, Statements
  <1>2. counter' = counter /\ age' = age
    BY DEF Statement, SetLimit, SetPeriodic, LoadFlag, StoreFlag, LoadEnabled,
           StoreEnabled, RequestReset, WaitReset, Spin
  <1>3. CASE ~Matching
    <2>1. op \in Calls /\ op.timer \in Timers
      BY <1>1, InProgress DEF Do
    <2>2. AtOther
      BY <1>1, <1>3 DEF Position, Do
    <2>3. ~SetLimit /\ ~SetPeriodic
      BY <2>2, OtherStatement DEF SetLimit, SetPeriodic
    <2>4. limit' = limit /\ periodic' = periodic
      BY <2>3 DEF Statement, LoadFlag, StoreFlag, LoadEnabled,
           StoreEnabled, RequestReset, WaitReset, Spin
    <2>5. ~Matching'
      BY <1>1, <1>3, <2>2, OtherStatement DEF Matching, NoCall
    <2>6. \A t \in Timers : Counted(t)
      BY <1>3 DEF Setup, SettingUp
    <2> QED
      BY <1>2, <2>4, <2>5, <2>6 DEF Setup, Counted
  <1>4. CASE Matching
    <2>1. /\ AtMatch /\ op \in Calls /\ op.timer \in Timers
          /\ op.period \in Periods /\ Len(todo) \in 1 .. 8
      BY <1>4, MatchPosition
    <2>2. CASE Len(todo) = 1
      <3>1. ~Matching'
        BY <1>1, <1>4, <2>1, <2>2, MatchStatement DEF Matching, NoCall
      <3>2. limit' = limit /\ periodic' = periodic
        <4>1. ~SetLimit /\ ~SetPeriodic
          BY <1>4, <2>1, <2>2, MatchStatement, SMT DEF SetLimit, SetPeriodic
        <4> QED
          BY <4>1 DEF Statement, LoadFlag, StoreFlag, LoadEnabled,
             StoreEnabled, RequestReset, WaitReset, Spin
      <3>3. ~(Len(todo) > 3) /\ Len(todo) # 3
        BY <2>2, SMT
      <3>4. \A t \in Timers : Counted(t)
        BY <3>3, Zenon DEF Setup, SettingUp
      <3> QED
        BY <1>2, <3>1, <3>2, <3>4 DEF Setup, Counted
    <2>3. CASE Len(todo) # 1
      <3>1. op' = op /\ Matching' /\ Len(todo') = Len(todo) - 1
        BY <1>1, <1>4, <2>1, <2>3, MatchStatement DEF Matching
      <3>2. \A t \in Timers \ {op.timer} : Counted(t)
        BY DEF Setup, SettingUp
      <3>3. CASE SetLimit
        <4>1. Len(todo) = 8
          BY <1>4, <2>1, <3>3, MatchStatement DEF SetLimit
        <4>2. /\ limit' = [limit EXCEPT ![op.timer] = op.period]
              /\ periodic' = periodic /\ reset' = reset
          BY <3>3 DEF SetLimit
        <4>3. limit'[op.timer] = op.period
              /\ \A t \in Timers \ {op.timer} : limit'[t] = limit[t]
          BY <2>1, <4>2 DEF TypeOK
        <4>4. \A t \in Timers \ {op.timer} : Counted(t)'
          BY <1>2, <3>2, <4>2, <4>3 DEF Counted
        <4>5. Len(todo') > 3 /\ Len(todo') # 3
          BY <3>1, <4>1, SMT
        <4>6. SettingUp(op.timer)'
          BY <3>1, <4>5, Zenon DEF SettingUp
        <4> QED
          BY <3>1, <4>3, <4>4, <4>5, <4>6 DEF Setup
      <3>4. CASE SetPeriodic
        <4>1. Len(todo) = 7
          BY <1>4, <2>1, <3>4, MatchStatement DEF SetPeriodic
        <4>2. limit' = limit
              /\ \A t \in Timers \ {op.timer} : t \in periodic' <=> t \in periodic
          BY <3>4 DEF SetPeriodic
        <4>3. \A t \in Timers \ {op.timer} : Counted(t)'
          BY <1>2, <3>2, <4>2 DEF Counted
        <4>4. Len(todo') > 3 /\ Len(todo') # 3 /\ Len(todo) < 8
          BY <3>1, <4>1, SMT
        <4>5. SettingUp(op.timer)'
          BY <3>1, <4>4, Zenon DEF SettingUp
        <4> QED
          BY <1>4, <3>1, <4>2, <4>3, <4>4, <4>5 DEF Setup
      <3>5. CASE RequestReset
        <4>1. Len(todo) = 4 /\ reset' = op.timer
          BY <1>4, <2>1, <3>5, MatchStatement DEF RequestReset
        <4>2. limit' = limit /\ periodic' = periodic
          BY <3>5 DEF RequestReset
        <4>3. \A t \in Timers \ {op.timer} : Counted(t)'
          BY <1>2, <3>2, <4>2 DEF Counted
        <4>4. Len(todo') = 3 /\ Len(todo) < 8
          BY <3>1, <4>1, SMT
        <4>5. SettingUp(op.timer)'
          BY <2>1, <3>1, <4>1, <4>4, NoTimerAssumption DEF SettingUp
        <4> QED
          BY <1>4, <3>1, <4>1, <4>2, <4>3, <4>4, <4>5 DEF Setup
      <3>6. CASE ~SetLimit /\ ~SetPeriodic /\ ~RequestReset
        <4>1. limit' = limit /\ periodic' = periodic /\ reset' = reset
          BY <3>6 DEF Statement, LoadFlag, StoreFlag, LoadEnabled, StoreEnabled,
                      WaitReset, Spin
        <4>2. Len(todo) < 8 /\ Len(todo) # 4
          <5>1. s \notin {"limit", "reset"}
            BY <1>1, <3>6 DEF Statement, LoadFlag, StoreFlag, LoadEnabled,
               StoreEnabled, WaitReset, Spin, Do
          <5> QED
            BY <1>1, <1>4, <2>1, <5>1, MatchStatement
        <4>3. Len(todo) = 3 => reset = NoTimer
          <5>1. Len(todo) = 3 => s = "wait"
            BY <1>1, <1>4, <2>1, MatchStatement, SMT DEF Statements
          <5>2. s = "wait" => WaitReset
            BY <1>1, <3>6 DEF Statement, LoadFlag, StoreFlag, LoadEnabled,
               StoreEnabled, WaitReset, Spin, Do
          <5> QED
            BY <5>1, <5>2 DEF WaitReset
        <4>4. CASE SettingUp(op.timer)
          <5>1. Len(todo') > 3
            BY <2>1, <3>1, <4>2, <4>3, <4>4, SMT DEF SettingUp
          <5>2. SettingUp(op.timer)'
            BY <3>1, <5>1, Zenon DEF SettingUp
          <5>3. \A t \in Timers \ {op.timer} : Counted(t)'
            BY <1>2, <3>2, <4>1 DEF Counted
          <5>4. Len(todo') # 3
            BY <3>1, <5>1, SMT
          <5> QED
            BY <1>4, <3>1, <4>1, <4>2, <5>2, <5>3, <5>4 DEF Setup
        <4>5. CASE ~SettingUp(op.timer)
          <5>1. \A t \in Timers : Counted(t)
            BY <3>2, <4>5 DEF Setup
          <5>2. \A t \in Timers : Counted(t)'
            BY <1>2, <4>1, <5>1 DEF Counted
          <5>3. Len(todo') # 3
            BY <1>4, <2>1, <3>1, <4>2, SMT
          <5> QED
            BY <1>4, <3>1, <4>1, <4>2, <5>2, <5>3 DEF Setup
        <4> QED
          BY <4>4, <4>5
      <3> QED
        BY <3>3, <3>4, <3>5, <3>6
    <2> QED
      BY <2>2, <2>3
  <1> QED
    BY <1>3, <1>4

LEMMA TmrInductive == Spec => []TmrInv
  <1>1. Init => TmrInv
    <2> SUFFICES ASSUME Init PROVE TmrInv
      OBVIOUS
    <2>1. TypeOK
      <3>1. <<>> \in Seq(Statements)
        BY SMT
      <3> QED
        BY <3>1, ModulusAssumption, SMT DEF Init, TypeOK
    <2>2. Position
      BY DEF Init, Position
    <2>3. ~Matching
      BY DEF Init, Matching, NoCall
    <2>4. \A t \in Timers : Counted(t)
      <3> SUFFICES ASSUME NEW t \in Timers PROVE Counted(t)
        OBVIOUS
      <3>1. counter[t] = 0 /\ age[t] = 0 /\ t \notin periodic
        BY DEF Init
      <3>2. counter[t] <= age[t]
        BY <3>1, SMT
      <3> QED
        BY <3>1, <3>2 DEF Counted
    <2> QED
      BY <2>1, <2>2, <2>3, <2>4 DEF TmrInv, Setup
  <1>2. TmrInv /\ [Next]_vars => TmrInv'
    <2> SUFFICES ASSUME TmrInv, [Next]_vars PROVE TmrInv'
      OBVIOUS
    <2> USE DEF TmrInv
    <2>1. CASE cmn_virtual_timer_cb
      <3>1. Position'
        BY <2>1 DEF cmn_virtual_timer_cb, mainVars, Position, Matching, AtMatch, AtOther
      <3> QED
        BY <2>1, <3>1, TickType, TickSetup
    <2>2. ASSUME NEW c \in Calls, Call(c) PROVE TmrInv'
      BY <2>2, CallsType, CallPosition, CallSetup
    <2>3. CASE platform_cpu_set_global_interrupts
      <3>1. UNCHANGED <<tmrVars, mainVars, histVars>> /\ interrupts' \in BOOLEAN
        BY <2>3 DEF platform_cpu_set_global_interrupts
      <3>2. TypeOK'
        BY <3>1 DEF TypeOK, tmrVars, mainVars, histVars
      <3>3. Position'
        BY <3>1 DEF mainVars, Position, Matching, AtMatch, AtOther
      <3>4. Setup'
        BY <3>1 DEF tmrVars, mainVars, histVars, Setup, SettingUp, Counted, Matching
      <3> QED
        BY <3>2, <3>3, <3>4
    <2>4. CASE Statement
      <3>1. PICK s \in Statements : Do(s)
        BY <2>4 DEF Statement, SetLimit, SetPeriodic, LoadFlag, StoreFlag, LoadEnabled,
           StoreEnabled, RequestReset, WaitReset, Spin, Statements
      <3>2. Position'
        BY <3>1, DoPosition
      <3> QED
        BY <2>4, <3>2, StatementType, StatementSetup
    <2>5. CASE UNCHANGED vars
      <3>1. TypeOK'
        BY <2>5 DEF vars, TypeOK, tmrVars, mainVars, histVars
      <3>2. Position'
        BY <2>5 DEF vars, mainVars, Position, Matching, AtMatch, AtOther
      <3>3. Setup'
        BY <2>5 DEF vars, tmrVars, mainVars, histVars, Setup, SettingUp, Counted, Matching
      <3> QED
        BY <3>1, <3>2, <3>3
    <2> QED
      BY <2>1, <2>2, <2>3, <2>4, <2>5 DEF Next
  <1> QED
    BY <1>1, <1>2, PTL DEF Spec

----------------------------------------------------------------------------
(* The theorems                                                            *)

\* Type correctness, for every width of the counters: they stay below
\* Modulus, and every call takes only statements of its own (all of
\* src/common_tmr.c).
THEOREM TypeCorrect == Spec => []TypeOK
  BY TmrInductive, PTL DEF TmrInv

\* The counter of a cyclic timer stays below its limit from the moment the
\* tick has served the reset of vtmr_set_match_int.
THEOREM CyclicStaysBelow == Spec => []CyclicBelowLimit
  <1>1. TmrInv => CyclicBelowLimit
    BY DEF TmrInv, TypeOK, Setup, Counted, SettingUp, Matching, CyclicBelowLimit
  <1> QED
    BY <1>1, TmrInductive, PTL

\* A timer is not enabled while it is set up, if it was not before: nothing
\* but the last statement of vtmr_set_match_int enables it.
Disabled == Matching => op.timer \notin enabled

LEMMA StaysDisabled ==
    ASSUME ~LiveReconfig
    PROVE  Spec => []Disabled
  <1>1. Init => Disabled
    BY DEF Init, Disabled, Matching, NoCall
  <1>2. TmrInv /\ Disabled /\ [Next]_vars => Disabled'
    <2> SUFFICES ASSUME TmrInv, Disabled, [Next]_vars PROVE Disabled'
      OBVIOUS
    <2> USE DEF TmrInv
    <2>1. CASE cmn_virtual_timer_cb
      BY <2>1 DEF cmn_virtual_timer_cb, mainVars, StillEnabled, Disabled, Matching
    <2>2. ASSUME NEW c \in Calls, Call(c) PROVE Disabled'
      BY <2>2 DEF Call, tmrVars, Disabled, Matching
    <2>3. CASE platform_cpu_set_global_interrupts
      BY <2>3 DEF platform_cpu_set_global_interrupts, tmrVars, mainVars, Disabled, Matching
    <2>4. CASE Statement /\ ~StoreEnabled
      <3>1. enabled' = enabled /\ (op' = op \/ op' = NoCall)
        BY <2>4 DEF Statement, SetLimit, SetPeriodic, LoadFlag, StoreFlag, LoadEnabled,
           RequestReset, WaitReset, Spin, Do, tmrVars
      <3> QED
        BY <3>1 DEF Disabled, Matching, NoCall
    <2>5. CASE StoreEnabled
      <3>1. Matching => op' = NoCall
        <4> SUFFICES ASSUME Matching PROVE op' = NoCall
          OBVIOUS
        <4>1. AtMatch
          BY MatchPosition
        <4> QED
          BY <2>5, <4>1, MatchStatement DEF StoreEnabled
      <3>2. op' = op \/ op' = NoCall
        BY <2>5 DEF StoreEnabled, Do
      <3> QED
        BY <3>1, <3>2 DEF Disabled, Matching, NoCall
    <2>6. CASE UNCHANGED vars
      BY <2>6 DEF vars, tmrVars, mainVars, Disabled, Matching
    <2> QED
      BY <2>1, <2>2, <2>3, <2>4, <2>5, <2>6 DEF Next
  <1> QED
    BY <1>1, <1>2, TmrInductive, PTL DEF Spec

\* No match interrupt before its period has passed since the timer was set up
\* or reset, and that of a cyclic timer exactly then, wherever the tick strikes
\* and whatever is done with the other timers, as long as no timer is set up
\* while it is enabled (cmn_virtual_timer_cb, vtmr_set_match_int).
THEOREM FiresOnTime ==
    ASSUME ~LiveReconfig
    PROVE  Spec => MatchOnTime
  <1>1. TmrInv /\ Disabled /\ [Next]_vars
          => [cmn_virtual_timer_cb =>
                 \A t \in Fires : /\ age[t] + 1 >= limit[t]
                                  /\ t \in periodic => age[t] + 1 = limit[t]]_vars
    <2> SUFFICES ASSUME TmrInv, Disabled, NEW t \in Fires
                 PROVE  /\ age[t] + 1 >= limit[t]
                        /\ t \in periodic => age[t] + 1 = limit[t]
      OBVIOUS
    <2> USE DEF TmrInv
    <2>1. t \in Timers /\ t \in enabled /\ Advanced(t) >= limit[t]
      BY DEF Fires, Hits
    <2>2. Counted(t)
      BY <2>1 DEF Disabled, Setup, SettingUp
    <2>3. counter[t] \in 0 .. Modulus - 1 /\ age[t] \in 0 .. Modulus
          /\ Modulus \in Nat \ {0, 1}
      BY <2>1, ModulusAssumption DEF TypeOK
    <2>4. limit[t] \in Int /\ limit[t] < Modulus
      <3>1. limit[t] \in Periods \cup {0}
        BY <2>1 DEF TypeOK
      <3> QED
        BY <3>1, <2>3, PeriodRange, SMT
    <2>5. Advanced(t) = IF counter[t] + 1 = Modulus THEN 0 ELSE counter[t] + 1
      BY <2>3, CountsUp, SMT DEF Advanced
    <2>6. counter[t] <= age[t]
          /\ (t \in periodic => counter[t] = age[t] /\ counter[t] < limit[t])
      BY <2>2 DEF Counted
    <2>7. age[t] + 1 >= limit[t]
      BY <2>1, <2>3, <2>4, <2>5, <2>6, SMT
    <2>8. t \in periodic => age[t] + 1 = limit[t]
      BY <2>1, <2>3, <2>4, <2>5, <2>6, SMT
    <2> QED
      BY <2>7, <2>8
  <1> QED
    BY <1>1, TmrInductive, StaysDisabled, PTL DEF Spec, MatchOnTime

\* A one-shot timer that fired is no longer enabled, in the byte or in the copy
\* that a call for another timer is about to write back, unless it was struck.
Spent ==
    /\ spent \cap enabled \subseteq struck
    /\ todo # <<>> /\ Head(todo) = "store_enabled"
         => (spent \cap tmp) \ {op.timer} \subseteq struck

\* The enable bits are read just before they are written.
LEMMA LoadedBefore ==
    ASSUME TmrInv, NEW s, Do(s), todo' # <<>>, Head(todo') = "store_enabled"
    PROVE  s = "load_enabled" /\ op' = op
  <1>1. AtMatch \/ AtOther
    BY DEF TmrInv, Position, Do
  <1>2. op' = op
    BY DEF Do
  <1>3. CASE AtMatch
    <2>1. CASE Len(todo) = 2
      BY <1>3, <2>1, <1>2, SMT DEF AtMatch, Do
    <2>2. CASE Len(todo) # 2
      BY <1>3, <2>2, <1>2, SMT DEF AtMatch, Do
    <2> QED
      BY <2>1, <2>2
  <1>4. CASE AtOther
    BY <1>4, <1>2, SMT DEF AtOther, Do
  <1> QED
    BY <1>1, <1>3, <1>4

\* A one-shot timer queues one match interrupt each time it is set up, wherever
\* the tick strikes and whatever is done with the other timers.  It queues
\* another one only if cpu.sei enabled it again, or if the call for another
\* timer (vtmr_int_set_status, vtmr_set_match_int) wrote back the enable bit
\* that the tick had cleared since it read the byte; and no third one.
THEOREM SecondShotOnlyAfterStrike == Spec => SecondShot
  <1>1. Init => Spent
    BY DEF Init, Spent
  <1>2. TmrInv /\ Spent /\ [Next]_vars => Spent'
    <2> SUFFICES ASSUME TmrInv, Spent, [Next]_vars PROVE Spent'
      OBVIOUS
    <2>1. CASE cmn_virtual_timer_cb
      <3>1. /\ enabled' = enabled \ (Hits \ periodic)
            /\ spent' = spent \cup Cleared
            /\ Cleared = (Hits \cap enabled) \ periodic
            /\ op' = op /\ todo' = todo /\ tmp' = tmp /\ struck' = Struck
        BY <2>1 DEF cmn_virtual_timer_cb, StillEnabled, Fires, Cleared, mainVars
      <3>2. struck \ Cleared \subseteq Struck
        BY DEF Struck
      <3>3. spent' \cap enabled' \subseteq struck'
        BY <3>1, <3>2 DEF Spent
      <3>4. ASSUME todo # <<>> /\ Head(todo) = "store_enabled"
            PROVE  (spent' \cap tmp') \ {op.timer} \subseteq struck'
        <4>1. Struck = (struck \ Cleared) \cup (Cleared \ {op.timer})
          BY <3>4 DEF Struck
        <4> QED
          BY <3>1, <3>4, <4>1 DEF Spent
      <3> QED
        BY <3>1, <3>3, <3>4 DEF Spent
    <2>2. ASSUME NEW c \in Calls, Call(c) PROVE Spent'
      <3>1. enabled' = enabled /\ spent' = spent /\ struck' = struck
        BY <2>2 DEF Call, tmrVars
      <3>2. todo' # <<>> => Head(todo') # "store_enabled"
        <4>1. c.kind \in AllOps /\ todo' = Program(c.kind)
          BY <2>2, CallType DEF Call
        <4> QED
          BY <4>1, SMT DEF Program, AllOps
      <3> QED
        BY <3>1, <3>2 DEF Spent
    <2>3. CASE platform_cpu_set_global_interrupts
      BY <2>3 DEF platform_cpu_set_global_interrupts, tmrVars, mainVars, histVars, Spent
    <2>4. CASE Statement /\ ~StoreEnabled
      <3>1. PICK s \in Statements : Do(s)
        BY <2>4 DEF Statement, SetLimit, SetPeriodic, LoadFlag, StoreFlag, LoadEnabled,
           RequestReset, WaitReset, Spin, Statements
      <3>2. enabled' = enabled /\ spent' = spent /\ struck' = struck
        BY <2>4 DEF Statement, SetLimit, SetPeriodic, LoadFlag, StoreFlag, LoadEnabled,
           RequestReset, WaitReset, Spin, tmrVars, histVars
      <3>3. s = "load_enabled" => LoadEnabled
        BY <2>4, <3>1 DEF Statement, SetLimit, SetPeriodic, LoadFlag, StoreFlag, LoadEnabled,
           RequestReset, WaitReset, Spin, Do
      <3>4. ASSUME todo' # <<>>, Head(todo') = "store_enabled"
            PROVE  (spent' \cap tmp') \ {op'.timer} \subseteq struck'
        <4>1. tmp' = enabled
          BY <3>1, <3>3, <3>4, LoadedBefore DEF LoadEnabled
        <4> QED
          BY <3>2, <4>1 DEF Spent
      <3> QED
        BY <3>2, <3>4 DEF Spent
    <2>5. CASE StoreEnabled
      <3>1. todo # <<>> /\ Head(todo) = "store_enabled" /\ Do("store_enabled")
        BY <2>5 DEF StoreEnabled, Do
      <3>2. (spent \cap tmp) \ {op.timer} \subseteq struck
        BY <3>1 DEF Spent
      <3>3. spent' \cap enabled' \subseteq struck'
        <4>1. CASE op.kind = "match"
          BY <2>5, <3>2, <4>1 DEF StoreEnabled
        <4>2. CASE op.kind = "sei"
          BY <2>5, <3>2, <4>2 DEF StoreEnabled
        <4>3. CASE op.kind \notin {"match", "sei"}
          BY <2>5, <3>2, <4>3 DEF StoreEnabled
        <4> QED
          BY <4>1, <4>2, <4>3
      <3>4. ~(todo' # <<>> /\ Head(todo') = "store_enabled")
        BY <3>1, LoadedBefore
      <3> QED
        BY <3>3, <3>4 DEF Spent
    <2>6. CASE UNCHANGED vars
      BY <2>6 DEF vars, tmrVars, mainVars, histVars, Spent
    <2> QED
      BY <2>1, <2>2, <2>3, <2>4, <2>5, <2>6 DEF Next
  <1>3. Spent => [cmn_virtual_timer_cb => Cleared \cap spent \subseteq struck]_vars
    BY DEF Spent, Cleared, Fires
  <1> QED
    BY <1>1, <1>2, <1>3, TmrInductive, PTL DEF Spec, SecondShot
=============================================================================
