--------------------------- MODULE OtpThrottle_proofs ---------------------------
(***************************************************************************)
(* The ladder of limits on one phone number, for any number of requests    *)
(* under way and of crashes.  Each limit is a count of requests between    *)
(* two commands: a request past a check is spent when the counter moves,   *)
(* so what the counter and those requests make together stays bounded.     *)
(***************************************************************************)
EXTENDS OtpThrottle, TLAPS, FiniteSetTheorems

N == Cardinality(Handlers)

-----------------------------------------------------------------------------
(* Counting the handlers at a step. *)

AtSteps(hd, steps)  == {h \in Handlers : hd[h].step \in steps}
NumberAt(hd, steps) == Cardinality(AtSteps(hd, steps))

One(condition) == IF condition THEN 1 ELSE 0

\* No more than all of them, and not all when one is elsewhere.
LEMMA Numbers ==
  ASSUME NEW hd, NEW S
  PROVE  /\ N \in Nat
         /\ NumberAt(hd, S) \in 0 .. N
         /\ \A h \in Handlers : hd[h].step \notin S => NumberAt(hd, S) <= N - 1
<1>1. IsFiniteSet(Handlers) /\ N \in Nat
  BY ThrottleConstants, FS_CardinalityType DEF N
<1>2. AtSteps(hd, S) \subseteq Handlers
  BY DEF AtSteps
<1>3. IsFiniteSet(AtSteps(hd, S)) /\ NumberAt(hd, S) <= N
  BY <1>1, <1>2, FS_Subset DEF NumberAt, N
<1>4. NumberAt(hd, S) \in Nat
  BY <1>3, FS_CardinalityType DEF NumberAt
<1>5. ASSUME NEW h \in Handlers, hd[h].step \notin S
      PROVE  NumberAt(hd, S) <= N - 1
  <2>1. h \notin AtSteps(hd, S) /\ AtSteps(hd, S) \cup {h} \subseteq Handlers
    BY <1>5 DEF AtSteps
  <2>2. Cardinality(AtSteps(hd, S) \cup {h}) = NumberAt(hd, S) + 1
    BY <1>3, <2>1, FS_AddElement DEF NumberAt
  <2>3. Cardinality(AtSteps(hd, S) \cup {h}) <= N
    BY <1>1, <2>1, FS_Subset DEF N
  <2> QED BY <1>1, <1>4, <2>2, <2>3
<1> QED BY <1>1, <1>3, <1>4, <1>5

\* Nobody is at two places.
LEMMA Apart ==
  ASSUME NEW hd, NEW S, NEW T, S \cap T = {}
  PROVE  NumberAt(hd, S) + NumberAt(hd, T) <= N
<1> DEFINE A == AtSteps(hd, S)
           B == AtSteps(hd, T)
<1>1. IsFiniteSet(Handlers) /\ N \in Nat
  BY ThrottleConstants, FS_CardinalityType DEF N
<1>2. A \cup B \subseteq Handlers /\ A \subseteq Handlers /\ B \subseteq Handlers
      /\ A \cap B = {}
  BY DEF AtSteps
<1> HIDE DEF A, B
<1>3. IsFiniteSet(A) /\ IsFiniteSet(B)
  BY <1>1, <1>2, FS_Subset
<1>4. Cardinality(A \cup B) = Cardinality(A) + Cardinality(B) - Cardinality(A \cap B)
  BY <1>3, FS_Union
<1>5. Cardinality(A \cap B) = 0
  BY <1>2, FS_EmptySet
<1>6. Cardinality(A \cup B) <= N
  BY <1>1, <1>2, FS_Subset DEF N
<1>7. Cardinality(A) \in Nat /\ Cardinality(B) \in Nat
  BY <1>3, FS_CardinalityType
<1>8. Cardinality(A) + Cardinality(B) <= N
  BY <1>1, <1>4, <1>5, <1>6, <1>7
<1> QED BY <1>8 DEF A, B, NumberAt

\* When one handler moves, the number at a step changes by that one.
LEMMA Moved ==
  ASSUME NEW hd, NEW hd2, NEW h \in Handlers, NEW S,
         \A g \in Handlers \ {h} : hd2[g] = hd[g]
  PROVE  NumberAt(hd2, S) + One(hd[h].step \in S) = NumberAt(hd, S) + One(hd2[h].step \in S)
<1> DEFINE A == AtSteps(hd, S)
           B == AtSteps(hd2, S)
<1>1. /\ h \in A <=> hd[h].step \in S
      /\ h \in B <=> hd2[h].step \in S
      /\ A \ {h} = B \ {h}
      /\ A \subseteq Handlers /\ B \subseteq Handlers
  BY DEF AtSteps
<1> HIDE DEF A, B
<1>2. IsFiniteSet(A) /\ IsFiniteSet(B)
  BY <1>1, ThrottleConstants, FS_Subset
<1>3. /\ Cardinality(A \ {h}) = IF h \in A THEN Cardinality(A) - 1 ELSE Cardinality(A)
      /\ Cardinality(B \ {h}) = IF h \in B THEN Cardinality(B) - 1 ELSE Cardinality(B)
  BY <1>2, FS_RemoveElement
<1>4. Cardinality(A) \in Nat /\ Cardinality(B) \in Nat
  BY <1>2, FS_CardinalityType
<1>5. Cardinality(B) + One(hd[h].step \in S) = Cardinality(A) + One(hd2[h].step \in S)
  BY <1>1, <1>3, <1>4 DEF One
<1> QED BY <1>5 DEF A, B, NumberAt

\* Nobody is at a step when all are idle.
LEMMA NobodyAt ==
  ASSUME NEW hd, NEW S, \A h \in Handlers : hd[h].step \notin S
  PROVE  NumberAt(hd, S) = 0
<1>1. AtSteps(hd, S) = {}
  BY DEF AtSteps
<1> QED BY <1>1, FS_EmptySet DEF NumberAt

-----------------------------------------------------------------------------
(* What one command does. *)

\* h goes from one step to another, and nobody else moves.
Moves(h, from, to) ==
  /\ handler[h].step = from
  /\ handler'[h].step = to
  /\ \A g \in Handlers \ {h} : handler'[g] = handler[g]

\* The handler in front of one of the keys it asserts the absence of.
LEMMA Asserted ==
  ASSUME handler \in [Handlers -> [step : Steps, key : 0 .. 3]], NEW h \in Handlers
  PROVE  /\ AssertCanSend(h) =>
              /\ \E s \in {"assertCanSend", "getSends", "idle"} : Moves(h, "assertCanSend", s)
              /\ handler' \in [Handlers -> [step : Steps, key : 0 .. 3]]
         /\ AssertCanCheck(h) =>
              /\ \/ \E s \in {"assertCanCheck", "idle"} : Moves(h, "assertCanCheck", s)
                 \/ Moves(h, "assertCanCheck", "checkVerification") /\ "block5" \notin flags
              /\ handler' \in [Handlers -> [step : Steps, key : 0 .. 3]]
<1>1. Len(SendFlags) = 3 /\ Len(CheckFlags) = 2 /\ CheckFlags[2] = "block5"
  BY DEF SendFlags, CheckFlags
<1>2. handler[h].key \in 0 .. 3
  OBVIOUS
<1>3. ASSUME AssertCanSend(h)
      PROVE  /\ \E s \in {"assertCanSend", "getSends", "idle"} : Moves(h, "assertCanSend", s)
             /\ handler' \in [Handlers -> [step : Steps, key : 0 .. 3]]
  BY <1>1, <1>2, <1>3
     DEF AssertCanSend, AssertFree, At, To, End, Idle, Moves, Steps
<1>4. ASSUME AssertCanCheck(h)
      PROVE  /\ \/ \E s \in {"assertCanCheck", "idle"} : Moves(h, "assertCanCheck", s)
                \/ Moves(h, "assertCanCheck", "checkVerification") /\ "block5" \notin flags
             /\ handler' \in [Handlers -> [step : Steps, key : 0 .. 3]]
  BY <1>1, <1>2, <1>4
     DEF AssertCanCheck, AssertFree, At, To, End, Idle, Moves, Steps
<1> QED BY <1>3, <1>4

\* Where a handler may be found next: every command moves one handler, from a
\* step to one of those the code has after it.
LEMMA Commands ==
  ASSUME handler \in [Handlers -> [step : Steps, key : 0 .. 3]], NEW h \in Handlers
  PROVE  /\ StartOtp(h) => Moves(h, "idle", "assertCanSend")
         /\ CheckOtp(h) => Moves(h, "idle", "assertCanCheck")
         /\ GetSends(h) =>
              \/ Moves(h, "getSends", "startVerification") /\ SendsLeft
              \/ Moves(h, "getSends", "idle")
         /\ StartVerification(h) =>
              \E s \in {"setCooldown", "idle"} : Moves(h, "startVerification", s)
         /\ SetCooldown(h) => Moves(h, "setCooldown", "incrSends")
         /\ IncrSends(h) =>
              Moves(h, "incrSends", IF FirstOnly(counter["sends"] + 1)
                                    THEN "expireSends" ELSE "idle")
         /\ CheckVerification(h) =>
              \E s \in {"recordSuccess", "incrFails", "idle"} :
                /\ Moves(h, "checkVerification", s)
                /\ wrong' = IF s = "incrFails" /\ ~(wrong > MostWrong) THEN wrong + 1
                            ELSE wrong
         /\ IncrFails(h) =>
              Moves(h, "incrFails", IF FirstOnly(counter["fails"] + 1) THEN "expireFails"
                                    ELSE IF LastFailure(counter["fails"] + 1) THEN "setBlock5"
                                    ELSE "idle")
         /\ SetBlock5(h) => Moves(h, "setBlock5", "delFails")
         /\ DelFails(h) => Moves(h, "delFails", "incrBlockCount")
         /\ IncrBlockCount(h) =>
              \/ /\ Moves(h, "incrBlockCount", "expireBlockCount")
                 /\ FirstOnly(counter["blockCount"] + 1)
              \/ /\ \E s \in {"setLock24", "idle"} : Moves(h, "incrBlockCount", s)
                 /\ ~FirstOnly(counter["blockCount"] + 1)
         /\ SetLock24(h) => Moves(h, "setLock24", "idle")
         /\ RecordSuccess(h) => Moves(h, "recordSuccess", "idle")
         /\ \A c \in Counters : SetExpiry(h, c) => Moves(h, ExpireStep[c], "idle")
<1> USE DEF At, To, End, Idle, Moves
<1>1. /\ StartOtp(h) => Moves(h, "idle", "assertCanSend")
      /\ CheckOtp(h) => Moves(h, "idle", "assertCanCheck")
  BY DEF StartOtp, CheckOtp, Begin
<1>2. GetSends(h) =>
        \/ Moves(h, "getSends", "startVerification") /\ SendsLeft
        \/ Moves(h, "getSends", "idle")
  BY DEF GetSends
<1>3. /\ StartVerification(h) =>
           \E s \in {"setCooldown", "idle"} : Moves(h, "startVerification", s)
      /\ SetCooldown(h) => Moves(h, "setCooldown", "incrSends")
  BY DEF StartVerification, SetCooldown
<1>4. IncrSends(h) =>
        Moves(h, "incrSends", IF FirstOnly(counter["sends"] + 1)
                              THEN "expireSends" ELSE "idle")
  BY DEF IncrSends, ExpireStep
<1>5. CheckVerification(h) =>
        \E s \in {"recordSuccess", "incrFails", "idle"} :
          /\ Moves(h, "checkVerification", s)
          /\ wrong' = IF s = "incrFails" /\ ~(wrong > MostWrong) THEN wrong + 1 ELSE wrong
  BY DEF CheckVerification
<1>6. IncrFails(h) =>
        Moves(h, "incrFails", IF FirstOnly(counter["fails"] + 1) THEN "expireFails"
                              ELSE IF LastFailure(counter["fails"] + 1) THEN "setBlock5"
                              ELSE "idle")
  BY DEF IncrFails, ExpireStep
<1>7. /\ SetBlock5(h) => Moves(h, "setBlock5", "delFails")
      /\ DelFails(h) => Moves(h, "delFails", "incrBlockCount")
  BY DEF SetBlock5, DelFails
<1>8. IncrBlockCount(h) =>
        \/ /\ Moves(h, "incrBlockCount", "expireBlockCount")
           /\ FirstOnly(counter["blockCount"] + 1)
        \/ /\ \E s \in {"setLock24", "idle"} : Moves(h, "incrBlockCount", s)
           /\ ~FirstOnly(counter["blockCount"] + 1)
  BY DEF IncrBlockCount, ExpireStep
<1>9. /\ SetLock24(h) => Moves(h, "setLock24", "idle")
      /\ RecordSuccess(h) => Moves(h, "recordSuccess", "idle")
      /\ \A c \in Counters : SetExpiry(h, c) => Moves(h, ExpireStep[c], "idle")
  BY DEF SetLock24, RecordSuccess, SetExpiry
<1> QED BY <1>1, <1>2, <1>3, <1>4, <1>5, <1>6, <1>7, <1>8, <1>9

-----------------------------------------------------------------------------
(* Types. *)

LEMMA Product == \A j, k \in Nat : j * k \in Nat
OBVIOUS

LEMMA MostWrongType ==
  ASSUME crashes \in Nat
  PROVE  MostWrong = 2 * N + crashes * N /\ MostWrong \in Nat /\ crashes * N \in Nat
<1>1. N \in Nat
  BY ThrottleConstants, FS_CardinalityType DEF N
<1>2. crashes * N \in Nat
  BY <1>1
<1> QED BY <1>1, <1>2 DEF MostWrong, FAILS_BEFORE_BLOCK, N

LEMMA CapPositive == \A c \in Counters : Cap[c] \in Nat \ {0}
<1>1. N \in Nat
  BY ThrottleConstants, FS_CardinalityType DEF N
<1> QED BY <1>1 DEF Cap, Counters, N, MAX_SENDS_PER_HOUR, FAILS_BEFORE_BLOCK,
                    BLOCKS_BEFORE_LOCK

\* INCR, under its bound.
LEMMA Incremented ==
  ASSUME TypeOK, NEW c \in Counters, Incr(c)
  PROVE  /\ counter' \in [Counters -> Nat]
         /\ \A b \in Counters : counter'[b] <= Cap[b] /\ (counter[b] > 0 => counter'[b] > 0)
         /\ counter'[c] > 0
         /\ counter'[c] <= counter[c] + 1
         /\ \A b \in Counters \ {c} : counter'[b] = counter[b]
<1>2. \A b \in Counters : Cap[b] \in Nat \ {0}
  BY CapPositive
<1>3. counter' = [counter EXCEPT ![c] = IF @ < Cap[c] THEN @ + 1 ELSE @]
  BY DEF Incr
<1>4. counter \in [Counters -> Nat] /\ \A b \in Counters : counter[b] <= Cap[b]
  BY DEF TypeOK
<1> QED BY <1>2, <1>3, <1>4

LEMMA InitTypes == Init => TypeOK
<1> SUFFICES ASSUME Init PROVE TypeOK
  OBVIOUS
<1>2. \A c \in Counters : 0 <= Cap[c]
  BY CapPositive
<1>3. crashes \in Nat /\ MostWrong \in Nat
  BY MostWrongType DEF Init
<1> QED BY <1>2, <1>3, ThrottleConstants DEF Init, TypeOK, Idle, Steps

LEMMA NextTypes == TypeOK /\ [Next]_vars => TypeOK'
<1> SUFFICES ASSUME TypeOK, [Next]_vars PROVE TypeOK'
  OBVIOUS
<1>t. /\ flags \subseteq Flags
      /\ counter \in [Counters -> Nat]
      /\ \A c \in Counters : counter[c] <= Cap[c]
      /\ ttl \subseteq {c \in Counters : counter[c] > 0}
      /\ handler \in [Handlers -> [step : Steps, key : 0 .. 3]]
      /\ orphaned \subseteq Counters
      /\ wrong \in 0 .. MostWrong + 1
      /\ crashes \in 0 .. MaxCrashes
  BY DEF TypeOK
<1>n. N \in Nat /\ crashes \in Nat /\ MaxCrashes \in Nat
  BY <1>t, ThrottleConstants, FS_CardinalityType DEF N
<1>m. MostWrong \in Nat /\ MostWrong = 2 * N + crashes * N
  BY <1>n, MostWrongType
<1>c. \A c \in Counters : 0 <= Cap[c]
  BY CapPositive
<1>w. UNCHANGED crashes => MostWrong' = MostWrong
  BY DEF MostWrong
<1>1. ASSUME NEW key \in Flags \cup Counters, Expire(key)
      PROVE  TypeOK'
  <2>1. key \in Counters \/ UNCHANGED <<counter, ttl>>
    BY <1>1, <1>t DEF Expire
  <2>2. /\ flags' \subseteq Flags
        /\ counter' \in [Counters -> Nat]
        /\ \A c \in Counters : counter'[c] <= Cap[c]
        /\ ttl' \subseteq {c \in Counters : counter'[c] > 0}
    BY <1>1, <1>t, <1>c, <2>1 DEF Expire
  <2>3. wrong' \in 0 .. MostWrong' + 1 /\ UNCHANGED <<handler, orphaned, crashes>>
    BY <1>1, <1>t, <1>w, <1>m DEF Expire
  <2> QED BY <1>t, <2>2, <2>3 DEF TypeOK
<1>2. ASSUME NEW h \in Handlers, AssertCanSend(h) \/ AssertCanCheck(h)
      PROVE  TypeOK'
  <2>1. handler' \in [Handlers -> [step : Steps, key : 0 .. 3]]
    BY <1>2, <1>t, Asserted
  <2>2. UNCHANGED <<flags, counter, ttl, orphaned, wrong, crashes>>
    BY <1>2 DEF AssertCanSend, AssertCanCheck, AssertFree, redisVars, historyVars
  <2> QED BY <1>t, <1>w, <2>1, <2>2 DEF TypeOK
<1>3. ASSUME NEW h \in Handlers,
             StartOtp(h) \/ CheckOtp(h) \/ GetSends(h) \/ StartVerification(h)
      PROVE  TypeOK'
  <2>1. handler' \in [Handlers -> [step : Steps, key : 0 .. 3]]
    BY <1>3, <1>t DEF StartOtp, CheckOtp, Begin, GetSends, StartVerification, To, End, Idle,
                      Steps
  <2>2. UNCHANGED <<flags, counter, ttl, orphaned, wrong, crashes>>
    BY <1>3 DEF StartOtp, CheckOtp, Begin, GetSends, StartVerification, redisVars, historyVars
  <2> QED BY <1>t, <1>w, <2>1, <2>2 DEF TypeOK
<1>4. ASSUME NEW h \in Handlers, SetCooldown(h) \/ SetBlock5(h) \/ SetLock24(h)
      PROVE  TypeOK'
  <2>1. handler' \in [Handlers -> [step : Steps, key : 0 .. 3]]
    BY <1>4, <1>t DEF SetCooldown, SetBlock5, SetLock24, To, End, Idle, Steps
  <2>2. flags' \subseteq Flags /\ UNCHANGED <<counter, ttl, orphaned, wrong, crashes>>
    BY <1>4, <1>t DEF SetCooldown, SetBlock5, SetLock24, historyVars, Flags
  <2> QED BY <1>t, <1>w, <2>1, <2>2 DEF TypeOK
<1>5. ASSUME NEW h \in Handlers, IncrSends(h) \/ IncrFails(h) \/ IncrBlockCount(h)
      PROVE  TypeOK'
  <2>1. handler' \in [Handlers -> [step : Steps, key : 0 .. 3]]
    BY <1>5, <1>t DEF IncrSends, IncrFails, IncrBlockCount, To, End, Idle, Steps, ExpireStep
  <2>2. UNCHANGED <<flags, ttl, orphaned, wrong, crashes>>
    BY <1>5 DEF IncrSends, IncrFails, IncrBlockCount, historyVars
  <2>3. PICK c \in Counters : Incr(c)
    BY <1>5 DEF IncrSends, IncrFails, IncrBlockCount, Counters
  <2>4. /\ counter' \in [Counters -> Nat]
        /\ \A b \in Counters : counter'[b] <= Cap[b] /\ (counter[b] > 0 => counter'[b] > 0)
    BY <2>3, Incremented
  <2> QED BY <1>t, <1>w, <2>1, <2>2, <2>4 DEF TypeOK
<1>6. ASSUME NEW h \in Handlers, CheckVerification(h)
      PROVE  TypeOK'
  <2>1. handler' \in [Handlers -> [step : Steps, key : 0 .. 3]]
    BY <1>6, <1>t DEF CheckVerification, To, End, Idle, Steps
  <2>2. UNCHANGED <<flags, counter, ttl, orphaned, crashes>>
    BY <1>6 DEF CheckVerification, redisVars
  <2>3. wrong' \in 0 .. MostWrong + 1
    BY <1>6, <1>t, <1>m DEF CheckVerification
  <2> QED BY <1>t, <1>w, <2>1, <2>2, <2>3 DEF TypeOK
<1>7. ASSUME NEW h \in Handlers, DelFails(h) \/ RecordSuccess(h)
      PROVE  TypeOK'
  <2>1. handler' \in [Handlers -> [step : Steps, key : 0 .. 3]]
    BY <1>7, <1>t DEF DelFails, RecordSuccess, To, End, Idle, Steps
  <2>2. /\ flags' \subseteq Flags /\ orphaned' \subseteq Counters
        /\ counter' \in [Counters -> Nat]
        /\ \A c \in Counters : counter'[c] <= Cap[c]
        /\ ttl' \subseteq {c \in Counters : counter'[c] > 0}
    BY <1>7, <1>t, <1>c DEF DelFails, RecordSuccess
  <2>3. wrong' \in 0 .. MostWrong' + 1 /\ UNCHANGED crashes
    BY <1>7, <1>t, <1>w, <1>m DEF DelFails, RecordSuccess
  <2> QED BY <1>t, <2>1, <2>2, <2>3 DEF TypeOK
<1>8. ASSUME NEW h \in Handlers, NEW c \in Counters, SetExpiry(h, c)
      PROVE  TypeOK'
  <2>1. handler' \in [Handlers -> [step : Steps, key : 0 .. 3]]
    BY <1>8, <1>t DEF SetExpiry, End, Idle, Steps
  <2>2. /\ ttl' \subseteq {b \in Counters : counter[b] > 0}
        /\ UNCHANGED <<flags, counter, orphaned, wrong, crashes>>
    BY <1>8, <1>t DEF SetExpiry, historyVars
  <2> QED BY <1>t, <1>w, <2>1, <2>2 DEF TypeOK
<1>9. CASE Crash
  <2>1. /\ handler' \in [Handlers -> [step : Steps, key : 0 .. 3]]
        /\ orphaned' \subseteq Counters
        /\ UNCHANGED <<flags, counter, ttl, wrong>>
    BY <1>9, <1>t DEF Crash, Idle, Steps, redisVars
  <2>2. crashes' = crashes + 1 /\ crashes' \in 0 .. MaxCrashes
    BY <1>9, <1>t, <1>n DEF Crash
  <2>3. MostWrong' \in Nat /\ MostWrong' = 2 * N + crashes' * N
    BY <1>n, <2>2 DEF MostWrong, FAILS_BEFORE_BLOCK, N
  <2>4. wrong \in 0 .. MostWrong' + 1
    BY <1>t, <1>n, <1>m, <2>2, <2>3
  <2> QED BY <1>t, <2>1, <2>2, <2>4 DEF TypeOK
<1>10. CASE UNCHANGED vars
  BY <1>10, <1>t, <1>w DEF vars, redisVars, historyVars, TypeOK
<1> QED BY <1>1, <1>2, <1>3, <1>4, <1>5, <1>6, <1>7, <1>8, <1>9, <1>10 DEF Next

\* The keys of one number hold what the commands write to them, and an expiry
\* is only ever on a counter that is there (otp-throttle.service.ts:45-94).
THEOREM TypeCorrect == Spec => []TypeOK
BY InitTypes, NextTypes, PTL DEF Spec

-----------------------------------------------------------------------------
(* Every counter has an expiry.  The command that brings a counter into    *)
(* being leaves its handler in front of the EXPIRE, and no other step      *)
(* takes a handler away from there.                                        *)

LEMMA NextCountersExpire == TypeOK /\ CountersExpire /\ [Next]_vars => CountersExpire'
<1> SUFFICES ASSUME TypeOK, CountersExpire, [Next]_vars,
                    NEW c \in Counters, counter'[c] > 0, c \notin ttl' \cup orphaned'
             PROVE  \E h \in Handlers : handler'[h].step = ExpireStep[c]
  BY DEF CountersExpire, At
<1>t. /\ counter \in [Counters -> Nat]
      /\ handler \in [Handlers -> [step : Steps, key : 0 .. 3]]
  BY DEF TypeOK
<1>x. counter[c] > 0 => \/ c \in ttl \cup orphaned
                        \/ \E h \in Handlers : handler[h].step = ExpireStep[c]
  BY DEF CountersExpire, At
<1>e. /\ ExpireStep[c] \in {"expireSends", "expireFails", "expireBlockCount"}
      /\ \A b \in Counters \ {c} : ExpireStep[b] # ExpireStep[c]
  BY DEF ExpireStep, Counters
\* A step of a handler that is not in front of this EXPIRE.
<1>a. ASSUME NEW h \in Handlers, NEW from, NEW to, Moves(h, from, to), from # ExpireStep[c],
             counter[c] > 0, ttl \cup orphaned \subseteq ttl' \cup orphaned'
      PROVE  \E g \in Handlers : handler'[g].step = ExpireStep[c]
  BY <1>a, <1>x DEF Moves
<1>1. ASSUME NEW key \in Flags \cup Counters, Expire(key)
      PROVE  \E h \in Handlers : handler'[h].step = ExpireStep[c]
  <2>1. UNCHANGED <<handler, orphaned>>
    BY <1>1 DEF Expire
  <2>2. CASE key = c
    <3>1. UNCHANGED <<counter, ttl>>
      BY <1>1, <1>t, <2>2 DEF Expire, Flags, Counters
    <3> QED BY <1>x, <2>1, <3>1
  <2>3. CASE key # c
    <3>1. counter[c] > 0 /\ c \notin ttl
      BY <1>1, <1>t, <2>3 DEF Expire
    <3> QED BY <1>x, <2>1, <3>1
  <2> QED BY <2>2, <2>3
<1>2. ASSUME NEW h \in Handlers, AssertCanSend(h) \/ AssertCanCheck(h)
      PROVE  \E g \in Handlers : handler'[g].step = ExpireStep[c]
  <2>1. UNCHANGED <<counter, ttl, orphaned>>
    BY <1>2 DEF AssertCanSend, AssertCanCheck, AssertFree, redisVars, historyVars
  <2>2. PICK from \in {"assertCanSend", "assertCanCheck"}, to \in Steps : Moves(h, from, to)
    BY <1>2, <1>t, Asserted DEF Steps
  <2> QED BY <1>a, <1>e, <2>1, <2>2
<1>3. ASSUME NEW h \in Handlers,
             StartOtp(h) \/ CheckOtp(h) \/ GetSends(h) \/ StartVerification(h)
               \/ SetCooldown(h) \/ CheckVerification(h) \/ SetBlock5(h) \/ SetLock24(h)
      PROVE  \E g \in Handlers : handler'[g].step = ExpireStep[c]
  <2>1. UNCHANGED <<counter, ttl, orphaned>>
    BY <1>3 DEF StartOtp, CheckOtp, Begin, GetSends, StartVerification, SetCooldown,
                CheckVerification, SetBlock5, SetLock24, redisVars, historyVars
  <2>2. PICK from \in {"idle", "getSends", "startVerification", "setCooldown",
                       "checkVerification", "setBlock5", "setLock24"},
             to \in Steps : Moves(h, from, to)
    BY <1>3, <1>t, Commands DEF Steps
  <2> QED BY <1>a, <1>e, <2>1, <2>2
\* INCR of this counter or of another one.
<1>4. ASSUME NEW h \in Handlers, NEW b \in Counters, Incr(b), UNCHANGED <<ttl, orphaned>>,
             NEW from \in {"incrSends", "incrFails", "incrBlockCount"}, NEW to \in Steps,
             Moves(h, from, to), FirstOnly(counter[b] + 1) => to = ExpireStep[b]
      PROVE  \E g \in Handlers : handler'[g].step = ExpireStep[c]
  <2>1. b # c => counter'[c] = counter[c]
    BY <1>4, Incremented
  <2>2. CASE counter[c] = 0
    <3>1. b = c
      BY <2>1, <2>2
    <3>2. FirstOnly(counter[b] + 1)
      BY <2>2, <3>1 DEF FirstOnly
    <3> QED BY <1>4, <3>1, <3>2 DEF Moves
  <2>3. CASE counter[c] # 0
    <3>1. counter[c] > 0
      BY <1>t, <2>3
    <3> QED BY <1>a, <1>e, <1>4, <3>1
  <2> QED BY <2>2, <2>3
<1>5. ASSUME NEW h \in Handlers, IncrSends(h)
      PROVE  \E g \in Handlers : handler'[g].step = ExpireStep[c]
  <2>1. Incr("sends") /\ "sends" \in Counters /\ UNCHANGED <<ttl, orphaned>>
    BY <1>5 DEF IncrSends, Counters, historyVars
  <2>2. PICK to \in Steps : /\ Moves(h, "incrSends", to)
                            /\ FirstOnly(counter["sends"] + 1) => to = ExpireStep["sends"]
    BY <1>5, <1>t, Commands DEF Steps, ExpireStep
  <2> QED BY <1>4, <2>1, <2>2
<1>6. ASSUME NEW h \in Handlers, IncrFails(h)
      PROVE  \E g \in Handlers : handler'[g].step = ExpireStep[c]
  <2>1. Incr("fails") /\ "fails" \in Counters /\ UNCHANGED <<ttl, orphaned>>
    BY <1>6 DEF IncrFails, Counters, historyVars
  <2>2. PICK to \in Steps : /\ Moves(h, "incrFails", to)
                            /\ FirstOnly(counter["fails"] + 1) => to = ExpireStep["fails"]
    BY <1>6, <1>t, Commands DEF Steps, ExpireStep
  <2> QED BY <1>4, <2>1, <2>2
<1>7. ASSUME NEW h \in Handlers, IncrBlockCount(h)
      PROVE  \E g \in Handlers : handler'[g].step = ExpireStep[c]
  <2>1. Incr("blockCount") /\ "blockCount" \in Counters /\ UNCHANGED <<ttl, orphaned>>
    BY <1>7 DEF IncrBlockCount, Counters, historyVars
  <2>2. PICK to \in Steps :
          /\ Moves(h, "incrBlockCount", to)
          /\ FirstOnly(counter["blockCount"] + 1) => to = ExpireStep["blockCount"]
    BY <1>7, <1>t, Commands DEF Steps, ExpireStep
  <2> QED BY <1>4, <2>1, <2>2
<1>8. ASSUME NEW h \in Handlers, DelFails(h)
      PROVE  \E g \in Handlers : handler'[g].step = ExpireStep[c]
  <2>1. c # "fails" /\ counter[c] > 0 /\ c \notin ttl \cup orphaned
    BY <1>8, <1>t DEF DelFails
  <2>2. Moves(h, "delFails", "incrBlockCount")
    BY <1>8, <1>t, Commands
  <2> QED BY <1>x, <1>e, <2>1, <2>2 DEF Moves
<1>9. ASSUME NEW h \in Handlers, RecordSuccess(h)
      PROVE  \E g \in Handlers : handler'[g].step = ExpireStep[c]
  BY <1>9 DEF RecordSuccess
<1>10. ASSUME NEW h \in Handlers, NEW b \in Counters, SetExpiry(h, b)
       PROVE  \E g \in Handlers : handler'[g].step = ExpireStep[c]
  <2>1. /\ UNCHANGED <<counter, orphaned>>
        /\ ttl' = IF counter[b] > 0 THEN ttl \cup {b} ELSE ttl
    BY <1>10 DEF SetExpiry, historyVars
  <2>2. b # c /\ ExpireStep[b] # ExpireStep[c]
    BY <1>e, <2>1
  <2>3. Moves(h, ExpireStep[b], "idle")
    BY <1>10, <1>t, Commands
  <2> QED BY <1>a, <2>1, <2>2, <2>3
<1>11. CASE Crash
  <2>1. UNCHANGED <<counter, ttl>> /\ c \notin orphaned
    BY <1>11 DEF Crash, redisVars
  <2>2. ~ \E h \in Handlers : handler[h].step = ExpireStep[c]
    BY <1>11 DEF Crash, At
  <2> QED BY <1>x, <2>1, <2>2
<1>12. CASE UNCHANGED vars
  BY <1>12, <1>x DEF vars, redisVars, historyVars
<1> QED BY <1>1, <1>2, <1>3, <1>5, <1>6, <1>7, <1>8, <1>9, <1>10, <1>11, <1>12 DEF Next

-----------------------------------------------------------------------------
(* Codes in an hour.  A request past the limit's check counts as sent until *)
(* its INCR is done; GetSends lets one more by only below the limit.       *)

Sending == {"startVerification", "setCooldown", "incrSends"}

SendsInv == counter["sends"] + NumberAt(handler, Sending) <= MAX_SENDS_PER_HOUR - 1 + N

LEMMA NextSends == TypeOK /\ SendsInv /\ [Next]_vars => SendsInv'
<1> SUFFICES ASSUME TypeOK, SendsInv, [Next]_vars PROVE SendsInv'
  OBVIOUS
<1> DEFINE m  == NumberAt(handler, Sending)
           m2 == NumberAt(handler', Sending)
<1>t. /\ counter \in [Counters -> Nat]
      /\ counter' \in [Counters -> Nat]
      /\ handler \in [Handlers -> [step : Steps, key : 0 .. 3]]
      /\ "sends" \in Counters
  BY NextTypes DEF TypeOK, Counters
<1>n. N \in Nat /\ m \in 0 .. N /\ m2 \in 0 .. N
  <2>1. N \in Nat
    BY ThrottleConstants, FS_CardinalityType DEF N
  <2> QED BY <2>1, Numbers
<1>i. counter["sends"] + m <= 2 + N
  BY <1>t, <1>n DEF SendsInv, MAX_SENDS_PER_HOUR
<1>g. ASSUME counter'["sends"] + m2 <= 2 + N PROVE SendsInv'
  BY <1>n, <1>g DEF SendsInv, MAX_SENDS_PER_HOUR
<1>m. ASSUME NEW h \in Handlers, NEW from, NEW to, Moves(h, from, to)
      PROVE  m2 + One(from \in Sending) = m + One(to \in Sending)
  BY <1>m, Moved DEF Moves
<1> HIDE DEF m, m2
\* Nobody joins those past the check.
<1>a. ASSUME NEW h \in Handlers, NEW from, NEW to, Moves(h, from, to),
             to \in Sending => from \in Sending, counter'["sends"] <= counter["sends"]
      PROVE  SendsInv'
  <2>1. m2 <= m
    BY <1>a, <1>m, <1>n DEF One
  <2> QED BY <1>a, <1>g, <1>i, <1>n, <1>t, <2>1
<1>1. ASSUME NEW key \in Flags \cup Counters, Expire(key)
      PROVE  SendsInv'
  <2>1. counter'["sends"] <= counter["sends"] /\ handler' = handler
    BY <1>1, <1>t DEF Expire
  <2> QED BY <1>g, <1>i, <1>n, <1>t, <2>1 DEF m, m2
<1>2. ASSUME NEW h \in Handlers,
             AssertCanSend(h) \/ AssertCanCheck(h) \/ StartOtp(h) \/ CheckOtp(h)
               \/ CheckVerification(h) \/ SetBlock5(h) \/ SetLock24(h)
               \/ StartVerification(h) \/ SetCooldown(h)
      PROVE  SendsInv'
  <2>1. UNCHANGED counter
    BY <1>2 DEF AssertCanSend, AssertCanCheck, AssertFree, StartOtp, CheckOtp, Begin,
                CheckVerification, SetBlock5, SetLock24, StartVerification, SetCooldown,
                redisVars
  <2>2. PICK from \in Steps, to \in Steps :
          Moves(h, from, to) /\ (to \in Sending => from \in Sending)
    <3>1. CASE AssertCanSend(h) \/ AssertCanCheck(h)
      BY <1>t, <3>1, Asserted DEF Sending, Steps
    <3>2. CASE StartOtp(h) \/ CheckOtp(h) \/ CheckVerification(h) \/ SetBlock5(h)
                 \/ SetLock24(h)
      BY <1>t, <3>2, Commands DEF Sending, Steps
    <3>3. CASE StartVerification(h) \/ SetCooldown(h)
      BY <1>t, <3>3, Commands DEF Sending, Steps
    <3> QED BY <1>2, <3>1, <3>2, <3>3
  <2> QED BY <1>a, <1>t, <2>1, <2>2
<1>3. ASSUME NEW h \in Handlers, GetSends(h)
      PROVE  SendsInv'
  <2>1. UNCHANGED counter
    BY <1>3 DEF GetSends, redisVars
  <2>2. CASE Moves(h, "getSends", "startVerification") /\ SendsLeft
    <3>1. counter["sends"] <= 2
      BY <1>t, <2>2 DEF SendsLeft, MAX_SENDS_PER_HOUR
    <3> QED BY <1>g, <1>n, <1>t, <2>1, <3>1
  <2>3. CASE Moves(h, "getSends", "idle")
    BY <1>a, <1>t, <2>1, <2>3 DEF Sending
  <2> QED BY <1>3, <1>t, <2>2, <2>3, Commands
<1>4. ASSUME NEW h \in Handlers, IncrSends(h)
      PROVE  SendsInv'
  <2>1. PICK to \in {"expireSends", "idle"} : Moves(h, "incrSends", to)
    BY <1>4, <1>t, Commands
  <2>2. m2 = m - 1
    BY <1>m, <1>n, <2>1 DEF One, Sending
  <2>3. counter'["sends"] <= counter["sends"] + 1
    BY <1>4, <1>t, Incremented DEF IncrSends
  <2> QED BY <1>g, <1>i, <1>n, <1>t, <2>2, <2>3
<1>5. ASSUME NEW h \in Handlers, IncrFails(h) \/ IncrBlockCount(h)
      PROVE  SendsInv'
  <2>1. counter'["sends"] = counter["sends"]
    BY <1>5, <1>t, Incremented DEF IncrFails, IncrBlockCount, Counters
  <2>2. PICK from \in Steps, to \in Steps \ Sending : Moves(h, from, to)
    BY <1>5, <1>t, Commands DEF Steps, Sending
  <2> QED BY <1>a, <1>t, <2>1, <2>2
<1>6. ASSUME NEW h \in Handlers, DelFails(h) \/ RecordSuccess(h)
      PROVE  SendsInv'
  <2>1. counter'["sends"] <= counter["sends"]
    BY <1>6, <1>t DEF DelFails, RecordSuccess
  <2>2. PICK from \in Steps, to \in Steps \ Sending : Moves(h, from, to)
    BY <1>6, <1>t, Commands DEF Steps, Sending
  <2> QED BY <1>a, <2>1, <2>2
<1>7. ASSUME NEW h \in Handlers, NEW c \in Counters, SetExpiry(h, c)
      PROVE  SendsInv'
  <2>1. UNCHANGED counter
    BY <1>7 DEF SetExpiry
  <2>2. Moves(h, ExpireStep[c], "idle")
    BY <1>7, <1>t, Commands
  <2> QED BY <1>a, <1>t, <2>1, <2>2 DEF Sending
<1>8. CASE Crash
  <2>1. UNCHANGED counter /\ \A h \in Handlers : handler'[h].step = "idle"
    BY <1>8 DEF Crash, Idle, redisVars
  <2>2. m2 = 0
    BY <2>1, NobodyAt DEF m2, Sending
  <2> QED BY <1>g, <1>i, <1>n, <1>t, <2>1, <2>2
<1>9. CASE UNCHANGED vars
  BY <1>9, <1>g, <1>i DEF vars, redisVars, m, m2
<1> QED BY <1>1, <1>2, <1>3, <1>4, <1>5, <1>6, <1>7, <1>8, <1>9 DEF Next

-----------------------------------------------------------------------------
(* Refused codes before the pause.  While the pause is on, only requests   *)
(* past assertCanCheck can still have one refused.  While it is off, each  *)
(* refused code is at an INCR or on the way to SET block5, or has been the *)
(* first on a counter that was gone, which every DEL under way makes       *)
(* possible once more.                                                     *)

Checking == {"checkVerification"}
Counting == {"incrFails", "setBlock5"}
Deleting == {"delFails"}

\* First failures still to come before the pause, one at most for each handler.
FirstFailures(fails, deleting) == 
  LET some == One(fails = 0) + deleting IN IF some < N THEN some ELSE N

TriesInv ==
  IF "block5" \in flags
  THEN wrong + NumberAt(handler, Checking) <= MostWrong
  ELSE wrong + FirstFailures(counter["fails"], NumberAt(handler, Deleting))
         + (N - NumberAt(handler, Counting)) <= MostWrong

LEMMA NextTries == TypeOK /\ TriesInv /\ [Next]_vars => TriesInv'
<1> SUFFICES ASSUME TypeOK, TriesInv, [Next]_vars PROVE TriesInv'
  OBVIOUS
<1> DEFINE a  == NumberAt(handler, Checking)
           i  == NumberAt(handler, Counting)
           d  == NumberAt(handler, Deleting)
           a2 == NumberAt(handler', Checking)
           i2 == NumberAt(handler', Counting)
           d2 == NumberAt(handler', Deleting)
           fails  == counter["fails"]
           fails2 == counter'["fails"]
<1>t. /\ counter \in [Counters -> Nat]
      /\ counter' \in [Counters -> Nat]
      /\ handler \in [Handlers -> [step : Steps, key : 0 .. 3]]
      /\ "fails" \in Counters
  BY NextTypes DEF TypeOK, Counters
<1>n. N \in Nat
  BY ThrottleConstants, FS_CardinalityType DEF N
<1>f. fails \in Nat /\ fails2 \in Nat
  BY <1>t
<1>w. wrong \in Nat /\ wrong' \in Nat
  <2>1. crashes \in Nat /\ crashes' \in Nat
    BY NextTypes, ThrottleConstants DEF TypeOK
  <2>2. MostWrong \in Nat /\ MostWrong' \in Nat
    BY <2>1, <1>n DEF MostWrong, N, FAILS_BEFORE_BLOCK
  <2> QED BY <2>2, NextTypes DEF TypeOK
<1>c. /\ MostWrong \in Nat /\ MostWrong' \in Nat
      /\ MostWrong >= 2 * N /\ MostWrong' >= 2 * N
      /\ UNCHANGED crashes => MostWrong' = MostWrong
      /\ crashes' = crashes + 1 => MostWrong' = MostWrong + N
  <2>1. crashes \in Nat /\ crashes' \in Nat
    BY NextTypes, ThrottleConstants DEF TypeOK
  <2>2. MostWrong = 2 * N + crashes * N /\ MostWrong' = 2 * N + crashes' * N
    BY <2>1, <1>n DEF MostWrong, N, FAILS_BEFORE_BLOCK
  <2>3. crashes * N \in Nat /\ crashes' * N \in Nat
    BY <2>1, <1>n, Product
  <2>4. (crashes + 1) * N = crashes * N + N
    BY <2>1, <1>n
  <2> QED BY <1>n, <2>2, <2>3, <2>4
<1>b. /\ a \in 0 .. N /\ i \in 0 .. N /\ d \in 0 .. N
      /\ a2 \in 0 .. N /\ i2 \in 0 .. N /\ d2 \in 0 .. N
  BY Numbers
<1>p. a + i <= N
  BY Apart DEF Checking, Counting
<1>m. ASSUME NEW h \in Handlers, NEW from, NEW to, Moves(h, from, to)
      PROVE  /\ a2 + One(from \in Checking) = a + One(to \in Checking)
             /\ i2 + One(from \in Counting) = i + One(to \in Counting)
             /\ d2 + One(from \in Deleting) = d + One(to \in Deleting)
  <2>1. \A g \in Handlers \ {h} : handler'[g] = handler[g]
    BY <1>m DEF Moves
  <2>2. handler[h].step = from /\ handler'[h].step = to
    BY <1>m DEF Moves
  <2>3. a2 + One(from \in Checking) = a + One(to \in Checking)
    BY <2>1, <2>2, Moved
  <2>4. i2 + One(from \in Counting) = i + One(to \in Counting)
    BY <2>1, <2>2, Moved
  <2>5. d2 + One(from \in Deleting) = d + One(to \in Deleting)
    BY <2>1, <2>2, Moved
  <2> QED BY <2>3, <2>4, <2>5
<1>o. ASSUME NEW h \in Handlers, NEW from, NEW to, Moves(h, from, to), from \notin Deleting
      PROVE  d <= N - 1
  BY <1>o, Numbers DEF Moves
<1>i. TriesInv <=>
        IF "block5" \in flags THEN wrong + a <= MostWrong
        ELSE wrong + FirstFailures(fails, d) + (N - i) <= MostWrong
  BY DEF TriesInv
<1>j. TriesInv' <=>
        IF "block5" \in flags' THEN wrong' + a2 <= MostWrong'
        ELSE wrong' + FirstFailures(fails2, d2) + (N - i2) <= MostWrong'
  BY DEF TriesInv
<1> HIDE DEF a, i, d, a2, i2, d2, fails, fails2
<1>F. /\ FirstFailures(fails, d) \in 0 .. N
      /\ FirstFailures(fails2, d2) \in 0 .. N
      /\ One(fails2 = 0) + d2 <= One(fails = 0) + d
           => FirstFailures(fails2, d2) <= FirstFailures(fails, d)
  BY <1>n, <1>b, <1>f DEF FirstFailures, One
\* The tries start anew.
<1>z. ASSUME wrong' = 0 PROVE TriesInv'
  BY <1>z, <1>n, <1>b, <1>c, <1>F, <1>j
\* A step that brings no refused code and takes none off the way to the pause.
<1>k. ASSUME "block5" \in flags' <=> "block5" \in flags,
             UNCHANGED <<wrong, crashes>>,
             "block5" \in flags => a2 <= a,
             i <= i2,
             One(fails2 = 0) + d2 <= One(fails = 0) + d
      PROVE  TriesInv'
  BY <1>k, <1>n, <1>b, <1>c, <1>w, <1>F, <1>i, <1>j
\* A step between others than those.
<1>s. ASSUME NEW h \in Handlers, NEW from, NEW to, Moves(h, from, to),
             {from, to} \cap (Checking \cup Counting \cup Deleting) = {},
             "block5" \in flags' <=> "block5" \in flags,
             UNCHANGED <<wrong, crashes>>,
             fails2 = fails
      PROVE  TriesInv'
  <2>1. a2 = a /\ i2 = i /\ d2 = d
    BY <1>s, <1>m, <1>b DEF One
  <2> QED BY <1>s, <1>k, <1>b, <2>1 DEF One
<1>1. ASSUME NEW key \in Flags \cup Counters, Expire(key)
      PROVE  TriesInv'
  <2>1. CASE key \in {"block5", "fails"}
    BY <1>1, <1>z, <2>1 DEF Expire
  <2>2. CASE key \notin {"block5", "fails"}
    <3>1. /\ "block5" \in flags' <=> "block5" \in flags
          /\ UNCHANGED <<wrong, crashes, handler>>
          /\ fails2 = fails
      BY <1>1, <1>t, <2>2 DEF Expire, fails, fails2
    <3>2. a2 = a /\ i2 = i /\ d2 = d
      BY <3>1 DEF a, i, d, a2, i2, d2
    <3> QED BY <1>k, <1>b, <3>1, <3>2 DEF One
  <2> QED BY <2>1, <2>2
<1>2. ASSUME NEW h \in Handlers,
             AssertCanSend(h) \/ StartOtp(h) \/ CheckOtp(h) \/ GetSends(h)
               \/ StartVerification(h) \/ SetCooldown(h) \/ SetLock24(h)
      PROVE  TriesInv'
  <2>1. /\ "block5" \in flags' <=> "block5" \in flags
        /\ UNCHANGED <<wrong, crashes, counter>>
    BY <1>2 DEF AssertCanSend, AssertFree, StartOtp, CheckOtp, Begin, GetSends,
                StartVerification, SetCooldown, SetLock24, redisVars, historyVars
  <2>2. PICK from, to :
          /\ Moves(h, from, to)
          /\ {from, to} \cap (Checking \cup Counting \cup Deleting) = {}
    <3>1. CASE AssertCanSend(h)
      BY <1>t, <3>1, Asserted DEF Checking, Counting, Deleting
    <3>2. CASE ~AssertCanSend(h)
      BY <1>2, <1>t, <3>2, Commands DEF Checking, Counting, Deleting
    <3> QED BY <3>1, <3>2
  <2> QED BY <1>s, <2>1, <2>2 DEF fails, fails2
<1>3. ASSUME NEW h \in Handlers, IncrSends(h) \/ IncrBlockCount(h)
      PROVE  TriesInv'
  <2>1. UNCHANGED <<flags, wrong, crashes>>
    BY <1>3 DEF IncrSends, IncrBlockCount, historyVars
  <2>2. fails2 = fails
    BY <1>3, Incremented DEF IncrSends, IncrBlockCount, Counters, fails, fails2
  <2>3. PICK from, to :
          /\ Moves(h, from, to)
          /\ {from, to} \cap (Checking \cup Counting \cup Deleting) = {}
    BY <1>3, <1>t, Commands DEF Checking, Counting, Deleting
  <2> QED BY <1>s, <2>1, <2>2, <2>3
<1>4. ASSUME NEW h \in Handlers, NEW c \in Counters, SetExpiry(h, c)
      PROVE  TriesInv'
  <2>1. UNCHANGED <<flags, counter, wrong, crashes>>
    BY <1>4 DEF SetExpiry, historyVars
  <2>2. /\ Moves(h, ExpireStep[c], "idle")
        /\ {ExpireStep[c], "idle"} \cap (Checking \cup Counting \cup Deleting) = {}
    BY <1>4, <1>t, Commands DEF ExpireStep, Counters, Checking, Counting, Deleting
  <2> QED BY <1>s, <2>1, <2>2 DEF fails, fails2
<1>5. ASSUME NEW h \in Handlers, AssertCanCheck(h)
      PROVE  TriesInv'
  <2>1. UNCHANGED <<flags, wrong, crashes, counter>>
    BY <1>5 DEF AssertCanCheck, AssertFree, redisVars, historyVars
  <2>2. CASE \E s \in {"assertCanCheck", "idle"} : Moves(h, "assertCanCheck", s)
    <3>1. PICK s \in {"assertCanCheck", "idle"} : Moves(h, "assertCanCheck", s)
      BY <2>2
    <3>2. {"assertCanCheck", s} \cap (Checking \cup Counting \cup Deleting) = {}
      BY DEF Checking, Counting, Deleting
    <3> QED BY <1>s, <2>1, <3>1, <3>2 DEF fails, fails2
  <2>3. CASE Moves(h, "assertCanCheck", "checkVerification") /\ "block5" \notin flags
    <3>1. i2 = i /\ d2 = d
      BY <1>m, <1>b, <2>3 DEF One, Checking, Counting, Deleting
    <3>2. fails2 = fails
      BY <2>1 DEF fails, fails2
    <3> QED BY <1>k, <1>b, <2>1, <2>3, <3>1, <3>2 DEF One
  <2> QED BY <1>5, <1>t, <2>2, <2>3, Asserted
<1>6. ASSUME NEW h \in Handlers, CheckVerification(h)
      PROVE  TriesInv'
  <2>1. UNCHANGED <<flags, counter, crashes>> /\ fails2 = fails
    BY <1>6 DEF CheckVerification, redisVars, fails, fails2
  <2>2. PICK s \in {"recordSuccess", "incrFails", "idle"} :
          /\ Moves(h, "checkVerification", s)
          /\ wrong' = IF s = "incrFails" /\ ~(wrong > MostWrong) THEN wrong + 1 ELSE wrong
    BY <1>6, <1>t, Commands
  <2>3. a2 = a - 1 /\ d2 = d /\ i2 = i + One(s = "incrFails")
    BY <1>m, <1>b, <2>2 DEF One, Checking, Counting, Deleting
  <2>4. CASE s = "incrFails"
    <3>1. wrong' <= wrong + 1 /\ i2 = i + 1
      BY <1>w, <2>2, <2>3, <2>4 DEF One
    <3>2. FirstFailures(fails2, d2) = FirstFailures(fails, d)
      BY <2>1, <2>3
    <3>3. CASE "block5" \in flags
      <4>1. wrong + a <= MostWrong
        BY <1>i, <3>3
      <4>2. wrong' + a2 <= MostWrong
        <5>1. a \in Int /\ a2 \in Int
          BY <1>n, <1>b
        <5>2. wrong \in Int /\ wrong' \in Int /\ MostWrong \in Int
          BY <1>w, <1>c
        <5>3. a2 = a - 1 /\ wrong' <= wrong + 1
          BY <2>3, <3>1
        <5>4. \A x, y, v, w, m \in Int : x = y - 1 /\ v <= w + 1 /\ w + y <= m => v + x <= m
          OBVIOUS
        <5> QED BY <4>1, <5>1, <5>2, <5>3, <5>4
      <4>3. MostWrong' = MostWrong /\ "block5" \in flags'
        BY <1>c, <2>1, <3>3
      <4> QED BY <1>j, <4>2, <4>3
    <3>4. CASE "block5" \notin flags
      <4>1. wrong + FirstFailures(fails, d) + (N - i) <= MostWrong
        BY <1>i, <3>4
      <4>2. wrong' + FirstFailures(fails, d) + (N - i2) <= MostWrong
        BY <1>n, <1>b, <1>c, <1>w, <1>F, <3>1, <4>1
      <4> QED BY <1>c, <1>j, <2>1, <3>2, <3>4, <4>2
    <3> QED BY <3>3, <3>4
  <2>5. CASE s # "incrFails"
    <3>1. wrong' = wrong /\ i2 = i
      BY <1>b, <2>2, <2>3, <2>5 DEF One
    <3> QED BY <1>k, <1>b, <2>1, <2>3, <3>1 DEF One
  <2> QED BY <2>4, <2>5
<1>7. ASSUME NEW h \in Handlers, IncrFails(h)
      PROVE  TriesInv'
  <2>1. UNCHANGED <<flags, wrong, crashes>>
    BY <1>7 DEF IncrFails, historyVars
  <2>2. fails2 > 0
    BY <1>7, <1>t, Incremented DEF IncrFails, fails2
  <2>3. CASE fails = 0
    <3>1. Moves(h, "incrFails", "expireFails")
      BY <1>7, <1>t, <2>3, Commands DEF FirstOnly, fails
    <3>2. a2 = a /\ i2 = i - 1 /\ d2 = d
      BY <1>m, <1>b, <3>1 DEF One, Checking, Counting, Deleting
    <3>3. d <= N - 1
      BY <1>o, <3>1 DEF Deleting
    <3>4. FirstFailures(fails, d) = d + 1 /\ FirstFailures(fails2, d2) = d
      BY <1>n, <1>b, <1>f, <2>2, <2>3, <3>2, <3>3 DEF FirstFailures, One
    <3> QED BY <1>n, <1>b, <1>c, <1>w, <1>i, <1>j, <2>1, <3>2, <3>4
  <2>4. CASE fails # 0
    <3>1. Moves(h, "incrFails", "setBlock5")
      BY <1>7, <1>t, <1>f, <2>4, Commands
         DEF FirstOnly, LastFailure, FAILS_BEFORE_BLOCK, fails
    <3>2. a2 = a /\ i2 = i /\ d2 = d
      BY <1>m, <1>b, <3>1 DEF One, Checking, Counting, Deleting
    <3>3. One(fails2 = 0) = 0 /\ One(fails = 0) = 0
      BY <1>f, <2>2, <2>4 DEF One
    <3> QED BY <1>k, <1>b, <2>1, <3>2, <3>3
  <2> QED BY <2>3, <2>4
<1>8. ASSUME NEW h \in Handlers, SetBlock5(h)
      PROVE  TriesInv'
  <2>1. "block5" \in flags' /\ UNCHANGED <<wrong, crashes>>
    BY <1>8 DEF SetBlock5, historyVars
  <2>2. Moves(h, "setBlock5", "delFails")
    BY <1>8, <1>t, Commands
  <2>3. a2 = a
    BY <1>m, <1>b, <2>2 DEF One, Checking
  <2>4. wrong + a <= MostWrong
    BY <1>n, <1>b, <1>c, <1>w, <1>F, <1>i, <1>p
  <2> QED BY <1>c, <1>j, <2>1, <2>3, <2>4
<1>9. ASSUME NEW h \in Handlers, DelFails(h)
      PROVE  TriesInv'
  <2>1. UNCHANGED <<flags, wrong, crashes>> /\ fails2 = 0
    BY <1>9, <1>t DEF DelFails, fails2
  <2>2. Moves(h, "delFails", "incrBlockCount")
    BY <1>9, <1>t, Commands
  <2>3. a2 = a /\ i2 = i /\ d2 = d - 1
    BY <1>m, <1>b, <2>2 DEF One, Checking, Counting, Deleting
  <2>4. One(fails2 = 0) + d2 <= One(fails = 0) + d
    BY <1>b, <1>f, <2>1, <2>3 DEF One
  <2> QED BY <1>k, <1>b, <2>1, <2>3, <2>4
<1>10. ASSUME NEW h \in Handlers, RecordSuccess(h)
       PROVE  TriesInv'
  BY <1>10, <1>z DEF RecordSuccess
<1>11. CASE Crash
  <2>1. /\ UNCHANGED <<flags, counter, wrong>> /\ crashes' = crashes + 1
        /\ \A h \in Handlers : handler'[h].step = "idle"
    BY <1>11 DEF Crash, Idle, redisVars
  <2>2. a2 = 0 /\ d2 = 0
    BY <2>1, NobodyAt DEF a2, d2, Checking, Deleting
  <2>3. One(fails2 = 0) + d2 <= One(fails = 0) + d
    BY <1>b, <2>1, <2>2 DEF One, fails, fails2
  <2> QED BY <1>n, <1>b, <1>c, <1>w, <1>F, <1>i, <1>j, <2>1, <2>2, <2>3
<1>12. CASE UNCHANGED vars
  <2>1. UNCHANGED <<flags, counter, handler, wrong, crashes>>
    BY <1>12 DEF vars, redisVars, historyVars
  <2>2. a2 = a /\ i2 = i /\ d2 = d /\ fails2 = fails
    BY <2>1 DEF a, i, d, a2, i2, d2, fails, fails2
  <2> QED BY <1>k, <1>b, <2>1, <2>2 DEF One
<1> QED BY <1>1, <1>2, <1>3, <1>4, <1>5, <1>6, <1>7, <1>8, <1>9, <1>10, <1>11, <1>12
        DEF Next

-----------------------------------------------------------------------------

LEMMA InitLadder == Init => CountersExpire /\ SendsInv /\ TriesInv
<1> SUFFICES ASSUME Init PROVE CountersExpire /\ SendsInv /\ TriesInv
  OBVIOUS
<1>1. N \in Nat /\ crashes \in Nat /\ MostWrong \in Nat /\ MostWrong = 2 * N + crashes * N
  BY ThrottleConstants, FS_CardinalityType, MostWrongType DEF Init, N
<1>2. MostWrong = 2 * N
  BY <1>1 DEF Init
<1>3. CountersExpire
  BY DEF Init, CountersExpire, Counters
<1>4. \A h \in Handlers : handler[h].step = "idle"
  BY DEF Init, Idle
<1>5. NumberAt(handler, Sending) = 0
  BY <1>4, NobodyAt DEF Sending
<1>6. NumberAt(handler, Deleting) = 0 /\ NumberAt(handler, Counting) = 0
  BY <1>4, NobodyAt DEF Deleting, Counting
<1>7. counter["sends"] = 0 /\ counter["fails"] = 0 /\ wrong = 0 /\ flags = {}
  BY DEF Init, Counters
<1>8. SendsInv
  BY <1>1, <1>5, <1>7 DEF SendsInv, MAX_SENDS_PER_HOUR
<1>9. FirstFailures(0, 0) <= N
  BY <1>1 DEF FirstFailures, One
<1>10. FirstFailures(0, 0) \in Nat
  BY <1>1 DEF FirstFailures, One
<1>11. TriesInv
  BY <1>1, <1>2, <1>6, <1>7, <1>9, <1>10 DEF TriesInv
<1> QED BY <1>3, <1>8, <1>11

\* However many requests for one number interleave, whatever expires in between
\* and wherever the process stops: every counter has an expiry or is about to,
\* and no limit is passed but by the requests that were past it already
\* (otp-throttle.service.ts:45-94).
THEOREM Ladder == Spec => []LadderHolds
<1>1. TypeOK /\ SendsInv => SendsBounded
  <2> SUFFICES ASSUME TypeOK, SendsInv PROVE SendsBounded
    OBVIOUS
  <2>1. counter["sends"] \in Nat
    BY DEF TypeOK, Counters
  <2>2. NumberAt(handler, Sending) \in 0 .. N /\ N \in Nat
    BY Numbers
  <2> QED BY <2>1, <2>2 DEF SendsInv, SendsBounded, MAX_SENDS_PER_HOUR, N
<1>2. TypeOK /\ TriesInv => TriesBounded
  <2> SUFFICES ASSUME TypeOK, TriesInv PROVE TriesBounded
    OBVIOUS
  <2>1. crashes \in Nat
    BY ThrottleConstants DEF TypeOK
  <2>2. MostWrong \in Nat /\ wrong \in Nat
    BY <2>1, MostWrongType DEF TypeOK
  <2>3. /\ N \in Nat /\ NumberAt(handler, Checking) \in 0 .. N
        /\ NumberAt(handler, Counting) \in 0 .. N /\ NumberAt(handler, Deleting) \in 0 .. N
    BY Numbers
  <2>4. FirstFailures(counter["fails"], NumberAt(handler, Deleting)) \in Nat
    BY <2>3 DEF FirstFailures, One
  <2> QED BY <2>2, <2>3, <2>4 DEF TriesInv, TriesBounded
<1>3. CountersExpire /\ SendsBounded /\ TriesBounded => LadderHolds
  BY DEF LadderHolds
<1> QED BY InitTypes, InitLadder, NextTypes, NextCountersExpire, NextSends, NextTries,
           <1>1, <1>2, <1>3, PTL DEF Spec
=============================================================================
