------------------------- MODULE RateLimiterProofs --------------------------
(***************************************************************************)
(* Theorems about RateLimiter for any keys, requests, limits and lengths   *)
(* of the window and the day: the daily limit is kept, the remaining       *)
(* quota is exact, and the limiter implements Quota.                       *)
(*                                                                         *)
(* The table holds one counter per key, and the entry may be of an earlier *)
(* date or missing. CountIsExact says what it stands for all the same: the *)
(* number of calls granted to the key today.                               *)
(***************************************************************************)
EXTENDS RateLimiter, TLAPS, FiniteSetTheorems

(* A call that was not made yet was not granted, and no grant is of a date *)
(* still to come.                                                          *)
GrantsArePast ==
  /\ \A c \in Calls : grantDate[c] <= today
  /\ \A r \in Requests :
       /\ at[r] = "arriving" => grantDate[<<r, "middleware">>] = 0
       /\ at[r] \in {"arriving", "execute"} => grantDate[<<r, "execute">>] = 0

CountIsExact ==
  \A k \in Keys : UsedToday(k) = Cardinality(GrantsOn(k, today))

IInv ==
  /\ TypeOK
  /\ GrantsArePast
  /\ CountIsExact
  /\ DailyLimitKept

-----------------------------------------------------------------------------
LEMMA GrantsFinite ==
  ASSUME NEW k \in Keys, NEW date
  PROVE  /\ IsFiniteSet(GrantsOn(k, date))
         /\ Cardinality(GrantsOn(k, date)) \in Nat
<1>1. IsFiniteSet({"middleware", "execute"})
  <2>1. {"middleware", "execute"} = {"middleware"} \union {"execute"}
    OBVIOUS
  <2>2. IsFiniteSet({"middleware"}) /\ IsFiniteSet({"execute"})
    BY FS_Singleton
  <2> QED
    BY <2>1, <2>2, FS_Union, Zenon
<1>2. IsFiniteSet(Calls)
  BY <1>1, RateLimiterAssumption, FS_Product DEF Calls
<1>3. GrantsOn(k, date) \in SUBSET Calls
  BY DEF GrantsOn
<1> QED
  BY <1>2, <1>3, FS_Subset, FS_CardinalityType

(* What a step that leaves the grants and the date alone may not change.   *)
LEMMA Undisturbed ==
  ASSUME IInv, UNCHANGED <<grantDate, today>>, TypeOK',
         \A r \in Requests : at'[r] = at[r] \/ at'[r] = "refused",
         \A k \in Keys : UsedToday(k)' = UsedToday(k)
  PROVE  IInv'
<1>1. GrantsArePast'
  BY DEF IInv, GrantsArePast, TypeOK, Calls
<1>2. \A k \in Keys, date \in 1 .. today :
        GrantsOn(k, date)' = GrantsOn(k, date)
  BY DEF GrantsOn
<1>3. today \in 1 .. today
  BY DEF IInv, TypeOK
<1>4. CountIsExact'
  BY <1>2, <1>3 DEF IInv, CountIsExact
<1>5. DailyLimitKept'
  BY <1>2 DEF IInv, DailyLimitKept
<1> QED
  BY <1>1, <1>4, <1>5 DEF IInv

(* Allow answers call c, which was not granted before.                     *)
LEMMA AllowKeepsIInv ==
  ASSUME IInv, NEW r \in Requests, NEW c \in Calls,
         NEW next \in {"execute", "served"},
         c[1] = r, grantDate[c] = 0, Allow(c, next),
         \/ c = <<r, "middleware">> /\ next = "execute"
            /\ at[r] = "arriving"
         \/ c = <<r, "execute">> /\ next = "served" /\ at[r] = "execute"
  PROVE  IInv'
<1> DEFINE k == KeyOf[r]
<1>k. k \in Keys
  BY RateLimiterAssumption
<1> USE RateLimiterAssumption
<1>1. CASE Refuse(k) /\ at' = [at EXCEPT ![r] = "refused"]
           /\ UNCHANGED grantVars
  <2>0. UNCHANGED clockVars
    BY DEF Allow
  <2>1. UsedToday(k) \in Nat /\ k \in tracked
    BY <1>1, <1>k DEF UsedToday, IInv, TypeOK, Refuse, OverDaily, OverRps,
                      UsedInWindow, InWindow, CountsToday
  <2>2. TypeOK'
    BY <1>1, <2>0, <2>1, <1>k DEF Refuse, IInv, TypeOK, grantVars, clockVars
  <2>3. \A x \in Keys : UsedToday(x)' = UsedToday(x)
    BY <1>1, <2>0, <2>1, <1>k DEF Refuse, IInv, TypeOK, UsedToday,
                                  CountsToday, clockVars
  <2>4. \A q \in Requests : at'[q] = at[q] \/ at'[q] = "refused"
    BY <1>1 DEF IInv, TypeOK
  <2> QED
    BY <1>1, <2>0, <2>2, <2>3, <2>4, Undisturbed DEF grantVars, clockVars
<1>2. CASE /\ Grant(k)
           /\ at' = [at EXCEPT ![r] = next]
           /\ grantTime' = [grantTime EXCEPT ![c] = now]
           /\ grantDate' = [grantDate EXCEPT ![c] = today]
  <2>0. UNCHANGED <<now, today>>
    BY DEF Allow, clockVars
  <2>1. UsedToday(k) \in Nat /\ UsedInWindow(k) \in Nat
    BY <1>k DEF UsedToday, UsedInWindow, IInv, TypeOK
  <2>2. TypeOK'
    BY <1>2, <2>0, <2>1, <1>k DEF Grant, IInv, TypeOK
  <2>3. GrantsArePast'
    <3>1. \A d \in Calls : grantDate'[d] <= today'
      BY <1>2, <2>0 DEF IInv, TypeOK, GrantsArePast
    <3>2. \A q \in Requests :
            /\ at'[q] = "arriving" => grantDate'[<<q, "middleware">>] = 0
            /\ at'[q] \in {"arriving", "execute"}
                 => grantDate'[<<q, "execute">>] = 0
      <4> TAKE q \in Requests
      <4>1. CASE q # r
        <5>1. c # <<q, "middleware">> /\ c # <<q, "execute">>
          BY <4>1
        <5>2. /\ grantDate'[<<q, "middleware">>]
                   = grantDate[<<q, "middleware">>]
              /\ grantDate'[<<q, "execute">>] = grantDate[<<q, "execute">>]
              /\ at'[q] = at[q]
          BY <1>2, <4>1, <5>1 DEF IInv, TypeOK, Calls
        <5> QED
          BY <5>2 DEF IInv, GrantsArePast
      <4>2. CASE q = r
        <5>1. at'[r] = next
          BY <1>2 DEF IInv, TypeOK
        <5>2. next = "execute" => grantDate'[<<r, "execute">>] = 0
          BY <1>2 DEF IInv, TypeOK, GrantsArePast, Calls
        <5> QED
          BY <4>2, <5>1, <5>2
      <4> QED
        BY <4>1, <4>2
    <3> QED
      BY <3>1, <3>2 DEF GrantsArePast
  <2>d. today \in 1 .. today
    BY DEF IInv, TypeOK
  <2>4. \A x \in Keys, date \in 1 .. today :
          (x # k \/ date # today) => GrantsOn(x, date)' = GrantsOn(x, date)
    BY <1>2 DEF GrantsOn, IInv, TypeOK
  <2>5. ASSUME NEW date \in 1 .. today, date = today
        PROVE  Cardinality(GrantsOn(k, date)')
                 = Cardinality(GrantsOn(k, date)) + 1
    <3>1. /\ GrantsOn(k, date)' = GrantsOn(k, date) \union {c}
          /\ c \notin GrantsOn(k, date)
      BY <1>2, <2>5 DEF GrantsOn, IInv, TypeOK
    <3>2. IsFiniteSet(GrantsOn(k, date))
      BY <1>k, GrantsFinite
    <3>3. ASSUME NEW S, NEW T, IsFiniteSet(S), T = S \union {c}, c \notin S
          PROVE  Cardinality(T) = Cardinality(S) + 1
      BY <3>3, FS_AddElement
    <3> HIDE DEF k
    <3> QED
      BY <3>1, <3>2, <3>3
  <2>6. Cardinality(GrantsOn(k, today)') = Cardinality(GrantsOn(k, today)) + 1
    BY <2>0, <2>5, <2>d
  <2>7. /\ UsedToday(k)' = UsedToday(k) + 1
        /\ \A x \in Keys : x # k => UsedToday(x)' = UsedToday(x)
    BY <1>2, <2>0, <1>k DEF Grant, IInv, TypeOK, UsedToday, CountsToday
  <2>9. CountIsExact'
    BY <2>0, <2>4, <2>6, <2>7, <2>d, <1>k DEF IInv, CountIsExact
  <2>10. DailyLimitKept'
    <3> SUFFICES ASSUME Daily > 0, NEW x \in Keys, NEW date \in 1 .. today
                 PROVE  Cardinality(GrantsOn(x, date)') <= Daily
      BY <2>0 DEF DailyLimitKept
    <3>1. CASE x # k \/ date # today
      BY <3>1, <2>4 DEF IInv, DailyLimitKept
    <3>2. CASE x = k /\ date = today
      <4>1. Cardinality(GrantsOn(k, date)) < Daily
        BY <1>2, <1>k, <2>1, <3>2 DEF Grant, OverDaily, IInv, CountIsExact
      <4>2. Cardinality(GrantsOn(k, date)) \in Nat
        BY <1>k, GrantsFinite
      <4>3. Cardinality(GrantsOn(k, date)') = Cardinality(GrantsOn(k, date)) + 1
        BY <2>5, <3>2
      <4> QED
        BY <3>2, <4>1, <4>2, <4>3
    <3> QED
      BY <3>1, <3>2
  <2> QED
    BY <2>2, <2>3, <2>9, <2>10 DEF IInv
<1> QED
  BY <1>1, <1>2 DEF Allow

-----------------------------------------------------------------------------
LEMMA InitIInv == Init => IInv
<1> SUFFICES ASSUME Init PROVE IInv
  OBVIOUS
<1>1. TypeOK
  BY DEF Init, TypeOK
<1>2. GrantsArePast
  BY DEF Init, GrantsArePast, Calls
<1>3. \A k \in Keys, date \in 1 .. today : GrantsOn(k, date) = {}
  BY DEF Init, GrantsOn
<1>4. \A k \in Keys : UsedToday(k) = 0
  BY DEF Init, UsedToday, CountsToday
<1>5. today \in 1 .. today
  BY DEF Init
<1>6. CountIsExact
  BY <1>3, <1>4, <1>5, FS_EmptySet DEF CountIsExact
<1>7. DailyLimitKept
  BY <1>3, FS_EmptySet, RateLimiterAssumption DEF DailyLimitKept
<1> QED
  BY <1>1, <1>2, <1>6, <1>7 DEF IInv

LEMMA NextIInv == IInv /\ [Next]_vars => IInv'
<1> SUFFICES ASSUME IInv, [Next]_vars PROVE IInv'
  OBVIOUS
<1> USE RateLimiterAssumption
<1>1. ASSUME NEW r \in Requests, Middleware(r) PROVE IInv'
  <2>1. <<r, "middleware">> \in Calls /\ grantDate[<<r, "middleware">>] = 0
    BY <1>1 DEF Calls, Middleware, IInv, GrantsArePast
  <2> QED
    BY <1>1, <2>1, AllowKeepsIInv DEF Middleware
<1>2. ASSUME NEW r \in Requests, Invalid(r) PROVE IInv'
  <2>1. TypeOK'
    BY <1>2 DEF Invalid, IInv, TypeOK, entryVars, clockVars, grantVars
  <2>2. \A k \in Keys : UsedToday(k)' = UsedToday(k)
    BY <1>2 DEF Invalid, UsedToday, CountsToday, entryVars, clockVars
  <2>3. \A q \in Requests : at'[q] = at[q] \/ at'[q] = "refused"
    BY <1>2 DEF Invalid, IInv, TypeOK
  <2> QED
    BY <1>2, <2>1, <2>2, <2>3, Undisturbed
    DEF Invalid, clockVars, grantVars
<1>3. ASSUME NEW r \in Requests, Execute(r) PROVE IInv'
  <2>1. <<r, "execute">> \in Calls /\ grantDate[<<r, "execute">>] = 0
    BY <1>3 DEF Calls, Execute, IInv, GrantsArePast
  <2> QED
    BY <1>3, <2>1, AllowKeepsIInv DEF Execute
<1>4. CASE Cleanup
  <2> DEFINE stale == {k \in tracked :
                         dailyDate[k] # today /\ now - windowStart[k] > Day}
  <2>1. Forget(stale)
    BY <1>4 DEF Cleanup
  <2> HIDE DEF stale
  <2>2. \A k \in stale : k \in tracked /\ dailyDate[k] # today
    BY DEF stale
  <2>3. TypeOK'
    BY <2>1 DEF Forget, IInv, TypeOK, clockVars, grantVars
  <2>4. \A k \in Keys : UsedToday(k)' = UsedToday(k)
    BY <2>1, <2>2 DEF Forget, UsedToday, CountsToday, clockVars
  <2> QED
    BY <2>1, <2>3, <2>4, Undisturbed DEF Forget, clockVars, grantVars
<1>5. CASE Tick
  <2>1. TypeOK'
    BY <1>5 DEF Tick, IInv, TypeOK, entryVars, grantVars
  <2>2. \A k \in Keys : UsedToday(k)' = UsedToday(k)
    BY <1>5 DEF Tick, UsedToday, CountsToday, entryVars
  <2> QED
    BY <1>5, <2>1, <2>2, Undisturbed DEF Tick, grantVars
<1>6. CASE Midnight
  <2>0. today \in Nat \ {0} /\ today' = today + 1
    BY <1>6 DEF Midnight, IInv, TypeOK
  <2>1. TypeOK'
    BY <1>6 DEF Midnight, IInv, TypeOK, entryVars, grantVars
  <2>2. GrantsArePast'
    BY <1>6, <2>0 DEF Midnight, IInv, TypeOK, GrantsArePast, grantVars
  <2>3. \A k \in Keys : UsedToday(k)' = 0
    BY <1>6, <2>0 DEF Midnight, UsedToday, CountsToday, entryVars, IInv,
                      TypeOK
  <2>4. \A k \in Keys : GrantsOn(k, today)' = {}
    BY <1>6, <2>0 DEF Midnight, GrantsOn, grantVars, IInv, GrantsArePast,
                      TypeOK
  <2>5. CountIsExact'
    BY <2>3, <2>4, FS_EmptySet DEF CountIsExact
  <2>6. \A k \in Keys, date \in 1 .. today :
          GrantsOn(k, date)' = GrantsOn(k, date)
    BY <1>6 DEF Midnight, GrantsOn, grantVars
  <2>7. DailyLimitKept'
    <3> SUFFICES ASSUME Daily > 0, NEW k \in Keys, NEW date \in 1 .. today'
                 PROVE  Cardinality(GrantsOn(k, date)') <= Daily
      BY DEF DailyLimitKept
    <3>1. CASE date = today'
      BY <3>1, <2>4, FS_EmptySet
    <3>2. CASE date # today'
      <4>1. date \in 1 .. today
        BY <3>2, <2>0
      <4> QED
        BY <4>1, <2>6 DEF IInv, DailyLimitKept
    <3> QED
      BY <3>1, <3>2
  <2> QED
    BY <2>1, <2>2, <2>5, <2>7 DEF IInv
<1>7. CASE UNCHANGED vars
  <2>1. TypeOK'
    BY <1>7 DEF vars, IInv, TypeOK, entryVars, clockVars, grantVars
  <2>2. \A k \in Keys : UsedToday(k)' = UsedToday(k)
    BY <1>7 DEF vars, UsedToday, CountsToday, entryVars, clockVars
  <2> QED
    BY <1>7, <2>1, <2>2, Undisturbed DEF vars, clockVars, grantVars
<1> QED
  BY <1>1, <1>2, <1>3, <1>4, <1>5, <1>6, <1>7 DEF Next

(* The entry of a key, present or not, of today or not, stands for the     *)
(* calls granted to it today, and those never exceed the limit.            *)
THEOREM RateLimiterInvariant == Spec => []IInv
BY InitIInv, NextIInv, PTL DEF Spec

(* Types: no entry of the table is of a time or date yet to come.          *)
THEOREM RateLimiterTypeCorrect == Spec => []TypeOK
<1>1. IInv => TypeOK
  BY DEF IInv
<1> QED
  BY <1>1, RateLimiterInvariant, PTL

(* RATE_LIMIT_DAILY: no key is granted more calls on any date.             *)
THEOREM DailyLimitIsKept == Spec => []DailyLimitKept
<1>1. IInv => DailyLimitKept
  BY DEF IInv
<1> QED
  BY <1>1, RateLimiterInvariant, PTL

(* X-RateLimit-Remaining is the limit less today's grants.                 *)
THEOREM RemainingQuotaIsExact == Spec => []RemainingIsExact
<1>1. IInv => RemainingIsExact
  <2> SUFFICES ASSUME IInv, Daily > 0, NEW k \in Keys
               PROVE  RemainingDaily(k)
                        = Daily - Cardinality(GrantsOn(k, today))
    BY DEF RemainingIsExact
  <2>1. /\ UsedToday(k) = Cardinality(GrantsOn(k, today))
        /\ Cardinality(GrantsOn(k, today)) \in Nat
    BY GrantsFinite DEF IInv, CountIsExact
  <2>2. Cardinality(GrantsOn(k, today)) <= Daily
    BY DEF IInv, TypeOK, DailyLimitKept
  <2> QED
    BY <2>1, <2>2, RateLimiterAssumption DEF RemainingDaily, UsedToday
<1> QED
  BY <1>1, RateLimiterInvariant, PTL

-----------------------------------------------------------------------------
(* A step of the limiter is one of the quota, or none.                     *)
LEMMA StepImplementsQuota ==
  ASSUME IInv, [Next]_vars
  PROVE  [TheQuota!Next]_(TheQuota!vars)
<1> DEFINE used == [k \in Keys |-> UsedToday(k)]
           open == [k \in Keys |-> UsedInWindow(k)]
<1> USE RateLimiterAssumption
<1>1. ASSUME NEW k \in Keys, Grant(k), UNCHANGED clockVars
      PROVE  TheQuota!Grant(k)
  <2>1. /\ UsedToday(k)' = UsedToday(k) + 1
        /\ \A x \in Keys : x # k => UsedToday(x)' = UsedToday(x)
    BY <1>1 DEF Grant, clockVars, IInv, TypeOK, UsedToday, CountsToday
  <2>2. Second \in Nat \ {0} /\ now \in Nat
    BY DEF IInv, TypeOK
  <2>3. InWindow(k)'
    BY <1>1, <2>2 DEF Grant, clockVars, IInv, TypeOK, InWindow
  <2>4. UsedInWindow(k)' = UsedInWindow(k) + 1
    BY <1>1, <2>3 DEF Grant, IInv, TypeOK, UsedInWindow
  <2>5. \A x \in Keys : x # k => UsedInWindow(x)' = UsedInWindow(x)
    BY <1>1 DEF Grant, clockVars, IInv, TypeOK, UsedInWindow, InWindow
  <2>6. used' = [used EXCEPT ![k] = @ + 1] /\ open' = [open EXCEPT ![k] = @ + 1]
    BY <2>1, <2>4, <2>5
  <2>7. UsedToday(k) \in Nat /\ UsedInWindow(k) \in Nat
    BY DEF IInv, TypeOK, UsedToday, UsedInWindow
  <2>8. (Daily > 0 => UsedToday(k) < Daily)
        /\ (Rps > 0 => UsedInWindow(k) < Rps)
    BY <1>1, <2>7 DEF Grant, OverDaily, OverRps
  <2> QED
    BY <2>6, <2>8 DEF TheQuota!Grant
<1>2. ASSUME NEW k \in Keys, Refuse(k), UNCHANGED clockVars
      PROVE  UNCHANGED TheQuota!vars
  <2>1. k \in tracked
    BY <1>2 DEF Refuse, OverDaily, OverRps, UsedToday, UsedInWindow,
                InWindow, CountsToday
  <2>2. \A x \in Keys : UsedToday(x)' = UsedToday(x)
    BY <1>2, <2>1 DEF Refuse, IInv, TypeOK, UsedToday, CountsToday, clockVars
  <2>3. \A x \in Keys : UsedInWindow(x)' = UsedInWindow(x)
    BY <1>2 DEF Refuse, UsedInWindow, InWindow, clockVars
  <2> QED
    BY <2>2, <2>3 DEF TheQuota!vars
<1>3. ASSUME NEW c \in Calls, NEW next, Allow(c, next)
      PROVE  [TheQuota!Next]_(TheQuota!vars)
  <2>1. KeyOf[c[1]] \in Keys
    BY DEF Calls
  <2>2. UNCHANGED clockVars /\ (Grant(KeyOf[c[1]]) \/ Refuse(KeyOf[c[1]]))
    BY <1>3 DEF Allow
  <2> QED
    BY <2>1, <2>2, <1>1, <1>2 DEF TheQuota!Next
<1>4. ASSUME NEW r \in Requests, Middleware(r)
      PROVE  [TheQuota!Next]_(TheQuota!vars)
  BY <1>3, <1>4 DEF Middleware, Calls
<1>5. ASSUME NEW r \in Requests, Execute(r)
      PROVE  [TheQuota!Next]_(TheQuota!vars)
  BY <1>3, <1>5 DEF Execute, Calls
<1>6. ASSUME UNCHANGED <<tracked, entryVars, clockVars>>
      PROVE  UNCHANGED TheQuota!vars
  <2>1. \A k \in Keys : UsedToday(k)' = UsedToday(k)
    BY <1>6 DEF UsedToday, CountsToday, entryVars, clockVars
  <2>2. \A k \in Keys : UsedInWindow(k)' = UsedInWindow(k)
    BY <1>6 DEF UsedInWindow, InWindow, entryVars, clockVars
  <2> QED
    BY <2>1, <2>2 DEF TheQuota!vars
<1>7. CASE Cleanup
  <2> DEFINE stale == {k \in tracked :
                         dailyDate[k] # today /\ now - windowStart[k] > Day}
  <2>1. Forget(stale)
    BY <1>7 DEF Cleanup
  <2>2. stale \in SUBSET Keys
    BY DEF IInv, TypeOK
  <2>3. \A k \in stale : k \in tracked /\ dailyDate[k] # today
    OBVIOUS
  <2> HIDE DEF stale
  <2>4. \A k \in Keys : UsedToday(k)' = UsedToday(k)
    BY <2>1, <2>3 DEF Forget, UsedToday, CountsToday, clockVars
  <2>5. \A k \in Keys :
          UsedInWindow(k)' = IF k \in stale THEN 0 ELSE UsedInWindow(k)
    BY <2>1 DEF Forget, UsedInWindow, InWindow, clockVars
  <2>6. TheQuota!WindowsEnd(stale)
    BY <2>4, <2>5 DEF TheQuota!WindowsEnd
  <2> QED
    BY <2>2, <2>6 DEF TheQuota!Next
<1>8. CASE Tick
  <2> DEFINE ended == {k \in Keys : InWindow(k) /\ ~InWindow(k)'}
  <2>1. \A k \in Keys : UsedToday(k)' = UsedToday(k)
    BY <1>8 DEF Tick, UsedToday, CountsToday, entryVars
  <2>2. \A k \in Keys : InWindow(k)' => InWindow(k)
    BY <1>8 DEF Tick, InWindow, entryVars, IInv, TypeOK
  <2>3. \A k \in Keys :
          UsedInWindow(k)' = IF k \in ended THEN 0 ELSE UsedInWindow(k)
    BY <1>8, <2>2 DEF Tick, UsedInWindow, entryVars
  <2>4. TheQuota!WindowsEnd(ended)
    BY <2>1, <2>3 DEF TheQuota!WindowsEnd
  <2>5. ended \in SUBSET Keys
    OBVIOUS
  <2> QED
    BY <2>4, <2>5 DEF TheQuota!Next
<1>9. CASE Midnight
  <2>1. \A k \in Keys : UsedToday(k)' = 0
    BY <1>9 DEF Midnight, UsedToday, CountsToday, entryVars, IInv, TypeOK
  <2>2. \A k \in Keys : UsedInWindow(k)' = UsedInWindow(k)
    BY <1>9 DEF Midnight, UsedInWindow, InWindow, entryVars
  <2>3. TheQuota!DayEnds
    BY <2>1, <2>2 DEF TheQuota!DayEnds
  <2> QED
    BY <2>3 DEF TheQuota!Next
<1>10. ASSUME NEW r \in Requests, Invalid(r)
       PROVE  UNCHANGED TheQuota!vars
  BY <1>6, <1>10 DEF Invalid
<1>11. CASE UNCHANGED vars
  BY <1>6, <1>11 DEF vars
<1> QED
  BY <1>4, <1>5, <1>7, <1>8, <1>9, <1>10, <1>11 DEF Next

(* The limiter implements the quota: the sweep of the table and the lazy   *)
(* restart of the counters are invisible.                                  *)
THEOREM ImplementsTheQuota == Spec => ImplementsQuota
<1>1. Init => TheQuota!Init
  BY DEF Init, TheQuota!Init, UsedToday, UsedInWindow, CountsToday, InWindow
<1>2. IInv /\ [Next]_vars => [TheQuota!Next]_(TheQuota!vars)
  BY StepImplementsQuota
<1> QED
  BY <1>1, <1>2, RateLimiterInvariant, PTL
  DEF Spec, ImplementsQuota, TheQuota!Spec

-----------------------------------------------------------------------------
(* The windows of a key. What is known of the latest one, by when its      *)
(* entry may be stale or swept: it starts with a grant and holds at most   *)
(* Rps of them, all grants of the second before it fit in one window that  *)
(* did not start with them, and the entry, if it counts, tells of it.      *)
GrantsOf(k) == {c \in Calls : KeyOf[c[1]] = k /\ grantTime[c] > 0}

LastWindow(k, start) ==
  /\ \E c \in GrantsOf(k) : grantTime[c] = start
  /\ \A c \in GrantsOf(k) : grantTime[c] < start + Second
  /\ Cardinality(GrantsDuring(k, start, now)) <= Rps
  /\ \A from \in 1 .. start - 1 :
       from > start - Second =>
         Cardinality(GrantsDuring(k, from, start - 1)) < Rps
  /\ IF InWindow(k)
     THEN /\ start = windowStart[k]
          /\ Cardinality(GrantsDuring(k, start, now)) <= windowCount[k]
     ELSE start + Second <= now

Windowed(k) ==
  \/ GrantsOf(k) = {} /\ ~InWindow(k)
  \/ \E start \in 1 .. now : LastWindow(k, start)

TimesArePast ==
  /\ now >= 1
  /\ \A c \in Calls : grantTime[c] <= now
  /\ \A r \in Requests :
       /\ at[r] = "arriving" => grantTime[<<r, "middleware">>] = 0
       /\ at[r] \in {"arriving", "execute"} => grantTime[<<r, "execute">>] = 0

BurstInv ==
  /\ TimesArePast
  /\ Rps > 0 => \A k \in Keys : Windowed(k)
  /\ BurstBounded

LEMMA DuringFinite ==
  ASSUME NEW k, NEW from, NEW to
  PROVE  /\ IsFiniteSet(GrantsDuring(k, from, to))
         /\ Cardinality(GrantsDuring(k, from, to)) \in Nat
<1>1. IsFiniteSet({"middleware", "execute"})
  <2>1. {"middleware", "execute"} = {"middleware"} \union {"execute"}
    OBVIOUS
  <2>2. IsFiniteSet({"middleware"}) /\ IsFiniteSet({"execute"})
    BY FS_Singleton
  <2> QED
    BY <2>1, <2>2, FS_Union, Zenon
<1>2. IsFiniteSet(Calls)
  BY <1>1, RateLimiterAssumption, FS_Product DEF Calls
<1>3. GrantsDuring(k, from, to) \in SUBSET Calls
  BY DEF GrantsDuring
<1> QED
  BY <1>2, <1>3, FS_Subset, FS_CardinalityType

(* Counting: a subset is no larger, one element adds at most one, and a    *)
(* subset that misses an element is smaller.                               *)
LEMMA Fewer ==
  ASSUME NEW T, IsFiniteSet(T), NEW S \in SUBSET T
  PROVE  /\ Cardinality(S) \in Nat /\ Cardinality(T) \in Nat
         /\ Cardinality(S) <= Cardinality(T)
         /\ S # T => Cardinality(S) < Cardinality(T)
BY FS_Subset, FS_CardinalityType

LEMMA OneMore ==
  ASSUME NEW S, IsFiniteSet(S), NEW c
  PROVE  /\ IsFiniteSet(S \union {c})
         /\ Cardinality(S \union {c}) \in Nat
         /\ Cardinality(S \union {c}) <= Cardinality(S) + 1
<1>1. /\ IsFiniteSet(S \union {c})
      /\ Cardinality(S \union {c})
           = IF c \in S THEN Cardinality(S) ELSE Cardinality(S) + 1
  BY FS_AddElement
<1>2. Cardinality(S) \in Nat
  BY FS_CardinalityType
<1> QED
  BY <1>1, <1>2


LEMMA UnionAtMost ==
  ASSUME NEW S, NEW T, IsFiniteSet(S), IsFiniteSet(T)
  PROVE  /\ IsFiniteSet(S \union T)
         /\ Cardinality(S \union T) <= Cardinality(S) + Cardinality(T)
<1>1. /\ IsFiniteSet(S \union T)
      /\ Cardinality(S \union T)
           = Cardinality(S) + Cardinality(T) - Cardinality(S \intersect T)
  BY FS_Union
<1>2. /\ Cardinality(S) \in Nat /\ Cardinality(T) \in Nat
      /\ Cardinality(S \intersect T) \in Nat
  BY FS_Intersection, FS_CardinalityType
<1> QED
  BY <1>1, <1>2

(* A step that grants nothing keeps what is known of a key's windows, if   *)
(* it may end the window of the entry but neither start nor change one.    *)
LEMMA WindowKept ==
  ASSUME IInv, TimesArePast, NEW k \in Keys, Windowed(k),
         UNCHANGED grantTime, now' \in {now, now + 1},
         InWindow(k)' => /\ InWindow(k)
                         /\ windowStart'[k] = windowStart[k]
                         /\ windowCount'[k] = windowCount[k],
         InWindow(k) /\ ~InWindow(k)' => windowStart[k] + Second <= now'
  PROVE  Windowed(k)'
<1>0. now \in Nat /\ now' \in Nat /\ now <= now'
  BY DEF IInv, TypeOK
<1>1. GrantsOf(k)' = GrantsOf(k)
  BY DEF GrantsOf
<1>2. \A from, to : GrantsDuring(k, from, to)' = GrantsDuring(k, from, to)
  BY DEF GrantsDuring
<1>3. CASE GrantsOf(k) = {} /\ ~InWindow(k)
  BY <1>1, <1>3 DEF Windowed
<1>4. ASSUME NEW start \in 1 .. now, LastWindow(k, start)
      PROVE  LastWindow(k, start)'
  <2>1. GrantsDuring(k, start, now') = GrantsDuring(k, start, now)
    BY <1>0, <1>4, RateLimiterAssumption
       DEF GrantsDuring, TimesArePast, IInv, TypeOK
  <2>2. GrantsDuring(k, start, now)' = GrantsDuring(k, start, now)
    BY <2>1 DEF GrantsDuring
  <2>3. IF InWindow(k)'
        THEN /\ start = windowStart'[k]
             /\ Cardinality(GrantsDuring(k, start, now)) <= windowCount'[k]
        ELSE start + Second <= now'
    BY <1>0, <1>4, RateLimiterAssumption DEF LastWindow
  <2> QED
    BY <1>1, <1>2, <1>4, <2>2, <2>3 DEF LastWindow
<1> QED
  BY <1>0, <1>3, <1>4 DEF Windowed

LEMMA BurstKept ==
  ASSUME IInv, TimesArePast, BurstBounded,
         UNCHANGED grantTime, now' \in {now, now + 1}
  PROVE  BurstBounded'
<1> SUFFICES ASSUME Rps > 0, NEW k \in Keys, NEW from \in 1 .. now'
             PROVE  Cardinality(GrantsDuring(k, from, from + Second - 1)')
                      < 2 * Rps
  BY DEF BurstBounded
<1>0. now \in Nat
  BY DEF IInv, TypeOK
<1>1. GrantsDuring(k, from, from + Second - 1)'
        = GrantsDuring(k, from, from + Second - 1)
  BY DEF GrantsDuring
<1>2. CASE from \in 1 .. now
  BY <1>1, <1>2 DEF BurstBounded
<1>3. CASE from = now + 1
  <2>1. GrantsDuring(k, from, from + Second - 1) = {}
    BY <1>0, <1>3, RateLimiterAssumption
       DEF GrantsDuring, TimesArePast, IInv, TypeOK
  <2>2. Cardinality({}) = 0
    BY FS_EmptySet
  <2>3. 0 < 2 * Rps
    BY RateLimiterAssumption
  <2> QED
    BY <1>1, <2>1, <2>2, <2>3
<1> QED
  BY <1>0, <1>2, <1>3


(* A grant to key k at the present moment, the first grant of call c.      *)
LEMMA GrantWindows ==
  ASSUME IInv, BurstInv, Rps > 0, NEW c \in Calls, NEW k \in Keys,
         KeyOf[c[1]] = k, grantTime[c] = 0, Grant(k),
         grantTime' = [grantTime EXCEPT ![c] = now], UNCHANGED now
  PROVE  /\ \A x \in Keys : Windowed(x)'
         /\ BurstBounded'
<1>0. /\ now \in Nat /\ now >= 1 /\ Rps \in Nat /\ Second \in Nat \ {0}
      /\ grantTime \in [Calls -> Nat]
      /\ windowStart \in [Keys -> 0 .. now] /\ windowCount \in [Keys -> Nat]
      /\ \A d \in Calls : grantTime[d] <= now
  BY RateLimiterAssumption DEF IInv, TypeOK, BurstInv, TimesArePast
<1>1. /\ grantTime'[c] = now
      /\ \A d \in Calls : d # c => grantTime'[d] = grantTime[d]
  BY <1>0
(* The other keys do not notice.                                           *)
<1>2. ASSUME NEW x \in Keys, x # k
      PROVE  /\ GrantsOf(x)' = GrantsOf(x)
             /\ \A d \in GrantsOf(x) : grantTime'[d] = grantTime[d]
             /\ \A from, to : GrantsDuring(x, from, to)' = GrantsDuring(x, from, to)
             /\ InWindow(x)' <=> InWindow(x)
             /\ windowStart'[x] = windowStart[x]
             /\ windowCount'[x] = windowCount[x]
  <2>1. \A d \in Calls : KeyOf[d[1]] = x => grantTime'[d] = grantTime[d]
    BY <1>1, <1>2
  <2>2. /\ windowStart'[x] = windowStart[x]
        /\ windowCount'[x] = windowCount[x]
        /\ x \in tracked' <=> x \in tracked
    BY <1>2, <1>0 DEF Grant
  <2> QED
    BY <2>1, <2>2 DEF GrantsOf, GrantsDuring, InWindow
<1>3. ASSUME NEW x \in Keys, x # k PROVE Windowed(x)'
  <2>1. ASSUME NEW start, LastWindow(x, start) PROVE LastWindow(x, start)'
    BY <1>2, <1>3, <2>1 DEF LastWindow
  <2> QED
    BY <1>2, <1>3, <2>1 DEF Windowed, BurstInv
(* The grants of k: c is added to those that include the present.          *)
<1>4. \A from, to \in Int :
        /\ now \in from .. to
           => GrantsDuring(k, from, to)' = GrantsDuring(k, from, to) \union {c}
        /\ now \notin from .. to /\ from > 0
           => GrantsDuring(k, from, to)' = GrantsDuring(k, from, to)
  BY <1>0, <1>1 DEF GrantsDuring
<1>5. GrantsOf(k)' = GrantsOf(k) \union {c}
  BY <1>0, <1>1 DEF GrantsOf
<1>6. InWindow(k)'
  BY <1>0 DEF Grant, InWindow, IInv, TypeOK
<1>7. \A from, to : IsFiniteSet(GrantsDuring(k, from, to))
  BY DuringFinite
<1>8. UsedInWindow(k) \in Nat /\ UsedInWindow(k) < Rps
      /\ windowCount'[k] = UsedInWindow(k) + 1
      /\ windowStart'[k] = IF InWindow(k) THEN windowStart[k] ELSE now
  BY <1>0 DEF Grant, OverRps, UsedInWindow

<1>9. \A from, to : \A d \in Calls :
        d \in GrantsDuring(k, from, to)
          <=> KeyOf[d[1]] = k /\ grantTime[d] \in from .. to
  BY DEF GrantsDuring
<1>10. SUFFICES
         /\ \E start \in 1 .. now : LastWindow(k, start)'
         /\ \A from \in 1 .. now :
              now \in from .. from + Second - 1 =>
                Cardinality(GrantsDuring(k, from, from + Second - 1) \union {c})
                  < 2 * Rps
  <2>1. Windowed(k)'
    BY <1>10 DEF Windowed
  <2>2. ASSUME NEW x \in Keys, NEW from \in 1 .. now
        PROVE  Cardinality(GrantsDuring(x, from, from + Second - 1)') < 2 * Rps
    <3>1. Cardinality(GrantsDuring(x, from, from + Second - 1)) < 2 * Rps
      BY DEF BurstInv, BurstBounded
    <3>2. CASE x # k
      BY <3>1, <3>2, <1>2
    <3>3. CASE x = k /\ now \in from .. from + Second - 1
      <4>1. from \in Int /\ from + Second - 1 \in Int
        BY <1>0
      <4>2. GrantsDuring(k, from, from + Second - 1)'
              = GrantsDuring(k, from, from + Second - 1) \union {c}
        BY <3>3, <4>1, <1>4
      <4> QED
        BY <3>3, <4>2, <1>10
    <3>4. CASE x = k /\ now \notin from .. from + Second - 1
      BY <3>1, <3>4, <1>0, <1>4
    <3> QED
      BY <3>2, <3>3, <3>4
  <2> QED
    BY <1>3, <2>1, <2>2 DEF BurstBounded
<1>11. CASE InWindow(k)
  <2>1. PICK start \in 1 .. now : LastWindow(k, start)
    BY <1>11 DEF BurstInv, Windowed
  <2>2. /\ start = windowStart[k] /\ now < start + Second
        /\ UsedInWindow(k) = windowCount[k]
    BY <1>0, <1>11, <2>1 DEF LastWindow, InWindow, UsedInWindow
  <2> DEFINE W == GrantsDuring(k, start, now)
  <2>3. /\ IsFiniteSet(W \union {c})
        /\ Cardinality(W \union {c}) \in Nat
        /\ Cardinality(W \union {c}) <= windowCount[k] + 1
    <3>1. Cardinality(W) <= windowCount[k]
      BY <1>11, <2>1 DEF LastWindow
    <3>2. Cardinality(W) \in Nat
      BY DuringFinite
    <3>3. /\ IsFiniteSet(W \union {c})
          /\ Cardinality(W \union {c}) \in Nat
          /\ Cardinality(W \union {c}) <= Cardinality(W) + 1
      BY <1>7, OneMore
    <3> HIDE DEF W
    <3> QED
      BY <1>0, <3>1, <3>2, <3>3
  <2>4. LastWindow(k, start)'
    <3>1. \E d \in GrantsOf(k)' : grantTime'[d] = start
      BY <1>0, <1>1, <1>5, <2>1 DEF LastWindow, GrantsOf
    <3>2. \A d \in GrantsOf(k)' : grantTime'[d] < start + Second
      BY <1>0, <1>1, <1>5, <2>1, <2>2 DEF LastWindow, GrantsOf
    <3>3. GrantsDuring(k, start, now)' = W \union {c}
      <4>1. start \in Int /\ now \in Int /\ now \in start .. now
        BY <1>0
      <4> QED
        BY <4>1, <1>4
    <3>4. ASSUME NEW from \in 1 .. start - 1, from > start - Second
          PROVE  Cardinality(GrantsDuring(k, from, start - 1)') < Rps
      <4>1. GrantsDuring(k, from, start - 1)' = GrantsDuring(k, from, start - 1)
        BY <1>0, <1>4
      <4> QED
        BY <2>1, <3>4, <4>1 DEF LastWindow
    <3> HIDE DEF W
    <3> QED
      BY <1>0, <1>6, <1>8, <1>11, <2>2, <2>3, <3>1, <3>2, <3>3, <3>4
         DEF LastWindow
  <2>5. ASSUME NEW from \in 1 .. now, now \in from .. from + Second - 1
        PROVE  Cardinality(GrantsDuring(k, from, from + Second - 1) \union {c})
                 < 2 * Rps
    <3> DEFINE S == GrantsDuring(k, from, from + Second - 1)
               B == GrantsDuring(k, from, start - 1)
    <3>1. Cardinality(W \union {c}) <= Rps
      BY <1>0, <1>8, <2>2, <2>3
    <3>2. ASSUME from >= start PROVE Cardinality(S \union {c}) < 2 * Rps
      <4>1. S \union {c} \in SUBSET (W \union {c})
        BY <1>0, <2>5, <3>2 DEF GrantsDuring
      <4>2. Cardinality(S \union {c}) <= Cardinality(W \union {c})
            /\ Cardinality(S \union {c}) \in Nat
        BY <2>3, <4>1, Fewer
      <4> HIDE DEF S, W
      <4> QED
        BY <1>0, <2>3, <3>1, <4>2
    <3>3. ASSUME from < start PROVE Cardinality(S \union {c}) < 2 * Rps
      <4>1. S \union {c} \in SUBSET (B \union (W \union {c}))
        BY <1>0, <2>5, <3>3 DEF GrantsDuring
      <4>2. Cardinality(B) < Rps
        BY <1>0, <2>1, <2>5, <3>3 DEF LastWindow
      <4>3. /\ IsFiniteSet(B \union (W \union {c}))
            /\ Cardinality(B \union (W \union {c}))
                 <= Cardinality(B) + Cardinality(W \union {c})
        BY <1>7, <2>3, UnionAtMost
      <4>4. /\ Cardinality(S \union {c}) <= Cardinality(B \union (W \union {c}))
            /\ Cardinality(S \union {c}) \in Nat
            /\ Cardinality(B \union (W \union {c})) \in Nat
        BY <4>1, <4>3, Fewer
      <4>5. Cardinality(B) \in Nat
        BY DuringFinite
      <4> HIDE DEF S, W, B
      <4> QED
        BY <1>0, <2>3, <3>1, <4>2, <4>3, <4>4, <4>5
    <3> QED
      BY <1>0, <3>2, <3>3
  <2> QED
    BY <1>10, <2>4, <2>5
<1>12. CASE ~InWindow(k)
  <2>1. ASSUME NEW from \in 1 .. now, from > now - Second
        PROVE  Cardinality(GrantsDuring(k, from, now)) < Rps
    <3>1. CASE GrantsOf(k) = {}
      <4>1. GrantsDuring(k, from, now) = {}
        BY <1>0, <2>1, <3>1 DEF GrantsDuring, GrantsOf
      <4>2. Cardinality({}) = 0
        BY FS_EmptySet
      <4> QED
        BY <1>0, <4>1, <4>2
    <3>2. ASSUME NEW start \in 1 .. now, LastWindow(k, start)
          PROVE  Cardinality(GrantsDuring(k, from, now)) < Rps
      <4>1. start < from
        BY <1>0, <1>12, <2>1, <3>2 DEF LastWindow
      <4>2. PICK d \in GrantsOf(k) : grantTime[d] = start
        BY <3>2 DEF LastWindow
      <4>3. /\ GrantsDuring(k, from, now) \in SUBSET GrantsDuring(k, start, now)
            /\ d \in GrantsDuring(k, start, now)
            /\ d \notin GrantsDuring(k, from, now)
        BY <1>0, <4>1, <4>2 DEF GrantsDuring, GrantsOf
      <4>4. Cardinality(GrantsDuring(k, from, now))
              < Cardinality(GrantsDuring(k, start, now))
            /\ Cardinality(GrantsDuring(k, start, now)) \in Nat
            /\ Cardinality(GrantsDuring(k, from, now)) \in Nat
        BY <4>3, <1>7, Fewer
      <4>5. Cardinality(GrantsDuring(k, start, now)) <= Rps
        BY <3>2 DEF LastWindow
      <4> QED
        BY <1>0, <4>4, <4>5
    <3> QED
      BY <3>1, <3>2 DEF BurstInv, Windowed
  <2>2. GrantsDuring(k, now, now) = {}
    <3>1. \A d \in GrantsOf(k) : grantTime[d] < now
      BY <1>0, <1>12 DEF BurstInv, Windowed, LastWindow, GrantsOf
    <3> QED
      BY <1>0, <3>1 DEF GrantsDuring, GrantsOf
  <2>3. Cardinality({c}) = 1
    BY FS_Singleton
  <2>4. LastWindow(k, now)'
    <3>1. \E d \in GrantsOf(k)' : grantTime'[d] = now
      BY <1>1, <1>5
    <3>2. \A d \in GrantsOf(k)' : grantTime'[d] < now + Second
      BY <1>0, <1>1, <1>5 DEF GrantsOf
    <3>3. GrantsDuring(k, now, now)' = {c}
      <4>1. now \in Int /\ now \in now .. now
        BY <1>0
      <4> QED
        BY <4>1, <1>4, <2>2
    <3>4. ASSUME NEW from \in 1 .. now - 1, from > now - Second
          PROVE  Cardinality(GrantsDuring(k, from, now - 1)') < Rps
      <4>1. GrantsDuring(k, from, now - 1)' = GrantsDuring(k, from, now - 1)
        <5>1. /\ from \in Int /\ from > 0 /\ now - 1 \in Int
              /\ now \notin from .. now - 1
          BY <1>0
        <5> QED
          BY <5>1, <1>1, <1>0 DEF GrantsDuring
      <4>2. /\ GrantsDuring(k, from, now - 1) \in SUBSET GrantsDuring(k, from, now)
            /\ from \in 1 .. now
        BY <1>0 DEF GrantsDuring
      <4>3. /\ Cardinality(GrantsDuring(k, from, now - 1))
                 <= Cardinality(GrantsDuring(k, from, now))
            /\ Cardinality(GrantsDuring(k, from, now - 1)) \in Nat
            /\ Cardinality(GrantsDuring(k, from, now)) \in Nat
        BY <4>2, <1>7, Fewer
      <4>4. Cardinality(GrantsDuring(k, from, now)) < Rps
        BY <2>1, <3>4, <4>2
      <4> QED
        BY <1>0, <4>1, <4>3, <4>4
    <3>5. windowStart'[k] = now /\ windowCount'[k] >= 1
      BY <1>8, <1>12
    <3> QED
      BY <1>0, <1>6, <2>3, <3>1, <3>2, <3>3, <3>4, <3>5 DEF LastWindow
  <2>5. ASSUME NEW from \in 1 .. now, now \in from .. from + Second - 1
        PROVE  Cardinality(GrantsDuring(k, from, from + Second - 1) \union {c})
                 < 2 * Rps
    <3>1. GrantsDuring(k, from, from + Second - 1) = GrantsDuring(k, from, now)
      BY <1>0, <2>5 DEF GrantsDuring
    <3>2. Cardinality(GrantsDuring(k, from, now)) < Rps
      BY <1>0, <2>1, <2>5
    <3>3. /\ Cardinality(GrantsDuring(k, from, now) \union {c})
               <= Cardinality(GrantsDuring(k, from, now)) + 1
          /\ Cardinality(GrantsDuring(k, from, now) \union {c}) \in Nat
      BY <1>7, OneMore
    <3>4. Cardinality(GrantsDuring(k, from, now)) \in Nat
      BY DuringFinite
    <3>5. Cardinality(GrantsDuring(k, from, now) \union {c}) < 2 * Rps
      BY <1>0, <3>2, <3>3, <3>4
    <3> QED
      BY <3>1, <3>5
  <2>6. now \in 1 .. now
    BY <1>0
  <2> QED
    BY <1>10, <2>4, <2>5, <2>6
<1> QED
  BY <1>11, <1>12


(* Allow answers call c, which was not granted before.                     *)
LEMMA AllowKeepsBurst ==
  ASSUME IInv, BurstInv, NEW r \in Requests, NEW c \in Calls,
         NEW next \in {"execute", "served"},
         c[1] = r, grantTime[c] = 0, Allow(c, next),
         \/ c = <<r, "middleware">> /\ next = "execute"
            /\ at[r] = "arriving"
         \/ c = <<r, "execute">> /\ next = "served" /\ at[r] = "execute"
  PROVE  BurstInv'
<1> DEFINE k == KeyOf[r]
<1>1. k \in Keys /\ UNCHANGED now /\ now \in Nat
  BY RateLimiterAssumption DEF Allow, clockVars, IInv, TypeOK
<1>2. CASE Refuse(k) /\ at' = [at EXCEPT ![r] = "refused"]
           /\ UNCHANGED grantVars
  <2>1. TimesArePast'
    BY <1>1, <1>2 DEF BurstInv, TimesArePast, IInv, TypeOK, grantVars
  <2>2. \A x \in Keys : InWindow(x)' <=> InWindow(x)
    BY <1>1, <1>2 DEF Refuse, InWindow
  <2>3. ASSUME Rps > 0, NEW x \in Keys PROVE Windowed(x)'
    BY <1>1, <1>2, <2>2, <2>3, WindowKept DEF BurstInv, Refuse, grantVars
  <2>4. BurstBounded'
    BY <1>1, <1>2, BurstKept DEF BurstInv, grantVars
  <2> QED
    BY <2>1, <2>3, <2>4 DEF BurstInv
<1>3. CASE /\ Grant(k)
           /\ at' = [at EXCEPT ![r] = next]
           /\ grantTime' = [grantTime EXCEPT ![c] = now]
           /\ grantDate' = [grantDate EXCEPT ![c] = today]
  <2>1. now' >= 1 /\ \A d \in Calls : grantTime'[d] <= now'
    BY <1>1, <1>3 DEF BurstInv, TimesArePast, IInv, TypeOK
  <2>2. ASSUME NEW q \in Requests
        PROVE  /\ at'[q] = "arriving" => grantTime'[<<q, "middleware">>] = 0
               /\ at'[q] \in {"arriving", "execute"}
                    => grantTime'[<<q, "execute">>] = 0
    <3>1. CASE q # r
      <4>1. c # <<q, "middleware">> /\ c # <<q, "execute">>
        BY <3>1
      <4>2. /\ grantTime'[<<q, "middleware">>] = grantTime[<<q, "middleware">>]
            /\ grantTime'[<<q, "execute">>] = grantTime[<<q, "execute">>]
            /\ at'[q] = at[q]
        BY <1>3, <3>1, <4>1 DEF IInv, TypeOK, Calls
      <4> QED
        BY <4>2 DEF BurstInv, TimesArePast
    <3>2. CASE q = r
      <4>1. at'[r] = next
        BY <1>3 DEF IInv, TypeOK
      <4>2. next = "execute" => grantTime'[<<r, "execute">>] = 0
        BY <1>3 DEF IInv, TypeOK, BurstInv, TimesArePast, Calls
      <4> QED
        BY <3>2, <4>1, <4>2
    <3> QED
      BY <3>1, <3>2
  <2>3. TimesArePast'
    BY <2>1, <2>2 DEF TimesArePast
  <2>4. Rps > 0 => (\A x \in Keys : Windowed(x)') /\ BurstBounded'
    BY <1>1, <1>3, GrantWindows
  <2>5. ~(Rps > 0) => BurstBounded'
    BY DEF BurstBounded
  <2> QED
    BY <2>3, <2>4, <2>5 DEF BurstInv
<1> QED
  BY <1>2, <1>3 DEF Allow

LEMMA BurstStep == IInv /\ BurstInv /\ [Next]_vars => BurstInv'
<1> SUFFICES ASSUME IInv, BurstInv, [Next]_vars PROVE BurstInv'
  OBVIOUS
<1>0. now \in Nat /\ Second \in Nat \ {0} /\ Day \in Nat /\ Second <= Day
      /\ windowStart \in [Keys -> 0 .. now]
  BY RateLimiterAssumption DEF IInv, TypeOK
<1>1. ASSUME NEW r \in Requests, Middleware(r) PROVE BurstInv'
  <2>1. <<r, "middleware">> \in Calls /\ grantTime[<<r, "middleware">>] = 0
    BY <1>1 DEF Calls, Middleware, BurstInv, TimesArePast
  <2> QED
    BY <1>1, <2>1, AllowKeepsBurst DEF Middleware
<1>2. ASSUME NEW r \in Requests, Execute(r) PROVE BurstInv'
  <2>1. <<r, "execute">> \in Calls /\ grantTime[<<r, "execute">>] = 0
    BY <1>2 DEF Calls, Execute, BurstInv, TimesArePast
  <2> QED
    BY <1>2, <2>1, AllowKeepsBurst DEF Execute
(* The other steps grant nothing; those that end windows are Cleanup and   *)
(* Tick.                                                                   *)
<1>3. ASSUME UNCHANGED grantTime, now' \in {now, now + 1},
             \A r \in Requests : at'[r] = at[r] \/ at'[r] = "refused",
             \A x \in Keys :
               /\ InWindow(x)' => /\ InWindow(x)
                                  /\ windowStart'[x] = windowStart[x]
                                  /\ windowCount'[x] = windowCount[x]
               /\ InWindow(x) /\ ~InWindow(x)' => windowStart[x] + Second <= now'
      PROVE  BurstInv'
  <2>1. TimesArePast'
    BY <1>0, <1>3 DEF BurstInv, TimesArePast, IInv, TypeOK
  <2>2. ASSUME Rps > 0, NEW x \in Keys PROVE Windowed(x)'
    BY <1>3, <2>2, WindowKept DEF BurstInv
  <2>3. BurstBounded'
    BY <1>3, BurstKept DEF BurstInv
  <2> QED
    BY <2>1, <2>2, <2>3 DEF BurstInv
<1>4. ASSUME UNCHANGED <<tracked, windowStart, windowCount, now, grantTime>>,
             \A r \in Requests : at'[r] = at[r] \/ at'[r] = "refused"
      PROVE  BurstInv'
  BY <1>3, <1>4 DEF InWindow
<1>5. ASSUME NEW r \in Requests, Invalid(r) PROVE BurstInv'
  <2>1. \A q \in Requests : at'[q] = at[q] \/ at'[q] = "refused"
    BY <1>5 DEF Invalid, IInv, TypeOK
  <2> QED
    BY <1>4, <1>5, <2>1 DEF Invalid, entryVars, clockVars, grantVars
<1>6. CASE Cleanup
  <2> DEFINE stale == {x \in tracked :
                         dailyDate[x] # today /\ now - windowStart[x] > Day}
  <2>1. Forget(stale)
    BY <1>6 DEF Cleanup
  <2>2. \A x \in stale : ~InWindow(x)
    BY <1>0 DEF InWindow, IInv, TypeOK
  <2> HIDE DEF stale
  <2>3. \A x \in Keys :
          /\ InWindow(x)' <=> InWindow(x)
          /\ InWindow(x) => /\ windowStart'[x] = windowStart[x]
                            /\ windowCount'[x] = windowCount[x]
    BY <2>1, <2>2 DEF Forget, InWindow, clockVars
  <2> QED
    BY <1>3, <2>1, <2>3 DEF Forget, clockVars, grantVars
<1>7. CASE Tick
  <2>1. \A x \in Keys :
          /\ InWindow(x)' => InWindow(x)
          /\ InWindow(x) /\ ~InWindow(x)' => windowStart[x] + Second <= now'
    BY <1>0, <1>7 DEF Tick, InWindow, entryVars
  <2> QED
    BY <1>3, <1>7, <2>1 DEF Tick, entryVars, grantVars
<1>8. CASE Midnight
  BY <1>4, <1>8 DEF Midnight, entryVars, grantVars
<1>9. CASE UNCHANGED vars
  BY <1>4, <1>9 DEF vars, entryVars, clockVars, grantVars
<1> QED
  BY <1>1, <1>2, <1>5, <1>6, <1>7, <1>8, <1>9 DEF Next

(* What the fixed windows do promise, for any limit, length of the window  *)
(* and order of requests, sweeps and ticks: less than twice RATE_LIMIT_RPS *)
(* grants in any second, wherever it starts.                               *)
THEOREM BurstsAreBounded == Spec => []BurstBounded
<1>1. Init => BurstInv
  <2> SUFFICES ASSUME Init PROVE BurstInv
    OBVIOUS
  <2>1. \A c \in Calls : grantTime[c] = 0
    BY DEF Init
  <2>2. \A k \in Keys, from \in 1 .. now :
          GrantsDuring(k, from, from + Second - 1) = {}
    BY <2>1, RateLimiterAssumption DEF Init, GrantsDuring
  <2>3. BurstBounded
    BY <2>2, FS_EmptySet, RateLimiterAssumption DEF BurstBounded
  <2>4. \A k \in Keys : Windowed(k)
    BY <2>1 DEF Init, Windowed, GrantsOf, InWindow
  <2>5. TimesArePast
    BY <2>1 DEF Init, TimesArePast, Calls
  <2> QED
    BY <2>3, <2>4, <2>5 DEF BurstInv
<1>2. BurstInv => BurstBounded
  BY DEF BurstInv
<1> QED
  BY <1>1, <1>2, BurstStep, RateLimiterInvariant, PTL DEF Spec

=============================================================================
