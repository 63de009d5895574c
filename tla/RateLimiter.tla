---------------------------- MODULE RateLimiter -----------------------------
(***************************************************************************)
(* ratelimit/limiter.go, and the two places that ask it about a REST       *)
(* request: the middleware main.go puts around /api/v1/run, and Execute    *)
(* itself. The limiter keeps a table of keys under one mutex, so each call *)
(* of Allow and each sweep of the table is one step.                       *)
(*                                                                         *)
(* Two clocks advance on their own: now.Sub reads the monotonic clock, and *)
(* now.Format the calendar, which daylight saving and clock adjustments    *)
(* move against it. The calendar is taken not to go back.                  *)
(***************************************************************************)
EXTENDS Integers, FiniteSets

CONSTANTS
  Keys,     (* user ids, or remote addresses                               *)
  Requests, (* requests for /api/v1/run                                    *)
  KeyOf,    (* the key each request is limited by                          *)
  Rps,      (* RATE_LIMIT_RPS, 0: no limit                                 *)
  Daily,    (* RATE_LIMIT_DAILY, 0: no limit                               *)
  Second,   (* length of the window, in ticks of the monotonic clock       *)
  Day,      (* 24 hours of the monotonic clock                             *)
  Horizon,  (* bound: the last moment of the monotonic clock               *)
  LastDate  (* bound: the last date                                        *)

ASSUME RateLimiterAssumption ==
  /\ IsFiniteSet(Requests)
  /\ KeyOf \in [Requests -> Keys]
  /\ Rps \in Nat /\ Daily \in Nat
  /\ Second \in Nat \ {0} /\ Day \in Nat \ {0}
  /\ Second <= Day
  /\ Horizon \in Nat /\ LastDate \in Nat

(* A request is put to the limiter twice.                                  *)
Calls == Requests \X {"middleware", "execute"}

VARIABLES
  tracked,      (* the keys that have an entry in l.keys                   *)
  windowStart,  (* [Keys] the fields of the entry                          *)
  windowCount,
  dailyDate,
  dailyCount,
  now,          (* the monotonic clock                                     *)
  today,        (* the date, counted from 1                                *)
  at,           (* [Requests] arriving, execute (the handler), served, or  *)
                (* refused                                                 *)
  grantTime,    (* [Calls] when the call was granted, and on which date;   *)
  grantDate     (* 0: it was not                                           *)

entryVars == <<windowStart, windowCount, dailyDate, dailyCount>>
grantVars == <<grantTime, grantDate>>
clockVars == <<now, today>>
vars == <<tracked, entryVars, clockVars, at, grantVars>>

TypeOK ==
  /\ tracked \in SUBSET Keys
  /\ windowStart \in [Keys -> 0 .. now]
  /\ windowCount \in [Keys -> Nat]
  /\ dailyDate \in [Keys -> 0 .. today]
  /\ dailyCount \in [Keys -> Nat]
  /\ now \in Nat
  /\ today \in Nat \ {0}
  /\ at \in [Requests -> {"arriving", "execute", "served", "refused"}]
  /\ grantTime \in [Calls -> Nat]
  /\ grantDate \in [Calls -> Nat]

Init ==
  /\ tracked = {}
  /\ windowStart = [k \in Keys |-> 0]
  /\ windowCount = [k \in Keys |-> 0]
  /\ dailyDate = [k \in Keys |-> 0]
  /\ dailyCount = [k \in Keys |-> 0]
  /\ now = 1
  /\ today = 1
  /\ at = [r \in Requests |-> "arriving"]
  /\ grantTime = [c \in Calls |-> 0]
  /\ grantDate = [c \in Calls |-> 0]

-----------------------------------------------------------------------------
(* What Allow makes of the entry of a key before it looks at the limits: a *)
(* count of an earlier day, or of a window that is over, is a count of 0.  *)
CountsToday(k) == k \in tracked /\ dailyDate[k] = today

UsedToday(k) == IF CountsToday(k) THEN dailyCount[k] ELSE 0

InWindow(k) == k \in tracked /\ now - windowStart[k] < Second

UsedInWindow(k) == IF InWindow(k) THEN windowCount[k] ELSE 0

OverDaily(k) == Daily > 0 /\ UsedToday(k) >= Daily

OverRps(k) == Rps > 0 /\ UsedInWindow(k) >= Rps

(* Mutants of Grant: the daily counter is not reset on a new day; the end  *)
(* of the window is stored for its start.                                  *)
GrantKeepsCount(k) ==
  /\ ~OverDaily(k)
  /\ ~OverRps(k)
  /\ tracked' = tracked \union {k}
  /\ dailyDate' = [dailyDate EXCEPT ![k] = today]
  /\ dailyCount' = [dailyCount EXCEPT ![k] = @ + 1]
  /\ windowStart' = [windowStart EXCEPT ![k] = IF InWindow(k) THEN @ ELSE now]
  /\ windowCount' = [windowCount EXCEPT ![k] = UsedInWindow(k) + 1]

GrantStoresEnd(k) ==
  /\ ~OverDaily(k)
  /\ ~OverRps(k)
  /\ tracked' = tracked \union {k}
  /\ dailyDate' = [dailyDate EXCEPT ![k] = today]
  /\ dailyCount' = [dailyCount EXCEPT ![k] = UsedToday(k) + 1]
  /\ windowStart' =
       [windowStart EXCEPT ![k] = IF InWindow(k) THEN @ ELSE now + Second]
  /\ windowCount' = [windowCount EXCEPT ![k] = UsedInWindow(k) + 1]

(* Allow returns true.                                                     *)
Grant(k) ==
  /\ ~OverDaily(k)
  /\ ~OverRps(k)
  /\ tracked' = tracked \union {k}
  /\ dailyDate' = [dailyDate EXCEPT ![k] = today]
  /\ dailyCount' = [dailyCount EXCEPT ![k] = UsedToday(k) + 1]
  /\ windowStart' = [windowStart EXCEPT ![k] = IF InWindow(k) THEN @ ELSE now]
  /\ windowCount' = [windowCount EXCEPT ![k] = UsedInWindow(k) + 1]

(* Allow returns false. The key has an entry then, and its window is not   *)
(* restarted: the daily limit is looked at before the window, and the      *)
(* other limit refuses only within a window.                               *)
Refuse(k) ==
  /\ OverDaily(k) \/ OverRps(k)
  /\ dailyDate' = [dailyDate EXCEPT ![k] = today]
  /\ dailyCount' = [dailyCount EXCEPT ![k] = UsedToday(k)]
  /\ UNCHANGED <<tracked, windowStart, windowCount>>

(* Allow answers a call for a request, which moves on or is refused.       *)
Allow(c, next) ==
  LET r == c[1]
      k == KeyOf[r]
  IN
  /\ \/ /\ Grant(k)
        /\ at' = [at EXCEPT ![r] = next]
        /\ grantTime' = [grantTime EXCEPT ![c] = now]
        /\ grantDate' = [grantDate EXCEPT ![c] = today]
     \/ /\ Refuse(k)
        /\ at' = [at EXCEPT ![r] = "refused"]
        /\ UNCHANGED grantVars
  /\ UNCHANGED clockVars

Middleware(r) ==
  /\ at[r] = "arriving"
  /\ Allow(<<r, "middleware">>, "execute")

(* A bad method, body or language is answered before the second call.      *)
Invalid(r) ==
  /\ at[r] = "execute"
  /\ at' = [at EXCEPT ![r] = "refused"]
  /\ UNCHANGED <<tracked, entryVars, clockVars, grantVars>>

Execute(r) ==
  /\ at[r] = "execute"
  /\ Allow(<<r, "execute">>, "served")

(* Drop the entries of some keys.                                          *)
Forget(stale) ==
  /\ tracked' = tracked \ stale
  /\ windowStart' = [k \in Keys |-> IF k \in stale THEN 0 ELSE windowStart[k]]
  /\ windowCount' = [k \in Keys |-> IF k \in stale THEN 0 ELSE windowCount[k]]
  /\ dailyDate' = [k \in Keys |-> IF k \in stale THEN 0 ELSE dailyDate[k]]
  /\ dailyCount' = [k \in Keys |-> IF k \in stale THEN 0 ELSE dailyCount[k]]
  /\ UNCHANGED <<clockVars, at, grantVars>>

(* Mutants of Cleanup: one of the two conditions alone.                    *)
CleanupByAge ==
  Forget({k \in tracked : now - windowStart[k] > Day})

CleanupByDate ==
  Forget({k \in tracked : dailyDate[k] # today})

(* Every five minutes: the keys of another day, idle for 24 hours.         *)
Cleanup ==
  Forget({k \in tracked :
            dailyDate[k] # today /\ now - windowStart[k] > Day})

Tick ==
  /\ now < Horizon
  /\ now' = now + 1
  /\ UNCHANGED <<tracked, entryVars, today, at, grantVars>>

Midnight ==
  /\ today < LastDate
  /\ today' = today + 1
  /\ UNCHANGED <<tracked, entryVars, now, at, grantVars>>

Next ==
  \/ \E r \in Requests : Middleware(r) \/ Invalid(r) \/ Execute(r)
  \/ Cleanup
  \/ Tick
  \/ Midnight

Spec == Init /\ [][Next]_vars

-----------------------------------------------------------------------------
GrantsOn(k, date) == {c \in Calls : KeyOf[c[1]] = k /\ grantDate[c] = date}

GrantsDuring(k, from, to) ==
  {c \in Calls : KeyOf[c[1]] = k /\ grantTime[c] \in from .. to}

(* No key is granted more than Daily calls on one date, whatever the sweep *)
(* of the table removes in between, and whichever way the two clocks run.  *)
DailyLimitKept ==
  Daily > 0 =>
    \A k \in Keys, date \in 1 .. today : Cardinality(GrantsOn(k, date)) <= Daily

(* RemainingDaily, which the middleware sends as X-RateLimit-Remaining.    *)
RemainingDaily(k) ==
  IF ~CountsToday(k) THEN Daily
  ELSE IF Daily < dailyCount[k] THEN 0
  ELSE Daily - dailyCount[k]

(* X-RateLimit-Remaining is the limit less the calls granted today, also   *)
(* for a key whose entry is gone or of another day.                        *)
RemainingIsExact ==
  Daily > 0 =>
    \A k \in Keys :
      RemainingDaily(k) = Daily - Cardinality(GrantsOn(k, today))

(* The windows follow each other with no overlap and each starts with a    *)
(* grant: a second, wherever it starts, sees less than twice the limit.    *)
BurstBounded ==
  Rps > 0 =>
    \A k \in Keys, from \in 1 .. now :
      Cardinality(GrantsDuring(k, from, from + Second - 1)) < 2 * Rps

TheQuota == INSTANCE Quota WITH
  usedToday <- [k \in Keys |-> UsedToday(k)],
  usedInWindow <- [k \in Keys |-> UsedInWindow(k)]

(* The limiter implements the quota: restarting counters only when they    *)
(* are looked at, refusals, and above all the sweep of the table cannot be *)
(* told from a limiter that keeps every key for ever.                      *)
ImplementsQuota == TheQuota!Spec

-----------------------------------------------------------------------------
(* As the comments and the README have it (violated, see the README):      *)

(* "Daily execution limit per user": a key is turned away for the day only *)
(* when as many of its requests were executed that day, or are about to.   *)
DailyCountsExecutions ==
  \A k \in Keys :
    OverDaily(k) =>
      Cardinality({r \in Requests :
        /\ KeyOf[r] = k
        /\ \/ at[r] = "execute"
           \/ at[r] = "served" /\ grantDate[<<r, "execute">>] = today})
      >= Daily

=============================================================================
