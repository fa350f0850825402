------------------------------ MODULE RateLimit ------------------------------
(***************************************************************************)
(* registerRateLimit: a fixed window per client address on the routes of   *)
(* PAID_ROUTES, and the sweep that forgets windows.  served is history: when *)
(* each client's requests were let through; uncapped counts what the hook  *)
(* did not look at, per client and instant.                                *)
(***************************************************************************)
EXTENDS Integers, Sequences

CONSTANTS Ips, ExemptIps,  \* client addresses, and those of RATE_LIMIT_EXEMPT_IPS
          Limit,           \* RATE_LIMIT_PER_MIN, rounded down: may be 0
          WindowMs,        \* length of a window and of the sweep's interval
          MaxTime,         \* bound on time
          MaxCount         \* bound on the requests of one window

VARIABLES now, windows, sweepAt, served, uncapped

rateVars == <<now, windows, sweepAt, served, uncapped>>

Times == 0..MaxTime
NoWindow == [count |-> 0, resetAt |-> 0]
PaidRoutes == {"/compile", "/agent/propose", "/verify", "/a2a/verify", "/playbook/verify", "/agentic-id/transfer"}
(* The POST routes the application has that infer, store or attest. *)
SpendingRoutes == {"/compile", "/agent/propose", "/agent/offer", "/verify", "/verify/a2a", "/verify/step"}

(* What the constants must be. *)
RateConstants ==
  /\ Limit \in Nat /\ WindowMs \in Nat \ {0} /\ MaxTime \in Nat /\ MaxCount \in Nat \ {0}
  /\ ExemptIps \subseteq Ips

RateInit ==
  /\ now = 0 /\ windows = [ip \in Ips |-> NoWindow] /\ sweepAt = WindowMs
  /\ served = [ip \in Ips |-> <<>>]
  /\ uncapped = [ip \in Ips |-> 0]

Tick == /\ now < MaxTime /\ now < sweepAt /\ now' = now + 1 /\ uncapped' = [ip \in Ips |-> 0]
        /\ UNCHANGED <<windows, sweepAt, served>>

(* A window is over at its resetAt; one that is over, or unknown, is opened
   anew with this request as its first. *)
Expired(win) == win.resetAt <= now

\* A faulty variant, for mutation runs: a full window is renewed.
OpensWhenFull(win) == win = NoWindow \/ win.count > Limit
Opens(win) == win = NoWindow \/ Expired(win)

Request ==
  \E ip \in Ips, route \in SpendingRoutes :
    LET win == windows[ip] IN
    /\ UNCHANGED <<now, sweepAt>>
    /\ IF route \notin PaidRoutes \/ ip \in ExemptIps
       THEN /\ uncapped[ip] < MaxCount /\ uncapped' = [uncapped EXCEPT ![ip] = @ + 1]
            /\ UNCHANGED <<windows, served>>
       ELSE /\ Opens(win) \/ win.count < MaxCount
            /\ windows' = [windows EXCEPT ![ip] = IF Opens(win) THEN [count |-> 1, resetAt |-> now + WindowMs]
                                                  ELSE [win EXCEPT !.count = @ + 1]]
            /\ served' = IF Opens(win) \/ win.count + 1 <= Limit THEN [served EXCEPT ![ip] = Append(@, now)] ELSE served
            /\ UNCHANGED uncapped

Sweep ==
  /\ now = sweepAt /\ sweepAt' = sweepAt + WindowMs
  /\ windows' = [ip \in Ips |-> IF Expired(windows[ip]) THEN NoWindow ELSE windows[ip]]
  /\ UNCHANGED <<now, served, uncapped>>

RateNext == Tick \/ Request \/ Sweep
RateSpec == RateInit /\ [][RateNext]_rateVars

-----------------------------------------------------------------------------
MostOf(a, b) == IF a > b THEN a ELSE b

(* Types; a window holds a request and ends within its length, and the sweep
   keeps the memory bounded: no window outlives its end by more than one
   interval. *)
RateTypeOK ==
  /\ now \in Times /\ sweepAt \in Nat
  /\ \A ip \in Ips : windows[ip] \in {NoWindow} \cup [count : 1..MaxCount, resetAt : 0..(now + WindowMs)]
  /\ \A ip \in Ips : windows[ip] # NoWindow => now <= windows[ip].resetAt + WindowMs
  /\ served \in [Ips -> Seq(Times)] /\ uncapped \in [Ips -> 0..MaxCount]

(* What a client may get through in one window. *)
Capacity == MostOf(Limit, 1)

(* However requests fall around a window's end, the capped routes let a
   client through at most twice the limit in any interval of one window's
   length, and twice if the limit rounds to 0: the request that comes twice
   the limit after another comes a window's length after it. *)
AtMostTwiceTheLimit ==
  \A ip \in Ips : \A k \in 1..(Len(served[ip]) - 2 * Capacity) :
    served[ip][k + 2 * Capacity] >= served[ip][k] + WindowMs

(* Stated by README.md:134: the paid routes are rate-limited; here, all
   that verify or infer. *)
EveryPaidRouteCapped ==
  \A ip \in Ips \ ExemptIps : uncapped[ip] <= 2 * Capacity
=============================================================================
