---------------------------- MODULE ServicesProofs ----------------------------
(***************************************************************************)
(* The parts of the API that work beside a verify, for any clients,        *)
(* limits, completions, compiles, verifies, settlements and pages: each    *)
(* part keeps an invariant of its own through each of its steps, and the   *)
(* composition of MCServices keeps all five.  First the rate limiter: the  *)
(* requests of a client's window are the last of those let through, and    *)
(* the ones before them left a whole window ago.                           *)
(***************************************************************************)
EXTENDS MCServices, BatchLogProofs, FiniteSetTheorems

Lesser(a, b) == IF a < b THEN a ELSE b
Capacity == Rate!Capacity
Windows == [count : 1..MaxCount, resetAt : Nat]

\* Of what a client sent: 2 * Capacity entries span a window's length.
Spaced(sent) == \A k \in 1..(Len(sent) - 2 * Capacity) : sent[k + 2 * Capacity] >= sent[k] + WindowMs

\* The requests of the current window are the last sent, those of the
\* window before it are the Capacity before them at most.
InWindow(win, sent, t) ==
    /\ win \in Windows /\ win.resetAt <= t + WindowMs
    /\ Lesser(win.count, Capacity) <= Len(sent)
    /\ \A k \in 1..(Len(sent) - Lesser(win.count, Capacity)) : sent[k] + WindowMs <= win.resetAt
    /\ \A k \in 1..(Len(sent) - Lesser(win.count, Capacity) - Capacity) : sent[k] + 2 * WindowMs <= win.resetAt
Room(sent, t) == \A k \in 1..(Len(sent) + 1 - 2 * Capacity) : sent[k] + WindowMs <= t
Aged(sent, t) == \A k \in 1..(Len(sent) - Capacity) : sent[k] + WindowMs <= t

LogSound(sent, t) == sent \in Seq(Nat) /\ (\A k \in 1..Len(sent) : sent[k] <= t) /\ Spaced(sent)

ClientSound(win, sent, t, sweep) ==
    /\ LogSound(sent, t)
    /\ IF win = Rate!NoWindow THEN Aged(sent, t) ELSE InWindow(win, sent, t) /\ win.resetAt > sweep - WindowMs

RateIInv ==
    /\ now \in 0..MaxTime /\ sweepAt \in Nat /\ now <= sweepAt /\ sweepAt <= now + WindowMs
    /\ windows \in [Ips -> {Rate!NoWindow} \cup Windows]
    /\ served \in [Ips -> Seq(0..MaxTime)] /\ uncapped \in [Ips -> 0..MaxCount]
    /\ \A ip \in Ips : ClientSound(windows[ip], served[ip], now, sweepAt)

LEMMA RateNumbers ==
    ASSUME Rate!RateConstants
    PROVE  /\ Capacity \in Nat /\ Capacity >= 1 /\ WindowMs \in Nat /\ WindowMs >= 1 /\ Limit \in Nat
           /\ MaxTime \in Nat /\ MaxCount \in Nat /\ MaxCount >= 1
           /\ Limit <= Capacity /\ Capacity = (IF Limit > 1 THEN Limit ELSE 1)
BY DEF Rate!RateConstants, Capacity, Rate!Capacity, Rate!MostOf

LEMMA TimePasses ==
    ASSUME Rate!RateConstants, NEW win, NEW sent, NEW t \in Nat, NEW sweep \in Nat,
           ClientSound(win, sent, t, sweep)
    PROVE  ClientSound(win, sent, t + 1, sweep)
<1>0. /\ Capacity \in Nat /\ Capacity >= 1 /\ WindowMs \in Nat /\ WindowMs >= 1 /\ Limit \in Nat
      /\ MaxTime \in Nat /\ MaxCount \in Nat /\ MaxCount >= 1 /\ Limit <= Capacity /\ Capacity = (IF Limit > 1 THEN Limit ELSE 1)
  BY RateNumbers
<1>length. Len(sent) \in Nat
  BY DEF ClientSound, LogSound
<1>1. sent \in Seq(Nat) /\ Len(sent) \in Nat /\ \A k \in 1..Len(sent) : sent[k] \in Nat
  BY DEF ClientSound, LogSound
<1>2. \A k \in 1..Len(sent) : sent[k] <= t /\ sent[k] <= t + 1
  BY <1>1 DEF ClientSound, LogSound
<1>3. Aged(sent, t) => Aged(sent, t + 1)
  <2> SUFFICES ASSUME Aged(sent, t), NEW k \in 1..(Len(sent) - Capacity) PROVE sent[k] + WindowMs <= t + 1
    BY DEF Aged
  <2>1. sent[k] + WindowMs <= t /\ k \in 1..Len(sent)
    BY <1>1, <1>0 DEF Aged
  <2> QED
    BY <1>1, <2>1, <1>0
<1>4. InWindow(win, sent, t) => InWindow(win, sent, t + 1)
  <2> SUFFICES ASSUME InWindow(win, sent, t) PROVE win.resetAt <= t + 1 + WindowMs
    BY DEF InWindow
  <2> QED
    BY <1>0 DEF InWindow, Windows
<1> QED
  BY <1>1, <1>2, <1>3, <1>4 DEF ClientSound, LogSound

LEMMA RateSpacedAt ==
    ASSUME Rate!RateConstants, NEW sent, NEW t \in Nat, LogSound(sent, t), Room(sent, t)
    PROVE  /\ LogSound(Append(sent, t), t)
           /\ Len(Append(sent, t)) = Len(sent) + 1
           /\ \A k \in 1..Len(sent) : Append(sent, t)[k] = sent[k]
<1>0. /\ Capacity \in Nat /\ Capacity >= 1 /\ WindowMs \in Nat /\ WindowMs >= 1 /\ Limit \in Nat
      /\ MaxTime \in Nat /\ MaxCount \in Nat /\ MaxCount >= 1 /\ Limit <= Capacity /\ Capacity = (IF Limit > 1 THEN Limit ELSE 1)
  BY RateNumbers
<1> DEFINE new == Append(sent, t)
<1>length. Len(sent) \in Nat
  BY DEF LogSound
<1>1. sent \in Seq(Nat) /\ Len(sent) \in Nat /\ \A k \in 1..Len(sent) : sent[k] \in Nat /\ sent[k] <= t
  <2>1. sent \in Seq(Nat)
    BY DEF LogSound
  <2>2. \A k \in 1..Len(sent) : sent[k] <= t
    BY DEF LogSound
  <2> QED
    BY <1>length, <2>1, <2>2, ElementOfSeq
<1>2. new \in Seq(Nat) /\ Len(new) = Len(sent) + 1 /\ new[Len(sent) + 1] = t /\ \A k \in 1..Len(sent) : new[k] = sent[k]
  BY <1>1
<1> HIDE DEF new
<1>3. Spaced(new)
  <2> SUFFICES ASSUME NEW k \in 1..(Len(new) - 2 * Capacity)
               PROVE  new[k + 2 * Capacity] >= new[k] + WindowMs
    BY DEF Spaced
  <2>1. k \in 1..(Len(sent) + 1 - 2 * Capacity) /\ k \in 1..Len(sent) /\ new[k] = sent[k] /\ sent[k] \in Nat
    BY <1>1, <1>2, <1>0
  <2>2. CASE k + 2 * Capacity = Len(sent) + 1
    BY <1>1, <1>2, <2>1, <2>2, <1>0 DEF Room
  <2>3. CASE k + 2 * Capacity # Len(sent) + 1
    <3>1. k \in 1..(Len(sent) - 2 * Capacity) /\ k + 2 * Capacity \in 1..Len(sent)
      BY <1>0, <1>length, <2>1, <2>3
    <3>2. sent[k + 2 * Capacity] >= sent[k] + WindowMs
      <4>1. Spaced(sent)
        BY DEF LogSound
      <4> QED
        BY <3>1, <4>1 DEF Spaced
    <3> QED
      BY <1>2, <2>1, <3>1, <3>2
  <2> QED
    BY <2>2, <2>3
<1>4. \A k \in 1..Len(new) : new[k] <= t
  <2> SUFFICES ASSUME NEW k \in 1..(Len(sent) + 1) PROVE new[k] <= t
    BY <1>2
  <2> QED
    <3>1. CASE k = Len(sent) + 1
      BY <1>2, <3>1
    <3>2. CASE k # Len(sent) + 1
      <4>1. k \in 1..Len(sent)
        BY <1>length, <3>2
      <4> QED
        BY <1>1, <1>2, <4>1
    <3> QED
      BY <3>1, <3>2
<1>5. LogSound(new, t) /\ Len(new) = Len(sent) + 1 /\ \A k \in 1..Len(sent) : new[k] = sent[k]
  BY <1>2, <1>3, <1>4 DEF LogSound
<1> QED
  BY <1>5 DEF new

LEMMA WindowOpens ==
    ASSUME Rate!RateConstants, NEW win \in {Rate!NoWindow} \cup Windows, NEW sent, NEW t \in Nat, NEW sweep \in Nat,
           ClientSound(win, sent, t, sweep), sweep <= t + WindowMs, win = Rate!NoWindow \/ win.resetAt <= t
    PROVE  ClientSound([count |-> 1, resetAt |-> t + WindowMs], Append(sent, t), t, sweep)
<1>0. /\ Capacity \in Nat /\ Capacity >= 1 /\ WindowMs \in Nat /\ WindowMs >= 1 /\ Limit \in Nat
      /\ MaxTime \in Nat /\ MaxCount \in Nat /\ MaxCount >= 1 /\ Limit <= Capacity /\ Capacity = (IF Limit > 1 THEN Limit ELSE 1)
  BY RateNumbers
<1> DEFINE new == Append(sent, t)
           w == [count |-> 1, resetAt |-> t + WindowMs]
<1>length. Len(sent) \in Nat
  BY DEF ClientSound, LogSound
<1>1. sent \in Seq(Nat) /\ Len(sent) \in Nat /\ \A k \in 1..Len(sent) : sent[k] \in Nat /\ sent[k] <= t
  BY DEF ClientSound, LogSound
<1>2. \A k \in 1..(Len(sent) - Capacity) : sent[k] + WindowMs <= t
  <2>1. CASE win = Rate!NoWindow
    BY <2>1 DEF ClientSound, LogSound, Aged
  <2>2. CASE win # Rate!NoWindow
    <3>1. InWindow(win, sent, t) /\ win.resetAt <= t /\ win \in Windows
      BY <2>2 DEF ClientSound, LogSound
    <3>2. Lesser(win.count, Capacity) \in Nat /\ Lesser(win.count, Capacity) <= Capacity /\ win.resetAt \in Nat
      BY <3>1, <1>0 DEF Lesser, Windows
    <3> SUFFICES ASSUME NEW k \in 1..(Len(sent) - Capacity) PROVE sent[k] + WindowMs <= t
      OBVIOUS
    <3>3. k \in 1..(Len(sent) - Lesser(win.count, Capacity)) /\ k \in 1..Len(sent)
      BY <1>0, <1>1, <3>2
    <3>4. sent[k] + WindowMs <= win.resetAt /\ sent[k] \in Nat
      BY <1>1, <3>1, <3>3 DEF InWindow
    <3> QED
      BY <1>0, <3>1, <3>2, <3>4
  <2> QED
    BY <2>1, <2>2
<1>3. Room(sent, t)
  <2> SUFFICES ASSUME NEW k \in 1..(Len(sent) + 1 - 2 * Capacity) PROVE sent[k] + WindowMs <= t
    BY DEF Room
  <2>1. k \in 1..(Len(sent) - Capacity)
    BY <1>0, <1>1
  <2> QED
    BY <1>2, <2>1
<1>4. LogSound(new, t) /\ Len(new) = Len(sent) + 1 /\ \A k \in 1..Len(sent) : new[k] = sent[k]
  <2>2. LogSound(sent, t)
    BY DEF ClientSound
  <2> QED
    BY <1>3, <2>2, RateSpacedAt
<1>5. w \in Windows /\ w.count = 1 /\ w.resetAt = t + WindowMs /\ w # Rate!NoWindow
  BY <1>0 DEF Windows, Rate!NoWindow
<1>6. Lesser(w.count, Capacity) = 1
  BY <1>5, <1>0 DEF Lesser
<1> HIDE DEF new, w
<1>7. InWindow(w, new, t)
  <2>1. ASSUME NEW k \in 1..(Len(new) - 1) PROVE new[k] + WindowMs <= w.resetAt
    <3>1. k \in 1..Len(sent) /\ sent[k] \in Nat /\ sent[k] <= t /\ new[k] = sent[k]
      BY <1>1, <1>4
    <3> QED
      BY <1>0, <1>5, <3>1
  <2>2. ASSUME NEW k \in 1..(Len(new) - 1 - Capacity) PROVE new[k] + 2 * WindowMs <= w.resetAt
    <3>1. k \in 1..(Len(sent) - Capacity) /\ k \in 1..Len(sent)
      BY <1>0, <1>1, <1>4
    <3>2. sent[k] \in Nat /\ sent[k] + WindowMs <= t /\ new[k] = sent[k]
      BY <1>1, <1>2, <1>4, <3>1
    <3> QED
      BY <1>0, <1>5, <3>2
  <2>3. w.resetAt <= t + WindowMs /\ 1 <= Len(new)
    BY <1>0, <1>1, <1>4, <1>5
  <2> QED
    BY <1>5, <1>6, <2>1, <2>2, <2>3 DEF InWindow
<1>8. w.resetAt > sweep - WindowMs
  BY <1>5, <1>0
<1>9. ClientSound(w, new, t, sweep)
  BY <1>4, <1>5, <1>7, <1>8 DEF ClientSound, LogSound
<1> QED
  BY <1>9 DEF w, new

LEMMA WindowCounts ==
    ASSUME Rate!RateConstants, NEW win \in Windows, NEW sent, NEW t \in Nat, NEW sweep \in Nat,
           ClientSound(win, sent, t, sweep), t < win.resetAt, win.count < MaxCount
    PROVE  ClientSound([win EXCEPT !.count = @ + 1],
                       IF win.count + 1 <= Limit THEN Append(sent, t) ELSE sent, t, sweep)
<1>0. /\ Capacity \in Nat /\ Capacity >= 1 /\ WindowMs \in Nat /\ WindowMs >= 1 /\ Limit \in Nat
      /\ MaxTime \in Nat /\ MaxCount \in Nat /\ MaxCount >= 1 /\ Limit <= Capacity /\ Capacity = (IF Limit > 1 THEN Limit ELSE 1)
  BY RateNumbers
<1> DEFINE new == IF win.count + 1 <= Limit THEN Append(sent, t) ELSE sent
           w == [win EXCEPT !.count = @ + 1]
<1>length. Len(sent) \in Nat
  BY DEF ClientSound, LogSound
<1>1. sent \in Seq(Nat) /\ Len(sent) \in Nat /\ \A k \in 1..Len(sent) : sent[k] \in Nat /\ sent[k] <= t
  BY DEF ClientSound, LogSound
<1>2. win.count \in 1..MaxCount /\ win.resetAt \in Nat /\ win # Rate!NoWindow
  BY <1>0 DEF Windows, Rate!NoWindow
<1>3. w \in Windows /\ w.count = win.count + 1 /\ w.resetAt = win.resetAt /\ w # Rate!NoWindow
  BY <1>2, <1>0 DEF Windows, Rate!NoWindow
<1>4. InWindow(win, sent, t) /\ win.resetAt > sweep - WindowMs
  BY <1>2 DEF ClientSound, LogSound
<1> HIDE DEF w
<1>5. CASE win.count + 1 <= Limit
  <2>1. Lesser(win.count, Capacity) = win.count /\ Lesser(w.count, Capacity) = win.count + 1
    BY <1>2, <1>3, <1>5, <1>0 DEF Lesser
  <2>2. Room(sent, t)
    <3> SUFFICES ASSUME NEW k \in 1..(Len(sent) + 1 - 2 * Capacity) PROVE sent[k] + WindowMs <= t
      BY DEF Room
    <3>1. k \in 1..(Len(sent) - win.count - Capacity) /\ k \in 1..Len(sent)
      BY <1>length, <1>2, <1>5, <1>0
    <3>2. sent[k] + 2 * WindowMs <= win.resetAt /\ win.resetAt <= t + WindowMs
      BY <1>4, <2>1, <3>1 DEF InWindow
    <3>3. sent[k] \in Nat /\ win.resetAt \in Nat
      BY <1>1, <1>2, <3>1
    <3> QED
      BY <3>2, <3>3, <1>0
  <2>3. LogSound(new, t) /\ Len(new) = Len(sent) + 1 /\ \A k \in 1..Len(sent) : new[k] = sent[k]
    <3>1. new = Append(sent, t)
      BY <1>5
    <3>2. LogSound(sent, t)
      BY DEF ClientSound
    <3>3. /\ LogSound(Append(sent, t), t) /\ Len(Append(sent, t)) = Len(sent) + 1
          /\ \A k \in 1..Len(sent) : Append(sent, t)[k] = sent[k]
      BY <2>2, <3>2, RateSpacedAt
    <3> QED
      BY <3>1, <3>3
  <2> HIDE DEF new
  <2>length. Len(new) = Len(sent) + 1
    BY <2>3
  <2>4. InWindow(w, new, t)
    <3>1. /\ win.resetAt <= t + WindowMs /\ win.count <= Len(sent)
          /\ \A k \in 1..(Len(sent) - win.count) : sent[k] + WindowMs <= win.resetAt
          /\ \A k \in 1..(Len(sent) - win.count - Capacity) : sent[k] + 2 * WindowMs <= win.resetAt
      BY <1>4, <2>1 DEF InWindow
    <3>2. ASSUME NEW k \in 1..(Len(new) - (win.count + 1)) PROVE new[k] + WindowMs <= w.resetAt
      <4>1. k \in 1..(Len(sent) - win.count) /\ k \in 1..Len(sent)
        BY <1>length, <1>2, <2>length
      <4> QED
        BY <1>3, <2>3, <3>1, <4>1
    <3>3. ASSUME NEW k \in 1..(Len(new) - (win.count + 1) - Capacity) PROVE new[k] + 2 * WindowMs <= w.resetAt
      <4>1. k \in 1..(Len(sent) - win.count - Capacity) /\ k \in 1..Len(sent)
        BY <1>0, <1>length, <1>2, <2>length
      <4> QED
        BY <1>3, <2>3, <3>1, <4>1
    <3>4. win.count + 1 <= Len(new)
      BY <1>1, <1>2, <2>3, <3>1
    <3> QED
      BY <1>3, <2>1, <3>1, <3>2, <3>3, <3>4 DEF InWindow
  <2>5. ClientSound(w, new, t, sweep)
    BY <1>3, <1>4, <2>3, <2>4 DEF ClientSound, LogSound
  <2> QED
    BY <2>5 DEF w, new
<1>6. CASE ~(win.count + 1 <= Limit)
  <2>1. new = sent
    BY <1>6
  <2>2. Lesser(win.count, Capacity) = Capacity /\ Lesser(w.count, Capacity) = Capacity
    BY <1>2, <1>3, <1>6, <1>0 DEF Lesser
  <2>3. InWindow(w, sent, t)
    BY <1>3, <1>4, <2>2 DEF InWindow
  <2>4. ClientSound(w, sent, t, sweep)
    BY <1>3, <1>4, <2>3 DEF ClientSound, LogSound
  <2> QED
    BY <2>1, <2>4 DEF w
<1> QED
  BY <1>5, <1>6

LEMMA WindowSwept ==
    ASSUME Rate!RateConstants, NEW win \in {Rate!NoWindow} \cup Windows, NEW sent, NEW t \in Nat,
           ClientSound(win, sent, t, t)
    PROVE  ClientSound(IF win.resetAt <= t THEN Rate!NoWindow ELSE win, sent, t, t + WindowMs)
<1>0. /\ Capacity \in Nat /\ Capacity >= 1 /\ WindowMs \in Nat /\ WindowMs >= 1 /\ Limit \in Nat
      /\ MaxTime \in Nat /\ MaxCount \in Nat /\ MaxCount >= 1 /\ Limit <= Capacity /\ Capacity = (IF Limit > 1 THEN Limit ELSE 1)
  BY RateNumbers
<1>length. Len(sent) \in Nat
  BY DEF ClientSound, LogSound
<1>1. sent \in Seq(Nat) /\ Len(sent) \in Nat /\ \A k \in 1..Len(sent) : sent[k] \in Nat /\ sent[k] <= t
  BY DEF ClientSound, LogSound
<1>2. CASE win = Rate!NoWindow
  BY <1>2 DEF ClientSound, LogSound, Rate!NoWindow
<1>3. CASE win # Rate!NoWindow /\ win.resetAt <= t
  <2>1. InWindow(win, sent, t) /\ win \in Windows
    BY <1>3 DEF ClientSound, LogSound
  <2>2. Lesser(win.count, Capacity) \in Nat /\ Lesser(win.count, Capacity) <= Capacity /\ win.resetAt \in Nat
    BY <2>1, <1>0 DEF Lesser, Windows
  <2>3. Aged(sent, t)
    <3> SUFFICES ASSUME NEW k \in 1..(Len(sent) - Capacity) PROVE sent[k] + WindowMs <= t
      BY DEF Aged
    <3>1. k \in 1..(Len(sent) - Lesser(win.count, Capacity)) /\ k \in 1..Len(sent)
      BY <1>0, <1>1, <2>2
    <3>2. sent[k] + WindowMs <= win.resetAt /\ sent[k] \in Nat
      BY <1>1, <2>1, <3>1 DEF InWindow
    <3> QED
      BY <1>0, <1>3, <2>2, <3>2
  <2> QED
    BY <1>3, <2>3 DEF ClientSound, LogSound
<1>4. CASE win # Rate!NoWindow /\ ~(win.resetAt <= t)
  <2>1. win.resetAt \in Nat
    BY <1>4 DEF Windows
  <2> QED
    BY <1>4, <2>1, <1>0 DEF ClientSound, LogSound
<1> QED
  BY <1>2, <1>3, <1>4

LEMMA RateInitIInv == ASSUME Rate!RateConstants, Rate!RateInit PROVE RateIInv
<1>0. /\ Capacity \in Nat /\ Capacity >= 1 /\ WindowMs \in Nat /\ WindowMs >= 1 /\ Limit \in Nat
      /\ MaxTime \in Nat /\ MaxCount \in Nat /\ MaxCount >= 1 /\ Limit <= Capacity /\ Capacity = (IF Limit > 1 THEN Limit ELSE 1)
  BY RateNumbers
<1>1. <<>> \in Seq(Nat) /\ <<>> \in Seq(0..MaxTime) /\ Len(<<>>) = 0
  BY EmptySeq
<1>2. ClientSound(Rate!NoWindow, <<>>, 0, WindowMs)
  BY <1>1, <1>0 DEF ClientSound, LogSound, Spaced, Aged
<1> QED
  BY <1>1, <1>2, <1>0 DEF Rate!RateInit, RateIInv

LEMMA RateTickIInv == ASSUME Rate!RateConstants, RateIInv, Rate!Tick PROVE RateIInv'
<1>0. /\ Capacity \in Nat /\ Capacity >= 1 /\ WindowMs \in Nat /\ WindowMs >= 1 /\ Limit \in Nat
      /\ MaxTime \in Nat /\ MaxCount \in Nat /\ MaxCount >= 1 /\ Limit <= Capacity /\ Capacity = (IF Limit > 1 THEN Limit ELSE 1)
  BY RateNumbers
<1>1. now' = now + 1 /\ now < MaxTime /\ now < sweepAt /\ UNCHANGED <<windows, sweepAt, served>>
  BY DEF Rate!Tick
<1>2. uncapped' \in [Ips -> 0..MaxCount]
  BY <1>0 DEF Rate!Tick
<1>3. \A ip \in Ips : ClientSound(windows[ip], served[ip], now + 1, sweepAt)
  BY <1>0, TimePasses DEF RateIInv
<1> QED
  BY <1>1, <1>2, <1>3, <1>0 DEF RateIInv

LEMMA RateRequestIInv == ASSUME Rate!RateConstants, RateIInv, Rate!Request PROVE RateIInv'
<1>0. /\ Capacity \in Nat /\ Capacity >= 1 /\ WindowMs \in Nat /\ WindowMs >= 1 /\ Limit \in Nat
      /\ MaxTime \in Nat /\ MaxCount \in Nat /\ MaxCount >= 1 /\ Limit <= Capacity /\ Capacity = (IF Limit > 1 THEN Limit ELSE 1)
  BY RateNumbers
<1>1. PICK ip \in Ips, route \in Rate!SpendingRoutes :
        LET win == windows[ip] IN
        /\ UNCHANGED <<now, sweepAt>>
        /\ IF route \notin Rate!PaidRoutes \/ ip \in ExemptIps
           THEN /\ uncapped[ip] < MaxCount /\ uncapped' = [uncapped EXCEPT ![ip] = @ + 1]
                /\ UNCHANGED <<windows, served>>
           ELSE /\ Rate!Opens(win) \/ win.count < MaxCount
                /\ windows' = [windows EXCEPT ![ip] = IF Rate!Opens(win) THEN [count |-> 1, resetAt |-> now + WindowMs]
                                                      ELSE [win EXCEPT !.count = @ + 1]]
                /\ served' = IF Rate!Opens(win) \/ win.count + 1 <= Limit THEN [served EXCEPT ![ip] = Append(@, now)] ELSE served
                /\ UNCHANGED uncapped
  BY DEF Rate!Request
<1>2. CASE route \notin Rate!PaidRoutes \/ ip \in ExemptIps
  <2>1. now' = now /\ sweepAt' = sweepAt /\ windows' = windows /\ served' = served
    BY <1>1, <1>2, Zenon
  <2>2. uncapped' = [uncapped EXCEPT ![ip] = @ + 1] /\ uncapped[ip] < MaxCount /\ uncapped \in [Ips -> 0..MaxCount]
    BY <1>1, <1>2 DEF RateIInv
  <2>3. uncapped' \in [Ips -> 0..MaxCount]
    BY <1>0, <2>2
  <2> QED
    BY <2>1, <2>3 DEF RateIInv
<1>3. CASE ~(route \notin Rate!PaidRoutes \/ ip \in ExemptIps)
  <2> DEFINE win == windows[ip]
             w == IF Rate!Opens(win) THEN [count |-> 1, resetAt |-> now + WindowMs] ELSE [win EXCEPT !.count = @ + 1]
             sent == IF Rate!Opens(win) \/ win.count + 1 <= Limit THEN Append(served[ip], now) ELSE served[ip]
  <2>1. /\ now' = now /\ sweepAt' = sweepAt /\ uncapped' = uncapped
        /\ Rate!Opens(win) \/ win.count < MaxCount
        /\ windows' = [windows EXCEPT ![ip] = w]
        /\ served' = IF Rate!Opens(win) \/ win.count + 1 <= Limit THEN [served EXCEPT ![ip] = Append(@, now)] ELSE served
    BY <1>1, <1>3, Zenon
  <2>2. /\ win \in {Rate!NoWindow} \cup Windows /\ now \in Nat /\ sweepAt \in Nat /\ sweepAt <= now + WindowMs
        /\ ClientSound(win, served[ip], now, sweepAt)
    BY <1>0 DEF RateIInv
  <2>3. w \in Windows /\ ClientSound(w, sent, now, sweepAt)
    <3>1. CASE Rate!Opens(win)
      <4>1. win = Rate!NoWindow \/ win.resetAt <= now
        BY <3>1 DEF Rate!Opens, Rate!Expired
      <4> QED
        BY <2>2, <3>1, <4>1, WindowOpens, <1>0 DEF Windows
    <3>2. CASE ~Rate!Opens(win)
      <4>1. win \in Windows /\ now < win.resetAt /\ win.count < MaxCount
        BY <2>1, <2>2, <3>2 DEF Rate!Opens, Rate!Expired, Windows
      <4>2. sent = IF win.count + 1 <= Limit THEN Append(served[ip], now) ELSE served[ip]
        BY <3>2
      <4>3. w = [win EXCEPT !.count = @ + 1] /\ w \in Windows
        BY <3>2, <4>1, <1>0 DEF Windows
      <4> QED
        BY <2>2, <4>1, <4>2, <4>3, WindowCounts
    <3> QED
      BY <3>1, <3>2
  <2>4. sent \in Seq(0..MaxTime) /\ served' = [served EXCEPT ![ip] = sent]
    <3>1. served[ip] \in Seq(0..MaxTime) /\ now \in 0..MaxTime /\ served \in [Ips -> Seq(0..MaxTime)]
      BY DEF RateIInv
    <3>2. Append(served[ip], now) \in Seq(0..MaxTime)
      BY <3>1
    <3> HIDE DEF win
    <3> QED
      BY <2>1, <3>1, <3>2
  <2> HIDE DEF win, w, sent
  <2>5. windows' \in [Ips -> {Rate!NoWindow} \cup Windows] /\ served' \in [Ips -> Seq(0..MaxTime)]
    BY <2>1, <2>3, <2>4 DEF RateIInv
  <2>6. \A j \in Ips : windows'[j] = (IF j = ip THEN w ELSE windows[j]) /\ served'[j] = IF j = ip THEN sent ELSE served[j]
    BY <2>1, <2>4 DEF RateIInv
  <2>7. \A j \in Ips : ClientSound(windows'[j], served'[j], now, sweepAt)
    BY <2>3, <2>6 DEF RateIInv
  <2> QED
    BY <2>1, <2>5, <2>7 DEF RateIInv
<1> QED
  BY <1>2, <1>3

LEMMA RateSweepIInv == ASSUME Rate!RateConstants, RateIInv, Rate!Sweep PROVE RateIInv'
<1>0. /\ Capacity \in Nat /\ Capacity >= 1 /\ WindowMs \in Nat /\ WindowMs >= 1 /\ Limit \in Nat
      /\ MaxTime \in Nat /\ MaxCount \in Nat /\ MaxCount >= 1 /\ Limit <= Capacity /\ Capacity = (IF Limit > 1 THEN Limit ELSE 1)
  BY RateNumbers
<1> DEFINE swept(win) == IF win.resetAt <= now THEN Rate!NoWindow ELSE win
<1>1. /\ now = sweepAt /\ sweepAt' = sweepAt + WindowMs /\ UNCHANGED <<now, served, uncapped>>
      /\ windows' = [ip \in Ips |-> swept(windows[ip])]
  BY DEF Rate!Sweep, Rate!Expired
<1>2. \A ip \in Ips : ClientSound(swept(windows[ip]), served[ip], now, now + WindowMs)
  BY <1>1, WindowSwept DEF RateIInv
<1>3. windows' \in [Ips -> {Rate!NoWindow} \cup Windows]
  BY <1>1 DEF RateIInv
<1> HIDE DEF swept
<1> QED
  BY <1>1, <1>2, <1>3, <1>0 DEF RateIInv

LEMMA RateNextIInv ==
    ASSUME Rate!RateConstants, RateIInv, Rate!RateNext \/ UNCHANGED rateVars
    PROVE  RateIInv'
<1>1. CASE UNCHANGED rateVars
  BY <1>1 DEF rateVars, RateIInv
<1> QED
  BY <1>1, RateTickIInv, RateRequestIInv, RateSweepIInv DEF Rate!RateNext

LEMMA RateIInvImplies == ASSUME Rate!RateConstants, RateIInv PROVE Rate!RateTypeOK /\ Rate!AtMostTwiceTheLimit
<1>0. /\ Capacity \in Nat /\ Capacity >= 1 /\ WindowMs \in Nat /\ WindowMs >= 1 /\ Limit \in Nat
      /\ MaxTime \in Nat /\ MaxCount \in Nat /\ MaxCount >= 1 /\ Limit <= Capacity /\ Capacity = (IF Limit > 1 THEN Limit ELSE 1)
  BY RateNumbers
<1>1. Rate!AtMostTwiceTheLimit
  BY DEF RateIInv, ClientSound, LogSound, Spaced, Capacity, Rate!AtMostTwiceTheLimit
<1>2. ASSUME NEW ip \in Ips
      PROVE  /\ windows[ip] \in {Rate!NoWindow} \cup [count : 1..MaxCount, resetAt : 0..(now + WindowMs)]
             /\ windows[ip] # Rate!NoWindow => now <= windows[ip].resetAt + WindowMs
  <2>1. CASE windows[ip] # Rate!NoWindow
    <3>1. InWindow(windows[ip], served[ip], now) /\ windows[ip].resetAt > sweepAt - WindowMs /\ now <= sweepAt
      BY <2>1 DEF RateIInv, ClientSound, LogSound
    <3>2. windows[ip].resetAt \in Nat /\ windows[ip].count \in 1..MaxCount
          /\ windows[ip] = [count |-> windows[ip].count, resetAt |-> windows[ip].resetAt]
      BY <3>1 DEF InWindow, Windows
    <3> QED
      BY <3>1, <3>2, <1>0 DEF RateIInv, InWindow
  <2> QED
    BY <2>1
<1> QED
  BY <1>1, <1>2, <1>0 DEF RateIInv, Rate!RateTypeOK, Rate!Times
-----------------------------------------------------------------------------
(***************************************************************************)
(* The TEE registry cache: what the cache and each completion under way    *)
(* hold of the registry was true of it one fetch before it was cached.     *)
(***************************************************************************)
Hits == [at : Int, attested : BOOLEAN]
Completions == [stage : {"idle", "sent", "served", "done"}, hit : Hits, since : Nat, models : BOOLEAN,
                teeAttested : BOOLEAN, teeSource : {"none", "request_trace", "model_registry"}, failed : BOOLEAN]

HitSound(h, t, last) ==
    /\ h \in Hits /\ Tee!Never <= h.at /\ h.at <= t
    /\ h.attested => last # Tee!Never /\ h.at <= last + MaxFetch
CallSound(k, t, last) ==
    /\ k \in Completions /\ HitSound(k.hit, t, last)
    /\ k.stage \in {"sent", "served"} => k.since <= t /\ t <= k.since + MaxFetch
    /\ k.stage = "served" /\ k.models => last # Tee!Never /\ k.since <= last
    /\ k.stage = "done" /\ k.teeAttested /\ k.teeSource = "model_registry" =>
         last # Tee!Never /\ (~k.failed => t - last <= Ttl + MaxFetch)

TeeIInv ==
    /\ teeNow \in 0..MaxTime /\ listed \in BOOLEAN
    /\ lastTrue = Tee!Never \/ lastTrue \in 0..teeNow
    /\ listed => lastTrue = teeNow
    /\ HitSound(cache, teeNow, lastTrue)
    /\ call \in [Calls -> Completions]
    /\ \A c \in Calls : CallSound(call[c], teeNow, lastTrue)

LEMMA TeeNumbers ==
    ASSUME Tee!TeeConstants
    PROVE  /\ Ttl \in Nat /\ Ttl >= 1 /\ MaxFetch \in Nat /\ MaxTime \in Nat
           /\ Tee!Never \in Int /\ Tee!Never < 0
BY DEF Tee!TeeConstants, Tee!Never

LEMMA QuietSound ==
    ASSUME Tee!TeeConstants, NEW t \in Nat, NEW last
    PROVE  /\ CallSound(Tee!Quiet, t, last) /\ Tee!Quiet \in Completions
           /\ HitSound(Tee!NoHit, t, last)
<1>1. Ttl \in Nat /\ MaxFetch \in Nat /\ Tee!Never \in Int /\ Tee!Never < 0
  BY TeeNumbers
<1>2. Tee!NoHit \in Hits /\ Tee!NoHit.at = Tee!Never /\ Tee!NoHit.attested = FALSE
  BY <1>1 DEF Tee!NoHit, Hits
<1>3. HitSound(Tee!NoHit, t, last)
  BY <1>1, <1>2 DEF HitSound
<1>4. /\ Tee!Quiet \in Completions /\ Tee!Quiet.stage = "idle" /\ Tee!Quiet.hit = Tee!NoHit
  BY <1>2 DEF Tee!Quiet, Completions
<1> QED
  BY <1>3, <1>4 DEF CallSound

\* What is known stays known while no time passes and the listing changes.
LEMMA StillKnown ==
    ASSUME Tee!TeeConstants, NEW k, NEW h, NEW t \in Nat, NEW last \in Int, NEW new \in Int,
           last = Tee!Never \/ last \in 0..t, new = last \/ new = t
    PROVE  /\ HitSound(h, t, last) => HitSound(h, t, new)
           /\ CallSound(k, t, last) => CallSound(k, t, new)
<1>0. Ttl \in Nat /\ MaxFetch \in Nat /\ Tee!Never \in Int /\ Tee!Never < 0
  BY TeeNumbers
<1>1. ASSUME NEW hit, HitSound(hit, t, last) PROVE HitSound(hit, t, new)
  <2>1. hit.at \in Int
    BY <1>1 DEF HitSound, Hits
  <2> QED
    BY <1>0, <1>1, <2>1 DEF HitSound
<1>2. ASSUME CallSound(k, t, last) PROVE CallSound(k, t, new)
  <2>1. k.since \in Nat /\ HitSound(k.hit, t, new)
    BY <1>1, <1>2 DEF CallSound, Completions
  <2> QED
    BY <1>0, <1>2, <2>1 DEF CallSound
<1> QED
  BY <1>1, <1>2

LEMMA TeeInitIInv == ASSUME Tee!TeeConstants, Tee!TeeInit PROVE TeeIInv
<1>0. Ttl \in Nat /\ MaxFetch \in Nat /\ MaxTime \in Nat /\ Tee!Never \in Int /\ Tee!Never < 0
  BY TeeNumbers
<1>1. teeNow = 0 /\ listed \in BOOLEAN /\ cache = Tee!NoHit /\ call = [c \in Calls |-> Tee!Quiet]
      /\ lastTrue = IF listed THEN 0 ELSE Tee!Never
  BY DEF Tee!TeeInit
<1>2. HitSound(Tee!NoHit, 0, lastTrue) /\ CallSound(Tee!Quiet, 0, lastTrue) /\ Tee!Quiet \in Completions
  BY QuietSound
<1> QED
  BY <1>0, <1>1, <1>2 DEF TeeIInv

\* One completion moves; nothing else does.
LEMMA OneCall ==
    ASSUME TeeIInv, NEW c \in Calls, NEW k, CallSound(k, teeNow, lastTrue), call' = [call EXCEPT ![c] = k],
           UNCHANGED <<teeNow, listed, lastTrue>>, HitSound(cache', teeNow, lastTrue)
    PROVE  TeeIInv'
<1>1. k \in Completions
  BY DEF CallSound
<1>2. call' \in [Calls -> Completions] /\ \A d \in Calls : call'[d] = IF d = c THEN k ELSE call[d]
  BY <1>1 DEF TeeIInv
<1>3. \A d \in Calls : CallSound(call'[d], teeNow, lastTrue)
  BY <1>2 DEF TeeIInv
<1> QED
  BY <1>2, <1>3 DEF TeeIInv

LEMMA TeeTickIInv == ASSUME Tee!TeeConstants, TeeIInv, Tee!Tick PROVE TeeIInv'
<1>0. Ttl \in Nat /\ MaxFetch \in Nat /\ MaxTime \in Nat /\ Tee!Never \in Int /\ Tee!Never < 0 /\ teeNow \in Nat
  BY TeeNumbers DEF TeeIInv
<1>1. /\ teeNow < MaxTime /\ \A c \in Calls : call[c].stage \in {"sent", "served"} => teeNow < call[c].since + MaxFetch
      /\ teeNow' = teeNow + 1 /\ lastTrue' = IF listed THEN teeNow + 1 ELSE lastTrue
      /\ call' = [c \in Calls |-> IF call[c].stage = "done" THEN Tee!Quiet ELSE call[c]]
      /\ listed' = listed /\ cache' = cache
  BY DEF Tee!Tick
<1>2. lastTrue' \in Int /\ (lastTrue' = Tee!Never \/ lastTrue' \in 0..teeNow')
      /\ (lastTrue # Tee!Never => lastTrue' # Tee!Never /\ lastTrue <= lastTrue') /\ lastTrue \in Int
  <2>1. lastTrue \in Int /\ (lastTrue = Tee!Never \/ lastTrue \in 0..teeNow)
    BY <1>0 DEF TeeIInv
  <2>2. CASE listed
    <3>1. lastTrue' = teeNow + 1
      BY <1>1, <2>2
    <3> QED
      BY <1>0, <1>1, <2>1, <3>1
  <2>3. CASE ~listed
    <3>1. lastTrue' = lastTrue
      BY <1>1, <2>3
    <3> QED
      BY <1>0, <1>1, <2>1, <3>1
  <2> QED
    BY <2>2, <2>3
<1>3. ASSUME NEW hit, HitSound(hit, teeNow, lastTrue) PROVE HitSound(hit, teeNow', lastTrue')
  <2>1. hit.at \in Int
    BY <1>3 DEF HitSound, Hits
  <2> QED
    BY <1>0, <1>1, <1>2, <1>3, <2>1 DEF HitSound
<1>4. ASSUME NEW c \in Calls PROVE CallSound(call'[c], teeNow', lastTrue') /\ call'[c] \in Completions
  <2>1. CASE call[c].stage = "done"
    BY <1>0, <1>1, <2>1, QuietSound
  <2>2. CASE call[c].stage # "done"
    <3>1. call'[c] = call[c] /\ CallSound(call[c], teeNow, lastTrue)
      BY <1>1, <2>2 DEF TeeIInv
    <3>2. call[c].since \in Nat /\ HitSound(call[c].hit, teeNow', lastTrue') /\ call[c] \in Completions
      BY <1>3, <3>1 DEF CallSound, Completions
    <3>3. call[c].stage \in {"sent", "served"} => call[c].since <= teeNow' /\ teeNow' <= call[c].since + MaxFetch
      BY <1>0, <1>1, <3>1, <3>2 DEF CallSound
    <3>4. call[c].stage = "served" /\ call[c].models => lastTrue' # Tee!Never /\ call[c].since <= lastTrue'
      BY <1>2, <3>1, <3>2 DEF CallSound
    <3> QED
      BY <2>2, <3>1, <3>2, <3>3, <3>4 DEF CallSound
  <2> QED
    BY <2>1, <2>2
<1>5. call' \in [Calls -> Completions]
  BY <1>1, <1>4
<1>6. HitSound(cache', teeNow', lastTrue')
  BY <1>1, <1>3 DEF TeeIInv
<1>7. listed' => lastTrue' = teeNow'
  BY <1>1
<1>8. teeNow' \in 0..MaxTime /\ listed' \in BOOLEAN
  BY <1>0, <1>1 DEF TeeIInv
<1> QED
  BY <1>2, <1>4, <1>5, <1>6, <1>7, <1>8 DEF TeeIInv

LEMMA ListingIInv == ASSUME Tee!TeeConstants, TeeIInv, Tee!ListingChanges PROVE TeeIInv'
<1>1. /\ listed' = ~listed /\ lastTrue' = IF listed THEN lastTrue ELSE teeNow
      /\ teeNow' = teeNow /\ cache' = cache /\ call' = call
  BY DEF Tee!ListingChanges
<1>2. /\ lastTrue \in Int /\ lastTrue' \in Int /\ teeNow \in Nat
      /\ lastTrue = Tee!Never \/ lastTrue \in 0..teeNow
      /\ lastTrue' = Tee!Never \/ lastTrue' \in 0..teeNow
      /\ lastTrue' = lastTrue \/ lastTrue' = teeNow
  BY <1>1, TeeNumbers DEF TeeIInv
<1>3. HitSound(cache, teeNow, lastTrue')
  BY <1>2, StillKnown DEF TeeIInv
<1>4. \A c \in Calls : CallSound(call[c], teeNow, lastTrue')
  BY <1>2, StillKnown DEF TeeIInv
<1> QED
  BY <1>1, <1>2, <1>3, <1>4 DEF TeeIInv

LEMMA CompletedIInv == ASSUME Tee!TeeConstants, TeeIInv, NEW c \in Calls, Tee!Completed(c) PROVE TeeIInv'
<1>0. Ttl \in Nat /\ MaxFetch \in Nat /\ MaxTime \in Nat /\ teeNow \in Nat /\ (lastTrue # Tee!Never => lastTrue \in Nat)
      /\ HitSound(cache, teeNow, lastTrue)
  BY TeeNumbers DEF TeeIInv
<1>1. CallSound(Tee!Quiet, teeNow, lastTrue) /\ Tee!Quiet \in Completions
  BY <1>0, QuietSound
<1>2. PICK flag \in {"true", "false", "absent"} :
        /\ call[c].stage = "idle" /\ UNCHANGED <<teeNow, listed, lastTrue, cache>>
        /\ call' = [call EXCEPT ![c] =
             IF flag # "absent"
             THEN [Tee!Quiet EXCEPT !.stage = "done", !.teeAttested = flag = "true", !.teeSource = "request_trace"]
             ELSE IF Tee!Fresh(cache)
                  THEN Tee!Evidence(c, cache.attested, "model_registry")
                  ELSE [Tee!Quiet EXCEPT !.stage = "sent", !.hit = cache, !.since = teeNow]]
  BY DEF Tee!Completed
<1>3. CASE flag # "absent"
  <2> DEFINE k == [Tee!Quiet EXCEPT !.stage = "done", !.teeAttested = flag = "true", !.teeSource = "request_trace"]
  <2>1. k \in Completions /\ k.stage = "done" /\ k.teeSource = "request_trace" /\ k.hit = Tee!Quiet.hit
    BY <1>1 DEF Completions
  <2>2. call' = [call EXCEPT ![c] = k]
    BY <1>2, <1>3
  <2> HIDE DEF k
  <2>3. CallSound(k, teeNow, lastTrue)
    BY <1>1, <2>1 DEF CallSound
  <2> QED
    BY <1>0, <1>2, <2>2, <2>3, OneCall
<1>4. CASE flag = "absent" /\ Tee!Fresh(cache)
  <2> DEFINE k == Tee!Evidence(c, cache.attested, "model_registry")
  <2>1. CallSound(call[c], teeNow, lastTrue) /\ call[c] \in Completions /\ cache.attested \in BOOLEAN /\ cache.at \in Int
    BY <1>0 DEF TeeIInv, HitSound, Hits
  <2>2. /\ k \in Completions /\ k.stage = "done" /\ k.teeAttested = cache.attested /\ k.hit = call[c].hit
    BY <2>1 DEF Completions, Tee!Evidence
  <2>3. call' = [call EXCEPT ![c] = k]
    BY <1>2, <1>4
  <2>4. teeNow - cache.at < Ttl
    BY <1>4 DEF Tee!Fresh
  <2> HIDE DEF k
  <2>5. cache.attested => lastTrue # Tee!Never /\ teeNow - lastTrue <= Ttl + MaxFetch
    BY <1>0, <2>1, <2>4 DEF HitSound
  <2>6. CallSound(k, teeNow, lastTrue)
    BY <2>1, <2>2, <2>5 DEF CallSound
  <2> QED
    BY <1>0, <1>2, <2>3, <2>6, OneCall
<1>5. CASE flag = "absent" /\ ~Tee!Fresh(cache)
  <2> DEFINE k == [Tee!Quiet EXCEPT !.stage = "sent", !.hit = cache, !.since = teeNow]
  <2>1. k \in Completions /\ k.stage = "sent" /\ k.hit = cache /\ k.since = teeNow
    BY <1>0, <1>1 DEF Completions, HitSound
  <2>2. call' = [call EXCEPT ![c] = k]
    BY <1>2, <1>5
  <2> HIDE DEF k
  <2>3. CallSound(k, teeNow, lastTrue)
    BY <1>0, <2>1 DEF CallSound
  <2> QED
    BY <1>0, <1>2, <2>2, <2>3, OneCall
<1> QED
  BY <1>3, <1>4, <1>5

LEMMA ServedIInv == ASSUME Tee!TeeConstants, TeeIInv, NEW c \in Calls, Tee!Served(c) PROVE TeeIInv'
<1> DEFINE k == [call[c] EXCEPT !.stage = "served", !.models = listed]
<1>1. /\ call[c].stage = "sent" /\ call' = [call EXCEPT ![c] = k]
      /\ UNCHANGED <<teeNow, listed, lastTrue, cache>>
  BY DEF Tee!Served, TeeIInv
<1>2. CallSound(call[c], teeNow, lastTrue) /\ call[c] \in Completions /\ listed \in BOOLEAN /\ (listed => lastTrue = teeNow)
  BY DEF TeeIInv
<1>3. k \in Completions /\ k.stage = "served" /\ k.models = listed /\ k.hit = call[c].hit /\ k.since = call[c].since
  BY <1>2 DEF Completions
<1> HIDE DEF k
<1>4. teeNow \in Nat /\ teeNow # Tee!Never
  BY TeeNumbers DEF TeeIInv
<1>5. CallSound(k, teeNow, lastTrue)
  BY <1>1, <1>2, <1>3, <1>4 DEF CallSound
<1>6. HitSound(cache', teeNow, lastTrue)
  BY <1>1 DEF TeeIInv
<1> QED
  BY <1>1, <1>5, <1>6, OneCall

LEMMA FetchLandsIInv == ASSUME Tee!TeeConstants, TeeIInv, NEW c \in Calls, Tee!FetchLands(c) PROVE TeeIInv'
<1> DEFINE k == Tee!Evidence(c, call[c].models, "model_registry")
<1>0. Ttl \in Nat /\ MaxFetch \in Nat /\ teeNow \in Nat /\ (lastTrue # Tee!Never => lastTrue \in Nat) /\ Tee!Never \in Int /\ Tee!Never < 0
  BY TeeNumbers DEF TeeIInv
<1>1. /\ call[c].stage = "served" /\ cache' = [at |-> teeNow, attested |-> call[c].models]
      /\ call' = [call EXCEPT ![c] = k] /\ UNCHANGED <<teeNow, listed, lastTrue>>
  BY DEF Tee!FetchLands
<1>2. CallSound(call[c], teeNow, lastTrue) /\ call[c] \in Completions /\ call[c].models \in BOOLEAN /\ call[c].since \in Nat
  BY DEF TeeIInv, Completions
<1>3. k \in Completions /\ k.stage = "done" /\ k.teeAttested = call[c].models /\ k.hit = call[c].hit
  BY <1>2 DEF Completions, Tee!Evidence
<1> HIDE DEF k
<1>4. call[c].models => lastTrue # Tee!Never /\ teeNow <= lastTrue + MaxFetch /\ teeNow - lastTrue <= Ttl + MaxFetch
  BY <1>0, <1>1, <1>2 DEF CallSound
<1>5. CallSound(k, teeNow, lastTrue)
  BY <1>2, <1>3, <1>4 DEF CallSound
<1>6. HitSound(cache', teeNow, lastTrue)
  <2>1. cache' \in Hits /\ cache'.at = teeNow /\ cache'.attested = call[c].models
    BY <1>0, <1>1, <1>2 DEF Hits
  <2> QED
    BY <1>0, <1>4, <2>1 DEF HitSound
<1> QED
  BY <1>1, <1>5, <1>6, OneCall

LEMMA FetchFailsIInv == ASSUME Tee!TeeConstants, TeeIInv, NEW c \in Calls, Tee!FetchFails(c) PROVE TeeIInv'
<1> DEFINE k == [Tee!Evidence(c, call[c].hit.attested, "model_registry") EXCEPT !.failed = TRUE]
<1>1. call' = [call EXCEPT ![c] = k] /\ UNCHANGED <<teeNow, listed, lastTrue, cache>>
  BY DEF Tee!FetchFails
<1>2. CallSound(call[c], teeNow, lastTrue) /\ call[c] \in Completions /\ call[c].hit.attested \in BOOLEAN
  BY DEF TeeIInv, Completions, Hits
<1>3. k \in Completions /\ k.stage = "done" /\ k.teeAttested = call[c].hit.attested /\ k.hit = call[c].hit /\ k.failed
  BY <1>2 DEF Completions, Tee!Evidence
<1> HIDE DEF k
<1>4. CallSound(k, teeNow, lastTrue)
  BY <1>2, <1>3 DEF CallSound, HitSound
<1>5. HitSound(cache', teeNow, lastTrue)
  BY <1>1 DEF TeeIInv
<1> QED
  BY <1>1, <1>4, <1>5, OneCall

LEMMA TeeNextIInv ==
    ASSUME Tee!TeeConstants, TeeIInv, Tee!TeeNext \/ UNCHANGED teeVars
    PROVE  TeeIInv'
<1>1. CASE UNCHANGED teeVars
  BY <1>1 DEF teeVars, TeeIInv
<1> QED
  BY <1>1, TeeTickIInv, ListingIInv, CompletedIInv, ServedIInv, FetchLandsIInv, FetchFailsIInv DEF Tee!TeeNext

LEMMA TeeIInvImplies == ASSUME Tee!TeeConstants, TeeIInv PROVE Tee!TeeTypeOK /\ Tee!AttestedWasListed
<1>0. teeNow \in 0..MaxTime /\ MaxTime \in Nat /\ Tee!Never \in Int /\ Tee!Never < 0
  BY TeeNumbers DEF TeeIInv
<1>1. Tee!AttestedWasListed
  BY DEF TeeIInv, CallSound, Tee!AttestedWasListed, Tee!FromRegistry, Tee!Evidenced
<1>2. lastTrue \in Tee!Never..teeNow
  BY <1>0 DEF TeeIInv
<1>3. \A h : HitSound(h, teeNow, lastTrue) => h.at \in Tee!Never..teeNow /\ h.attested \in BOOLEAN
  BY <1>0 DEF HitSound, Hits
<1>4. \A c \in Calls : HitSound(call[c].hit, teeNow, lastTrue) /\ call[c] \in Completions
  BY DEF TeeIInv, CallSound
<1>5. \A c \in Calls : /\ call[c].stage \in {"idle", "sent", "served", "done"} /\ call[c].hit.at \in Tee!Never..teeNow
                       /\ call[c].teeSource \in {"none", "request_trace", "model_registry"}
  BY <1>3, <1>4 DEF Completions
<1>6. cache.at \in Tee!Never..teeNow /\ cache.attested \in BOOLEAN
  BY <1>3 DEF TeeIInv
<1> QED
  BY <1>0, <1>1, <1>2, <1>5, <1>6 DEF TeeIInv, Tee!TeeTypeOK
-----------------------------------------------------------------------------
(***************************************************************************)
(* The envelopes POST /compile saves: what the table, the registry, the    *)
(* storage network and a reader hold of one compile is what the compile    *)
(* made, and a principal's nonce counts its registered compiles.           *)
(***************************************************************************)
Envs == Compiled!Envelopes
CompileStates == [at : {"start", "model", "pin", "uploading", "save", "answered", "failed"},
                  principal : Principals, playbook : BOOLEAN, nonce : 0 .. Cardinality(Compiles),
                  envelope : Envs \cup {Absent}, hash : Envs \cup {Absent}, root : Envs \cup {Absent}]
IntentRows == [exists : BOOLEAN, hash : Envs \cup {Absent}, root : Envs \cup {Absent}]
Fetches == [at : {"start", "missing", "failed", "download", "answered"}, row : IntentRows, payload : Envs \cup {Absent}]

Of(envelope, hash) == envelope \in Envs /\ hash \in Envs /\ [envelope EXCEPT !.status = "DRAFT"] = hash
CompileSound(c, k, held) ==
    /\ k \in CompileStates
    /\ k.at \in {"start", "model"} => k.hash = Absent /\ k.root = Absent
    /\ k.at \in {"pin", "uploading", "save", "answered"} => k.hash # Absent
    /\ k.hash # Absent => k.hash.of = c /\ Of(k.envelope, k.hash)
    /\ k.root # Absent => k.hash # Absent /\ k.root = k.envelope /\ k.root \in held
RowSound(row, k) ==
    /\ row \in IntentRows
    /\ row.exists <=> k.at = "answered"
    /\ row.exists => row.hash = k.hash /\ row.root = k.root
    /\ ~row.exists => row.root = Absent
FetchSound(f) ==
    /\ f \in Fetches
    /\ f.at \in {"download", "answered"} => Of(f.row.root, f.row.hash)
    /\ f.at = "answered" => f.payload = f.row.root
Registrations(p) == {c \in Compiles : compile[c].principal = p /\ compile[c].hash \in registered}

EnvelopesIInv ==
    /\ compile \in [Compiles -> CompileStates] /\ intentRows \in [Compiles -> IntentRows]
    /\ \A c \in Compiles : CompileSound(c, compile[c], storage) /\ RowSound(intentRows[c], compile[c])
    /\ uploading \subseteq Envs /\ storage \subseteq Envs /\ registered \subseteq Envs
    /\ \A e \in registered : compile[e.of].hash = e /\ compile[e.of].at = "answered"
    /\ nonces \in [Principals -> Nat] /\ \A p \in Principals : nonces[p] = Cardinality(Registrations(p))
    /\ fetch \in [Readers -> Fetches] /\ \A r \in Readers : FetchSound(fetch[r])
    /\ restarts \in 0 .. Restarts

\* Envelopes counts with the same operators of FiniteSets.
LEMMA SameCounting ==
    ASSUME NEW S
    PROVE  Compiled!IsFiniteSet(S) = IsFiniteSet(S) /\ Compiled!Cardinality(S) = Cardinality(S)
BY DEF Compiled!IsFiniteSet, IsFiniteSet, Compiled!Cardinality, Cardinality

LEMMA DraftIsOf ==
    ASSUME NEW draft \in Envs, draft.status = "DRAFT", NEW status \in {"DRAFT", "ACTIVE"}
    PROVE  Of([draft EXCEPT !.status = status], draft)
BY DEF Of, Envs, Compiled!Envelopes

LEMMA EnvelopesNumbers ==
    ASSUME Compiled!EnvelopesConstants
    PROVE  IsFiniteSet(Compiles) /\ Absent \notin Envs /\ Restarts \in Nat /\ Cardinality(Compiles) \in Nat
<1>1. IsFiniteSet(Compiles) /\ Absent \notin Envs /\ Restarts \in Nat
  BY SameCounting DEF Compiled!EnvelopesConstants, Envs
<1> QED
  BY <1>1, FS_CardinalityType

LEMMA RegistrationsCounted ==
    ASSUME Compiled!EnvelopesConstants, NEW p
    PROVE  /\ IsFiniteSet(Registrations(p))
           /\ Cardinality(Registrations(p)) \in 0 .. Cardinality(Compiles)
<1>1. Registrations(p) \subseteq Compiles /\ IsFiniteSet(Compiles)
  BY EnvelopesNumbers DEF Registrations
<1>2. IsFiniteSet(Registrations(p)) /\ Cardinality(Registrations(p)) <= Cardinality(Compiles)
  BY <1>1, FS_Subset
<1> QED
  BY <1>2, FS_CardinalityType, EnvelopesNumbers

LEMMA RegisteredAnswered ==
    ASSUME Compiled!EnvelopesConstants, EnvelopesIInv, NEW c \in Compiles, compile[c].hash \in registered
    PROVE  compile[c].at = "answered"
<1>1. CompileSound(c, compile[c], storage) /\ compile[c].hash # Absent
  BY EnvelopesNumbers DEF EnvelopesIInv
<1> QED
  BY <1>1 DEF EnvelopesIInv, CompileSound

LEMMA FreshSound ==
    ASSUME Compiled!EnvelopesConstants, NEW p \in Principals, NEW c \in Compiles, NEW held
    PROVE  /\ Compiled!Fresh(p) \in CompileStates /\ Compiled!NoRow \in IntentRows
           /\ CompileSound(c, Compiled!Fresh(p), held) /\ RowSound(Compiled!NoRow, Compiled!Fresh(p))
           /\ Compiled!Fresh(p).hash = Absent
<1>1. Cardinality(Compiles) \in Nat
  BY EnvelopesNumbers
<1>2. Compiled!Fresh(p) \in CompileStates /\ Compiled!Fresh(p).at = "start"
      /\ Compiled!Fresh(p).hash = Absent /\ Compiled!Fresh(p).root = Absent
  BY <1>1 DEF Compiled!Fresh, CompileStates
<1>3. Compiled!NoRow \in IntentRows /\ Compiled!NoRow.exists = FALSE /\ Compiled!NoRow.root = Absent
  BY DEF Compiled!NoRow, IntentRows
<1> QED
  BY <1>2, <1>3 DEF CompileSound, RowSound

LEMMA NoFetchSound ==
    /\ FetchSound(Compiled!NoFetch)
    /\ \A at \in {"missing", "failed"} : FetchSound([Compiled!NoFetch EXCEPT !.at = at])
<1>1. Compiled!NoRow \in IntentRows
  BY DEF Compiled!NoRow, IntentRows
<1>2. Compiled!NoFetch \in Fetches /\ Compiled!NoFetch.at = "start"
  BY <1>1 DEF Compiled!NoFetch, Fetches
<1>3. ASSUME NEW at \in {"missing", "failed"} PROVE FetchSound([Compiled!NoFetch EXCEPT !.at = at])
  <2>1. [Compiled!NoFetch EXCEPT !.at = at] \in Fetches /\ [Compiled!NoFetch EXCEPT !.at = at].at = at
    BY <1>2 DEF Fetches
  <2> QED
    BY <2>1 DEF FetchSound
<1> QED
  BY <1>2, <1>3 DEF FetchSound

LEMMA EnvelopesInitIInv == ASSUME Compiled!EnvelopesConstants, Compiled!EnvelopesInit PROVE EnvelopesIInv
<1>1. /\ compile \in [Compiles -> {Compiled!Fresh(p) : p \in Principals}]
      /\ intentRows = [c \in Compiles |-> Compiled!NoRow]
      /\ uploading = {} /\ storage = {} /\ registered = {}
      /\ nonces = [p \in Principals |-> 0] /\ fetch = [r \in Readers |-> Compiled!NoFetch] /\ restarts = 0
  BY DEF Compiled!EnvelopesInit
<1>2. ASSUME NEW c \in Compiles
      PROVE  /\ compile[c] \in CompileStates /\ intentRows[c] \in IntentRows
             /\ CompileSound(c, compile[c], storage) /\ RowSound(intentRows[c], compile[c])
  <2>1. PICK p \in Principals : compile[c] = Compiled!Fresh(p)
    BY <1>1
  <2> QED
    BY <1>1, <2>1, FreshSound
<1>3. compile \in [Compiles -> CompileStates] /\ intentRows \in [Compiles -> IntentRows]
  BY <1>1, <1>2
<1>4. \A p \in Principals : Registrations(p) = {} /\ nonces[p] = Cardinality(Registrations(p))
  BY <1>1, FS_EmptySet DEF Registrations
<1>5. fetch \in [Readers -> Fetches] /\ \A r \in Readers : FetchSound(fetch[r])
  BY <1>1, NoFetchSound DEF FetchSound
<1>6. restarts \in 0 .. Restarts /\ nonces \in [Principals -> Nat]
  BY <1>1, EnvelopesNumbers
<1> QED
  BY <1>1, <1>2, <1>3, <1>4, <1>5, <1>6 DEF EnvelopesIInv

\* One compile that has not answered takes a step, and perhaps saves its row.
LEMMA CompileMoves ==
    ASSUME Compiled!EnvelopesConstants, EnvelopesIInv, NEW c \in Compiles, NEW k, NEW row,
           compile[c].at # "answered", CompileSound(c, k, storage), RowSound(row, k),
           k.principal = compile[c].principal, compile[c].hash \in {k.hash, Absent},
           compile' = [compile EXCEPT ![c] = k], intentRows' = [intentRows EXCEPT ![c] = row],
           uploading' \subseteq Envs, UNCHANGED <<storage, nonces, registered, fetch, restarts>>
    PROVE  EnvelopesIInv'
<1>1. k \in CompileStates /\ row \in IntentRows
  BY DEF CompileSound, RowSound
<1>2. /\ compile' \in [Compiles -> CompileStates] /\ \A d \in Compiles : compile'[d] = IF d = c THEN k ELSE compile[d]
      /\ intentRows' \in [Compiles -> IntentRows] /\ \A d \in Compiles : intentRows'[d] = IF d = c THEN row ELSE intentRows[d]
  BY <1>1 DEF EnvelopesIInv
<1>3. storage' = storage /\ nonces' = nonces /\ registered' = registered /\ fetch' = fetch /\ restarts' = restarts
  OBVIOUS
<1>4. \A d \in Compiles : CompileSound(d, compile'[d], storage') /\ RowSound(intentRows'[d], compile'[d])
  BY <1>2, <1>3 DEF EnvelopesIInv
<1>5. compile[c].hash \notin registered /\ k.hash \notin registered
  <2>1. compile[c].hash \notin registered
    BY RegisteredAnswered
  <2>2. ASSUME k.hash \in registered PROVE FALSE
    <3>1. k.hash \in Envs /\ k.hash.of = c
      BY <2>2, EnvelopesNumbers DEF EnvelopesIInv, CompileSound
    <3> QED
      BY <2>2, <3>1 DEF EnvelopesIInv
  <2> QED
    BY <2>1, <2>2
<1>6. \A e \in registered' : compile'[e.of].hash = e /\ compile'[e.of].at = "answered"
  <2> SUFFICES ASSUME NEW e \in registered PROVE compile'[e.of].hash = e /\ compile'[e.of].at = "answered"
    BY <1>3
  <2>1. e.of \in Compiles /\ compile[e.of].hash = e /\ compile[e.of].at = "answered"
    BY DEF EnvelopesIInv, Envs, Compiled!Envelopes
  <2> QED
    BY <1>2, <2>1
<1>7. \A p \in Principals : Registrations(p)' = Registrations(p)
  BY <1>2, <1>3, <1>5 DEF Registrations
<1> QED
  BY <1>2, <1>3, <1>4, <1>6, <1>7 DEF EnvelopesIInv

LEMMA ReadNonceIInv == ASSUME Compiled!EnvelopesConstants, EnvelopesIInv, NEW c \in Compiles, Compiled!ReadNonce(c) PROVE EnvelopesIInv'
<1>1. PICK playbook \in BOOLEAN :
        compile' = [compile EXCEPT ![c].at = "model", ![c].playbook = playbook, ![c].nonce = nonces[compile[c].principal]]
  BY DEF Compiled!ReadNonce
<1> DEFINE k == [compile[c] EXCEPT !.at = "model", !.playbook = playbook, !.nonce = nonces[compile[c].principal]]
<1>2. /\ compile[c].at = "start" /\ CompileSound(c, compile[c], storage) /\ RowSound(intentRows[c], compile[c])
      /\ compile[c] \in CompileStates /\ compile[c].principal \in Principals
      /\ UNCHANGED <<intentRows, uploading, storage, nonces, registered, fetch, restarts>>
  BY DEF Compiled!ReadNonce, EnvelopesIInv, CompileStates
<1>3. nonces[compile[c].principal] \in 0 .. Cardinality(Compiles)
  BY <1>2, RegistrationsCounted DEF EnvelopesIInv
<1>4. /\ k \in CompileStates /\ k.at = "model" /\ k.principal = compile[c].principal /\ k.envelope = compile[c].envelope
      /\ k.hash = compile[c].hash /\ k.root = compile[c].root
  BY <1>2, <1>3 DEF CompileStates
<1>5. compile' = [compile EXCEPT ![c] = k] /\ intentRows' = [intentRows EXCEPT ![c] = intentRows[c]]
  BY <1>1, <1>2 DEF EnvelopesIInv
<1> HIDE DEF k
<1>6. CompileSound(c, k, storage) /\ RowSound(intentRows[c], k)
  BY <1>2, <1>4 DEF CompileSound, RowSound
<1> QED
  BY <1>2, <1>4, <1>5, <1>6, CompileMoves DEF EnvelopesIInv

LEMMA CompileIntentIInv == ASSUME Compiled!EnvelopesConstants, EnvelopesIInv, NEW c \in Compiles, Compiled!CompileIntent(c) PROVE EnvelopesIInv'
<1> DEFINE draft == [of |-> c, nonce |-> compile[c].nonce, steps |-> compile[c].playbook, status |-> "DRAFT"]
<1>1. PICK challenge \in BOOLEAN :
        compile' = [compile EXCEPT ![c].at = "pin", ![c].hash = draft,
                                   ![c].envelope = [draft EXCEPT !.status = IF challenge THEN "DRAFT" ELSE "ACTIVE"]]
  BY DEF Compiled!CompileIntent
<1> DEFINE envelope == [draft EXCEPT !.status = IF challenge THEN "DRAFT" ELSE "ACTIVE"]
           k == [compile[c] EXCEPT !.at = "pin", !.hash = draft, !.envelope = envelope]
<1>2. /\ compile[c].at = "model" /\ CompileSound(c, compile[c], storage) /\ RowSound(intentRows[c], compile[c])
      /\ compile[c] \in CompileStates
      /\ UNCHANGED <<intentRows, uploading, storage, nonces, registered, fetch, restarts>>
  BY DEF Compiled!CompileIntent, EnvelopesIInv
<1>3. draft \in Envs /\ draft.of = c /\ Of(envelope, draft)
  <2>1. compile[c].nonce \in 0 .. Cardinality(Compiles) /\ compile[c].playbook \in BOOLEAN
    BY <1>2 DEF CompileStates
  <2>2. draft \in Envs /\ draft.of = c
    BY <2>1, SameCounting DEF Envs, Compiled!Envelopes
  <2>3. draft.status = "DRAFT" /\ (IF challenge THEN "DRAFT" ELSE "ACTIVE") \in {"DRAFT", "ACTIVE"}
    OBVIOUS
  <2> HIDE DEF draft
  <2>4. Of(envelope, draft)
    BY <2>2, <2>3, DraftIsOf
  <2> QED
    BY <2>2, <2>4
<1>4. envelope \in Envs
  BY <1>3 DEF Of
<1>5. compile' = [compile EXCEPT ![c] = k] /\ intentRows' = [intentRows EXCEPT ![c] = intentRows[c]]
  BY <1>1, <1>2 DEF EnvelopesIInv
<1> HIDE DEF draft, envelope
<1>6. /\ k \in CompileStates /\ k.at = "pin" /\ k.principal = compile[c].principal /\ k.envelope = envelope
      /\ k.hash = draft /\ k.root = compile[c].root
  BY <1>2, <1>3, <1>4 DEF CompileStates
<1> HIDE DEF k
<1>7. CompileSound(c, k, storage) /\ RowSound(intentRows[c], k) /\ compile[c].hash = Absent
  BY <1>2, <1>3, <1>6, EnvelopesNumbers DEF CompileSound, RowSound
<1> QED
  BY <1>2, <1>5, <1>6, <1>7, CompileMoves DEF EnvelopesIInv

\* A compile that only moves on, and has not answered before or after.
LEMMA CompileGoes ==
    ASSUME Compiled!EnvelopesConstants, EnvelopesIInv, NEW c \in Compiles, NEW to \in {"uploading", "save", "failed"},
           compile[c].at \in {"start", "model", "pin", "uploading", "save"},
           compile[c].at \in {"pin", "uploading", "save"} \/ to = "failed",
           Compiled!Goes(c, to), uploading' \subseteq Envs,
           UNCHANGED <<intentRows, storage, nonces, registered, fetch, restarts>>
    PROVE  EnvelopesIInv'
<1> DEFINE k == [compile[c] EXCEPT !.at = to]
<1>1. CompileSound(c, compile[c], storage) /\ RowSound(intentRows[c], compile[c]) /\ compile[c] \in CompileStates
  BY DEF EnvelopesIInv
<1>2. /\ k \in CompileStates /\ k.at = to /\ k.principal = compile[c].principal /\ k.envelope = compile[c].envelope
      /\ k.hash = compile[c].hash /\ k.root = compile[c].root
  BY <1>1 DEF CompileStates
<1>3. compile' = [compile EXCEPT ![c] = k] /\ intentRows' = [intentRows EXCEPT ![c] = intentRows[c]]
  BY DEF EnvelopesIInv, Compiled!Goes
<1> HIDE DEF k
<1>4. CompileSound(c, k, storage) /\ RowSound(intentRows[c], k)
  BY <1>1, <1>2 DEF CompileSound, RowSound
<1>5. compile[c].at # "answered" /\ compile[c].hash \in {k.hash, Absent}
  BY <1>2
<1> QED
  BY <1>2, <1>3, <1>4, <1>5, CompileMoves

LEMMA UploadIInv == ASSUME Compiled!EnvelopesConstants, EnvelopesIInv, NEW c \in Compiles, Compiled!Upload(c) PROVE EnvelopesIInv'
<1>1. /\ compile[c].at = "pin" /\ Compiled!Goes(c, "uploading")
      /\ uploading' = uploading \cup {compile[c].envelope} \/ uploading' = uploading
      /\ UNCHANGED <<intentRows, storage, nonces, registered, fetch, restarts>>
  BY DEF Compiled!Upload
<1>2. compile[c].envelope \in Envs
  BY <1>1 DEF EnvelopesIInv, CompileSound, Of
<1>3. uploading' \subseteq Envs
  BY <1>1, <1>2 DEF EnvelopesIInv
<1> QED
  BY <1>1, <1>3, CompileGoes

LEMMA UploadFailsIInv == ASSUME Compiled!EnvelopesConstants, EnvelopesIInv, NEW c \in Compiles, Compiled!UploadFails(c) PROVE EnvelopesIInv'
<1>1. uploading' \subseteq Envs
  BY DEF Compiled!UploadFails, EnvelopesIInv
<1> QED
  BY <1>1, CompileGoes DEF Compiled!UploadFails

LEMMA CompileFailsIInv == ASSUME Compiled!EnvelopesConstants, EnvelopesIInv, NEW c \in Compiles, Compiled!CompileFails(c) PROVE EnvelopesIInv'
<1>1. uploading' \subseteq Envs
  BY DEF Compiled!CompileFails, EnvelopesIInv
<1> QED
  BY <1>1, CompileGoes DEF Compiled!CompileFails

LEMMA UploadAnswersIInv == ASSUME Compiled!EnvelopesConstants, EnvelopesIInv, NEW c \in Compiles, Compiled!UploadAnswers(c) PROVE EnvelopesIInv'
<1> DEFINE k == [compile[c] EXCEPT !.at = "save", !.root = compile[c].envelope]
<1>1. /\ compile[c].at = "uploading" /\ compile[c].envelope \in storage
      /\ compile' = [compile EXCEPT ![c].at = "save", ![c].root = compile[c].envelope]
      /\ UNCHANGED <<intentRows, uploading, storage, nonces, registered, fetch, restarts>>
  BY DEF Compiled!UploadAnswers
<1>2. CompileSound(c, compile[c], storage) /\ RowSound(intentRows[c], compile[c]) /\ compile[c] \in CompileStates
  BY DEF EnvelopesIInv
<1>3. /\ k \in CompileStates /\ k.at = "save" /\ k.principal = compile[c].principal /\ k.envelope = compile[c].envelope
      /\ k.hash = compile[c].hash /\ k.root = compile[c].envelope
  BY <1>2 DEF CompileStates
<1>4. compile' = [compile EXCEPT ![c] = k] /\ intentRows' = [intentRows EXCEPT ![c] = intentRows[c]]
  BY <1>1 DEF EnvelopesIInv
<1> HIDE DEF k
<1>5. CompileSound(c, k, storage) /\ RowSound(intentRows[c], k)
  BY <1>1, <1>2, <1>3 DEF CompileSound, RowSound
<1> QED
  BY <1>1, <1>3, <1>4, <1>5, CompileMoves DEF EnvelopesIInv

LEMMA SaveIntentIInv == ASSUME Compiled!EnvelopesConstants, EnvelopesIInv, NEW c \in Compiles, Compiled!SaveIntent(c) PROVE EnvelopesIInv'
<1> DEFINE k == [compile[c] EXCEPT !.at = "answered"]
           row == [exists |-> TRUE, hash |-> compile[c].hash, root |-> compile[c].root]
<1>1. /\ compile[c].at = "save" /\ compile' = [compile EXCEPT ![c] = k] /\ intentRows' = [intentRows EXCEPT ![c] = row]
      /\ UNCHANGED <<uploading, storage, nonces, registered, fetch, restarts>>
  BY DEF Compiled!SaveIntent, Compiled!Goes, EnvelopesIInv
<1>2. CompileSound(c, compile[c], storage) /\ compile[c] \in CompileStates
  BY DEF EnvelopesIInv
<1>3. /\ k \in CompileStates /\ k.at = "answered" /\ k.principal = compile[c].principal /\ k.envelope = compile[c].envelope
      /\ k.hash = compile[c].hash /\ k.root = compile[c].root
  BY <1>2 DEF CompileStates
<1>4. row \in IntentRows /\ row.exists /\ row.hash = compile[c].hash /\ row.root = compile[c].root
  BY <1>2 DEF CompileStates, IntentRows
<1> HIDE DEF k, row
<1>5. CompileSound(c, k, storage) /\ RowSound(row, k)
  BY <1>1, <1>2, <1>3, <1>4 DEF CompileSound, RowSound
<1> QED
  BY <1>1, <1>3, <1>5, CompileMoves DEF EnvelopesIInv

LEMMA StoreLandsIInv == ASSUME EnvelopesIInv, NEW e \in uploading, Compiled!StoreLands(e) PROVE EnvelopesIInv'
<1>1. /\ uploading' = uploading \ {e} /\ storage' = storage \cup {e}
      /\ compile' = compile /\ intentRows' = intentRows /\ nonces' = nonces /\ registered' = registered
      /\ fetch' = fetch /\ restarts' = restarts
  BY DEF Compiled!StoreLands
<1>2. \A c \in Compiles : CompileSound(c, compile[c], storage')
  BY <1>1 DEF EnvelopesIInv, CompileSound
<1>3. \A p : Registrations(p)' = Registrations(p)
  BY <1>1 DEF Registrations
<1>4. uploading' \subseteq Envs /\ storage' \subseteq Envs
  BY <1>1 DEF EnvelopesIInv
<1> QED
  BY <1>1, <1>2, <1>3, <1>4 DEF EnvelopesIInv

LEMMA RegisterIInv == ASSUME Compiled!EnvelopesConstants, EnvelopesIInv, NEW c \in Compiles, Compiled!Register(c) PROVE EnvelopesIInv'
<1>1. /\ compile[c].at = "answered" /\ compile[c].hash \in Envs /\ compile[c].hash.of = c
      /\ compile[c].principal \in Principals
  BY DEF Compiled!Register, EnvelopesIInv, CompileSound, CompileStates, Of
<1>2. PICK h \in Envs : h = compile[c].hash
  BY <1>1
<1>3. PICK q \in Principals : q = compile[c].principal
  BY <1>1
<1>4. /\ h \notin registered /\ registered' = registered \cup {h} /\ nonces' = [nonces EXCEPT ![q] = @ + 1]
      /\ compile' = compile /\ intentRows' = intentRows /\ uploading' = uploading /\ storage' = storage
      /\ fetch' = fetch /\ restarts' = restarts
  BY <1>2, <1>3 DEF Compiled!Register
<1>5. \A d \in Compiles : compile[d].hash = h => d = c
  BY <1>1, <1>2, EnvelopesNumbers DEF EnvelopesIInv, CompileSound
<1>6. /\ Registrations(q)' = Registrations(q) \cup {c} /\ c \notin Registrations(q)
      /\ \A p \in Principals : p # q => Registrations(p)' = Registrations(p)
  BY <1>2, <1>3, <1>4, <1>5 DEF Registrations
<1>7. Cardinality(Registrations(q)') = Cardinality(Registrations(q)) + 1
  BY <1>6, RegistrationsCounted, FS_AddElement
<1>8. /\ nonces \in [Principals -> Nat] /\ \A p \in Principals : nonces[p] = Cardinality(Registrations(p))
      /\ nonces' \in [Principals -> Nat] /\ nonces'[q] = nonces[q] + 1 /\ \A p \in Principals : p # q => nonces'[p] = nonces[p]
  BY <1>4 DEF EnvelopesIInv
<1>9. \A p \in Principals : nonces'[p] = Cardinality(Registrations(p)')
  <2> SUFFICES ASSUME NEW p \in Principals PROVE nonces'[p] = Cardinality(Registrations(p)')
    OBVIOUS
  <2>1. CASE p = q
    BY <1>7, <1>8, <2>1
  <2>2. CASE p # q
    BY <1>6, <1>8, <2>2
  <2> QED
    BY <2>1, <2>2
<1>10. \A e \in registered' : compile'[e.of].hash = e /\ compile'[e.of].at = "answered"
  BY <1>1, <1>2, <1>4 DEF EnvelopesIInv
<1>11. registered' \subseteq Envs
  BY <1>4 DEF EnvelopesIInv
<1> QED
  BY <1>4, <1>8, <1>9, <1>10, <1>11 DEF EnvelopesIInv

LEMMA FetchMoves ==
    ASSUME EnvelopesIInv, NEW r \in Readers, NEW f, FetchSound(f), fetch' = [fetch EXCEPT ![r] = f],
           UNCHANGED <<compile, intentRows, uploading, storage, nonces, registered, restarts>>
    PROVE  EnvelopesIInv'
<1>1. fetch' \in [Readers -> Fetches] /\ \A o \in Readers : FetchSound(fetch'[o])
  BY DEF EnvelopesIInv, FetchSound
<1>2. \A p : Registrations(p)' = Registrations(p)
  BY DEF Registrations
<1> QED
  BY <1>1, <1>2 DEF EnvelopesIInv

LEMMA ReadRowIInv == ASSUME Compiled!EnvelopesConstants, EnvelopesIInv, NEW r \in Readers, Compiled!ReadRow(r) PROVE EnvelopesIInv'
<1>1. PICK c \in Compiles : fetch' = [fetch EXCEPT ![r] =
            IF intentRows[c].root = Absent THEN [Compiled!NoFetch EXCEPT !.at = "missing"]
            ELSE [at |-> "download", row |-> intentRows[c], payload |-> Absent]]
  BY DEF Compiled!ReadRow
<1>2. UNCHANGED <<compile, intentRows, uploading, storage, nonces, registered, restarts>>
  BY DEF Compiled!ReadRow
<1>3. CASE intentRows[c].root = Absent
  BY <1>1, <1>2, <1>3, NoFetchSound, FetchMoves
<1>4. CASE intentRows[c].root # Absent
  <2> DEFINE f == [at |-> "download", row |-> intentRows[c], payload |-> Absent]
  <2>1. /\ RowSound(intentRows[c], compile[c]) /\ CompileSound(c, compile[c], storage)
        /\ intentRows[c] \in IntentRows
    BY DEF EnvelopesIInv
  <2>2. Of(intentRows[c].root, intentRows[c].hash)
    BY <1>4, <2>1 DEF RowSound, CompileSound
  <2>3. f \in Fetches /\ f.at = "download" /\ f.row = intentRows[c]
    BY <2>1 DEF Fetches
  <2>4. fetch' = [fetch EXCEPT ![r] = f]
    BY <1>1, <1>4
  <2> HIDE DEF f
  <2>5. FetchSound(f)
    BY <2>2, <2>3 DEF FetchSound
  <2> QED
    BY <1>2, <2>4, <2>5, FetchMoves
<1> QED
  BY <1>3, <1>4

LEMMA DownloadIInv == ASSUME EnvelopesIInv, NEW r \in Readers, Compiled!Download(r) PROVE EnvelopesIInv'
<1> DEFINE f == [fetch[r] EXCEPT !.at = "answered", !.payload = fetch[r].row.root]
<1>1. /\ fetch[r].at = "download" /\ fetch' = [fetch EXCEPT ![r] = f]
      /\ UNCHANGED <<compile, intentRows, uploading, storage, nonces, registered, restarts>>
  BY DEF Compiled!Download, EnvelopesIInv
<1>2. FetchSound(fetch[r]) /\ fetch[r] \in Fetches /\ Of(fetch[r].row.root, fetch[r].row.hash)
  BY <1>1 DEF EnvelopesIInv, FetchSound
<1>3. f \in Fetches /\ f.at = "answered" /\ f.row = fetch[r].row /\ f.payload = fetch[r].row.root
  BY <1>2 DEF Fetches, Of
<1> HIDE DEF f
<1>4. FetchSound(f)
  BY <1>2, <1>3 DEF FetchSound
<1> QED
  BY <1>1, <1>4, FetchMoves

LEMMA DownloadFailsIInv == ASSUME EnvelopesIInv, NEW r \in Readers, Compiled!DownloadFails(r) PROVE EnvelopesIInv'
BY NoFetchSound, FetchMoves DEF Compiled!DownloadFails

LEMMA RestartIInv == ASSUME Compiled!EnvelopesConstants, EnvelopesIInv, Compiled!Restart PROVE EnvelopesIInv'
<1>1. /\ restarts < Restarts /\ restarts' = restarts + 1
      /\ compile' = [c \in Compiles |-> IF Compiled!Running(c) THEN [compile[c] EXCEPT !.at = "failed"] ELSE compile[c]]
      /\ fetch' = [r \in Readers |-> IF fetch[r].at = "download" THEN [Compiled!NoFetch EXCEPT !.at = "failed"] ELSE fetch[r]]
      /\ intentRows' = intentRows /\ uploading' = uploading /\ storage' = storage /\ nonces' = nonces /\ registered' = registered
  BY DEF Compiled!Restart
<1>2. ASSUME NEW c \in Compiles
      PROVE  /\ compile'[c] \in CompileStates /\ CompileSound(c, compile'[c], storage) /\ RowSound(intentRows[c], compile'[c])
             /\ compile'[c].hash = compile[c].hash /\ compile'[c].principal = compile[c].principal
             /\ compile[c].at = "answered" => compile'[c].at = "answered"
  <2>1. CompileSound(c, compile[c], storage) /\ RowSound(intentRows[c], compile[c]) /\ compile[c] \in CompileStates
    BY DEF EnvelopesIInv
  <2>2. CASE Compiled!Running(c)
    <3> DEFINE k == [compile[c] EXCEPT !.at = "failed"]
    <3>1. compile'[c] = k /\ compile[c].at # "answered"
      BY <1>1, <2>2 DEF Compiled!Running
    <3>2. /\ k \in CompileStates /\ k.at = "failed" /\ k.principal = compile[c].principal /\ k.envelope = compile[c].envelope
          /\ k.hash = compile[c].hash /\ k.root = compile[c].root
      BY <2>1 DEF CompileStates
    <3> HIDE DEF k
    <3> QED
      BY <2>1, <3>1, <3>2 DEF CompileSound, RowSound
  <2>3. CASE ~Compiled!Running(c)
    BY <1>1, <2>1, <2>3
  <2> QED
    BY <2>2, <2>3
<1>3. compile' \in [Compiles -> CompileStates]
  BY <1>1, <1>2
<1>4. fetch' \in [Readers -> Fetches] /\ \A r \in Readers : FetchSound(fetch'[r])
  BY <1>1, NoFetchSound DEF EnvelopesIInv, FetchSound
<1>5. \A p : Registrations(p)' = Registrations(p)
  BY <1>1, <1>2 DEF Registrations
<1>6. \A e \in registered : compile'[e.of].hash = e /\ compile'[e.of].at = "answered"
  BY <1>2 DEF EnvelopesIInv, Envs, Compiled!Envelopes
<1>7. restarts' \in 0 .. Restarts
  BY <1>1, EnvelopesNumbers DEF EnvelopesIInv
<1> QED
  BY <1>1, <1>2, <1>3, <1>4, <1>5, <1>6, <1>7 DEF EnvelopesIInv

LEMMA EnvelopesNextIInv ==
    ASSUME Compiled!EnvelopesConstants, EnvelopesIInv, Compiled!EnvelopesNext \/ UNCHANGED envelopeVars
    PROVE  EnvelopesIInv'
<1>1. CASE UNCHANGED envelopeVars
  BY <1>1 DEF envelopeVars, EnvelopesIInv, Registrations
<1>2. ASSUME NEW c \in Compiles, Compiled!Handles(c) PROVE EnvelopesIInv'
  BY <1>2, ReadNonceIInv, CompileIntentIInv, UploadIInv, UploadAnswersIInv, UploadFailsIInv, SaveIntentIInv,
     CompileFailsIInv DEF Compiled!Handles
<1>3. ASSUME NEW r \in Readers, Compiled!ReadRow(r) \/ Compiled!Download(r) \/ Compiled!DownloadFails(r) PROVE EnvelopesIInv'
  BY <1>3, ReadRowIInv, DownloadIInv, DownloadFailsIInv
<1> QED
  BY <1>1, <1>2, <1>3, RegisterIInv, StoreLandsIInv, RestartIInv DEF Compiled!EnvelopesNext

LEMMA EnvelopesIInvImplies ==
    ASSUME Compiled!EnvelopesConstants, EnvelopesIInv
    PROVE  Compiled!EnvelopesTypeOK /\ Compiled!RowsAreTrue
<1>1. Compiled!RegisteredIsRecorded
  BY RegisteredAnswered DEF EnvelopesIInv, RowSound, Compiled!RegisteredIsRecorded
<1>2. Compiled!RootIsStored
  BY DEF EnvelopesIInv, RowSound, CompileSound, Compiled!RootIsStored
<1>3. Compiled!FetchedIsOfIntent
  BY DEF EnvelopesIInv, FetchSound, Of, Compiled!FetchedIsOfIntent
<1>4. ASSUME NEW c \in Compiles
      PROVE  /\ compile[c].at \in {"start", "model", "pin", "uploading", "save", "answered", "failed"}
             /\ compile[c].principal \in Principals
             /\ {compile[c].envelope, compile[c].hash, compile[c].root, intentRows[c].hash, intentRows[c].root} \subseteq Envs \cup {Absent}
             /\ compile[c].root # Absent => compile[c].root = compile[c].envelope
  <2>1. compile[c] \in CompileStates /\ intentRows[c] \in IntentRows /\ CompileSound(c, compile[c], storage)
    BY DEF EnvelopesIInv
  <2> QED
    BY <2>1 DEF CompileStates, IntentRows, CompileSound
<1>5. \A p \in Principals :
        nonces[p] = Compiled!Cardinality({c \in Compiles : compile[c].principal = p /\ compile[c].hash \in registered})
  BY SameCounting DEF EnvelopesIInv, Registrations
<1>6. uploading \subseteq Envs /\ storage \subseteq Envs /\ registered \subseteq Envs /\ restarts \in 0 .. Restarts
  BY DEF EnvelopesIInv
<1>7. Compiled!EnvelopesTypeOK
  BY <1>4, <1>5, <1>6, Zenon DEF Envs, Compiled!EnvelopesTypeOK
<1> QED
  BY <1>1, <1>2, <1>3, <1>7 DEF Compiled!RowsAreTrue
-----------------------------------------------------------------------------
(***************************************************************************)
(* The records of an action: a transaction in a row, in a certificate, or  *)
(* in the copy of one that a settlement or a page holds, is the attestation*)
(* of the verify it names; what was settled or rated is in the first row.  *)
(***************************************************************************)
ActionRows == [by : Verifies \cup {"none"}, verifyTx : BOOLEAN, settleTx : BOOLEAN, reputationTx : BOOLEAN]
Certs == [exists : BOOLEAN, by : Verifies \cup {"none"}, verifyTx : BOOLEAN, settleTx : BOOLEAN]
VerifyStates == [at : {"start", "cert", "attest", "wait", "save", "done"}, verdict : Decisions \cup {"none"}, tx : Records!TxStates]
SettleStates == [at : {"row", "read", "write", "done"}, cert : Certs]
PageStates == [at : {"closed", "loading", "proofLoaded", "certLoaded", "shown"}, proof : ActionRows, cert : Certs,
               settled : BOOLEAN, rated : BOOLEAN, feedback : {"none", "pending", "success", "reverted", "recorded", "unrecorded"}]

Attested == {v \in Verifies : verify[v].tx = "success"}
SettledIn(rs) == Len(rs) > 0 /\ rs[1].settleTx
RatedIn(rs) == Len(rs) > 0 /\ rs[1].reputationTx

VerifySound(k) ==
    /\ k \in VerifyStates
    /\ k.at \in {"start", "cert", "attest"} => k.tx = "none"
    /\ k.at = "save" => k.tx = "success"
OneRowEach(rs) == \A j, k \in 1..Len(rs) : rs[j].by = rs[k].by => j = k
TxSound(record, done) == record.verifyTx => record.by \in done
SettleSound(s, rs, done) == s \in SettleStates /\ TxSound(s.cert, done) /\ (s.at # "row" => SettledIn(rs))
PageSound(p, rs, done) ==
    /\ p \in PageStates /\ TxSound(p.proof, done) /\ TxSound(p.cert, done)
    /\ p.at \in {"proofLoaded", "shown"} =>
         Len(rs) > 0 /\ (p.settled => p.proof.settleTx) /\ (p.rated => p.proof.reputationTx)
    /\ p.settled => SettledIn(rs)
    /\ p.rated => RatedIn(rs)
    /\ p.feedback # "none" => p.at = "shown"
    /\ p.feedback = "recorded" => RatedIn(rs)

RecordsIInv ==
    /\ proofRows \in Seq(ActionRows) /\ OneRowEach(proofRows)
    /\ \A k \in 1..Len(proofRows) : proofRows[k].by \in Verifies /\ TxSound(proofRows[k], Attested)
    /\ cert \in Certs /\ TxSound(cert, Attested) /\ anchored \in Verifies \cup {"none"}
    /\ verify \in [Verifies -> VerifyStates] /\ \A v \in Verifies : VerifySound(verify[v])
    /\ \A v \in Verifies : verify[v].at # "start" <=> \E k \in 1..Len(proofRows) : proofRows[k].by = v
    /\ settle \in [Settlers -> SettleStates] /\ \A s \in Settlers : SettleSound(settle[s], proofRows, Attested)
    /\ page \in [Viewers -> PageStates] /\ \A p \in Viewers : PageSound(page[p], proofRows, Attested)

LEMMA EmptyRecords ==
    /\ Records!NoCert \in Certs /\ Records!NoCert.verifyTx = FALSE /\ Records!NoCert.exists = FALSE
    /\ Records!NoProof \in ActionRows /\ Records!NoProof.verifyTx = FALSE
    /\ Records!Closed \in PageStates /\ \A rs, done : PageSound(Records!Closed, rs, done)
<1>1. Records!NoCert \in Certs /\ Records!NoCert.verifyTx = FALSE /\ Records!NoCert.exists = FALSE
  BY DEF Records!NoCert, Certs, Records!None
<1>2. Records!NoProof \in ActionRows /\ Records!NoProof.verifyTx = FALSE
  BY DEF Records!NoProof, ActionRows, Records!None
<1>3. /\ Records!Closed \in PageStates /\ Records!Closed.at = "closed" /\ Records!Closed.proof = Records!NoProof
      /\ Records!Closed.cert = Records!NoCert /\ Records!Closed.settled = FALSE /\ Records!Closed.rated = FALSE
      /\ Records!Closed.feedback = "none"
  BY <1>1, <1>2 DEF Records!Closed, PageStates
<1> QED
  BY <1>1, <1>2, <1>3 DEF PageSound, TxSound

\* What a settlement or a page holds stays true of a table and of
\* attestations that only grow.
LEMMA HeldStays ==
    ASSUME NEW rs, NEW new, NEW done, NEW more, done \subseteq more,
           SettledIn(rs) => SettledIn(new), RatedIn(rs) => RatedIn(new), Len(rs) > 0 => Len(new) > 0
    PROVE  /\ \A record : TxSound(record, done) => TxSound(record, more)
           /\ \A s : SettleSound(s, rs, done) => SettleSound(s, new, more)
           /\ \A p : PageSound(p, rs, done) => PageSound(p, new, more)
<1>1. \A record : TxSound(record, done) => TxSound(record, more)
  BY DEF TxSound
<1>2. ASSUME NEW s, SettleSound(s, rs, done) PROVE SettleSound(s, new, more)
  BY <1>1, <1>2 DEF SettleSound
<1>3. ASSUME NEW p, PageSound(p, rs, done) PROVE PageSound(p, new, more)
  BY <1>1, <1>3 DEF PageSound
<1> QED
  BY <1>1, <1>2, <1>3

LEMMA RecordsInitIInv == ASSUME Records!RecordsInit PROVE RecordsIInv
<1>1. /\ proofRows = <<>> /\ cert = Records!NoCert /\ anchored = "none"
      /\ verify = [v \in Verifies |-> [at |-> "start", verdict |-> "none", tx |-> "none"]]
      /\ settle = [s \in Settlers |-> [at |-> "row", cert |-> Records!NoCert]]
      /\ page = [p \in Viewers |-> Records!Closed]
  BY DEF Records!RecordsInit, Records!None
<1>2. proofRows \in Seq(ActionRows) /\ Len(proofRows) = 0
  BY <1>1
<1>3. ASSUME NEW v \in Verifies PROVE verify[v] \in VerifyStates /\ VerifySound(verify[v]) /\ verify[v].at = "start"
  <2>1. verify[v] = [at |-> "start", verdict |-> "none", tx |-> "none"]
    BY <1>1
  <2> QED
    BY <2>1 DEF VerifySound, VerifyStates, Records!TxStates
<1>4. ASSUME NEW s \in Settlers PROVE settle[s] \in SettleStates /\ SettleSound(settle[s], proofRows, Attested)
  <2>1. settle[s] = [at |-> "row", cert |-> Records!NoCert]
    BY <1>1
  <2>2. settle[s] \in SettleStates /\ settle[s].at = "row" /\ settle[s].cert = Records!NoCert
    BY <2>1, EmptyRecords DEF SettleStates
  <2> QED
    BY <2>2, EmptyRecords DEF SettleSound, TxSound
<1>5. \A p \in Viewers : page[p] \in PageStates /\ PageSound(page[p], proofRows, Attested)
  BY <1>1, EmptyRecords
<1>6. verify \in [Verifies -> VerifyStates] /\ settle \in [Settlers -> SettleStates] /\ page \in [Viewers -> PageStates]
  BY <1>1, <1>3, <1>4, <1>5
<1>7. cert \in Certs /\ TxSound(cert, Attested)
  BY <1>1, EmptyRecords DEF TxSound
<1>8. OneRowEach(proofRows) /\ \A k : k \notin 1..Len(proofRows)
  BY <1>2 DEF OneRowEach
<1> QED
  BY <1>1, <1>2, <1>3, <1>4, <1>5, <1>6, <1>7, <1>8 DEF RecordsIInv

\* A verify takes a step that leaves the table alone and withdraws no
\* attestation.
LEMMA VerifyMoves ==
    ASSUME RecordsIInv, NEW v \in Verifies, NEW k, VerifySound(k), verify' = [verify EXCEPT ![v] = k],
           k.at # "start" /\ verify[v].at # "start", verify[v].tx = "success" => k.tx = "success",
           cert' \in Certs, TxSound(cert, Attested) => TxSound(cert', Attested) \/ (cert'.by = v /\ k.tx = "success"),
           anchored' \in Verifies \cup {"none"}, UNCHANGED <<proofRows, settle, page>>
    PROVE  RecordsIInv'
<1>1. k \in VerifyStates
  BY DEF VerifySound
<1>2. verify' \in [Verifies -> VerifyStates] /\ \A w \in Verifies : verify'[w] = IF w = v THEN k ELSE verify[w]
  BY <1>1 DEF RecordsIInv
<1>3. Attested \subseteq Attested' /\ (k.tx = "success" => v \in Attested')
  BY <1>2 DEF Attested
<1>4. proofRows' = proofRows /\ settle' = settle /\ page' = page
  OBVIOUS
<1>5. /\ \A record : TxSound(record, Attested) => TxSound(record, Attested')
      /\ \A s : SettleSound(s, proofRows, Attested) => SettleSound(s, proofRows, Attested')
      /\ \A p : PageSound(p, proofRows, Attested) => PageSound(p, proofRows, Attested')
  BY <1>3, HeldStays
<1>6. TxSound(cert', Attested')
  BY <1>3, <1>5 DEF RecordsIInv, TxSound
<1>7. \A w \in Verifies : VerifySound(verify'[w]) /\ (verify'[w].at # "start" <=> verify[w].at # "start")
  BY <1>2 DEF RecordsIInv
<1> QED
  BY <1>2, <1>4, <1>5, <1>6, <1>7 DEF RecordsIInv

\* A row of the table gains a transaction.
LEMMA RowGains ==
    ASSUME RecordsIInv, NEW k \in 1..Len(proofRows), NEW row \in ActionRows, proofRows' = [proofRows EXCEPT ![k] = row],
           row.by = proofRows[k].by, TxSound(row, Attested'),
           proofRows[k].settleTx => row.settleTx, proofRows[k].reputationTx => row.reputationTx,
           Attested' = Attested
    PROVE  /\ proofRows' \in Seq(ActionRows) /\ OneRowEach(proofRows)' /\ Len(proofRows') = Len(proofRows) /\ Len(proofRows) \in Nat
           /\ \A j \in 1..Len(proofRows) : proofRows'[j] = IF j = k THEN row ELSE proofRows[j]
           /\ \A j \in 1..Len(proofRows') : proofRows'[j].by \in Verifies /\ TxSound(proofRows'[j], Attested')
           /\ \A j \in 1..Len(proofRows) : proofRows'[j].by = proofRows[j].by
           /\ Len(proofRows) > 0 /\ (SettledIn(proofRows) => SettledIn(proofRows')) /\ (RatedIn(proofRows) => RatedIn(proofRows'))
<1>1. proofRows \in Seq(ActionRows) /\ Len(proofRows) \in Nat /\ k \in Nat /\ k >= 1
  BY DEF RecordsIInv
<1>2. proofRows' \in Seq(ActionRows) /\ Len(proofRows') = Len(proofRows)
      /\ \A j \in 1..Len(proofRows) : proofRows'[j] = IF j = k THEN row ELSE proofRows[j]
  BY <1>1
<1>3. \A j \in 1..Len(proofRows) : proofRows'[j].by = proofRows[j].by
  BY <1>2
<1>4. OneRowEach(proofRows)'
  BY <1>2, <1>3 DEF OneRowEach, RecordsIInv
<1>5. \A j \in 1..Len(proofRows') : proofRows'[j].by \in Verifies /\ TxSound(proofRows'[j], Attested')
  BY <1>2, <1>3 DEF RecordsIInv
<1>6. Len(proofRows) > 0 /\ 1 \in 1..Len(proofRows)
  BY <1>1
<1>7. (SettledIn(proofRows) => SettledIn(proofRows')) /\ (RatedIn(proofRows) => RatedIn(proofRows'))
  BY <1>2, <1>6 DEF SettledIn, RatedIn
<1> QED
  BY <1>1, <1>2, <1>3, <1>4, <1>5, <1>6, <1>7

\* A settlement or a page moves, the rest does not.
LEMMA SettleMoves ==
    ASSUME RecordsIInv, NEW s \in Settlers, NEW t, SettleSound(t, proofRows', Attested'), settle' = [settle EXCEPT ![s] = t]
    PROVE  settle' \in [Settlers -> SettleStates]
           /\ \A o \in Settlers : settle'[o] = IF o = s THEN t ELSE settle[o]
BY DEF RecordsIInv, SettleSound

LEMMA PageMoves ==
    ASSUME RecordsIInv, NEW p \in Viewers, NEW q, PageSound(q, proofRows, Attested), page' = [page EXCEPT ![p] = q],
           UNCHANGED <<proofRows, cert, verify, anchored, settle>>
    PROVE  RecordsIInv'
<1>1. page' \in [Viewers -> PageStates] /\ \A o \in Viewers : PageSound(page'[o], proofRows, Attested)
  BY DEF RecordsIInv, PageSound
<1>2. Attested' = Attested /\ proofRows' = proofRows /\ cert' = cert /\ verify' = verify /\ anchored' = anchored /\ settle' = settle
  BY DEF Attested
<1> QED
  BY <1>1, <1>2 DEF RecordsIInv

LEMMA FirstRecordIInv == ASSUME RecordsIInv, NEW v \in Verifies, Records!CreateRow(v) PROVE RecordsIInv'
<1> DEFINE row == [Records!NoProof EXCEPT !.by = v]
<1>1. PICK verdict \in Decisions : verify' = [verify EXCEPT ![v].at = "cert", ![v].verdict = verdict]
  BY DEF Records!CreateRow
<1>2. /\ verify[v].at = "start" /\ proofRows' = Append(proofRows, row)
      /\ cert' = cert /\ anchored' = anchored /\ settle' = settle /\ page' = page
  BY DEF Records!CreateRow
<1> DEFINE k == [verify[v] EXCEPT !.at = "cert", !.verdict = verdict]
<1>3. verify[v] \in VerifyStates /\ verify[v].tx = "none"
  BY <1>2 DEF RecordsIInv, VerifySound
<1>4. k \in VerifyStates /\ k.at = "cert" /\ k.tx = "none"
  BY <1>3 DEF VerifyStates
<1>5. verify' = [verify EXCEPT ![v] = k]
  BY <1>1 DEF RecordsIInv
<1>6. row \in ActionRows /\ row.by = v /\ row.verifyTx = FALSE
  BY EmptyRecords DEF ActionRows
<1> HIDE DEF k, row
<1>7. verify' \in [Verifies -> VerifyStates] /\ \A w \in Verifies : verify'[w] = IF w = v THEN k ELSE verify[w]
  BY <1>4, <1>5 DEF RecordsIInv
<1>8. Attested' = Attested
  BY <1>3, <1>4, <1>7 DEF Attested
<1>9. /\ proofRows \in Seq(ActionRows) /\ proofRows' \in Seq(ActionRows) /\ Len(proofRows) \in Nat /\ Len(proofRows') = Len(proofRows) + 1
      /\ proofRows'[Len(proofRows) + 1] = row /\ \A j \in 1..Len(proofRows) : proofRows'[j] = proofRows[j]
  BY <1>2, <1>6 DEF RecordsIInv
<1>10. (SettledIn(proofRows) => SettledIn(proofRows')) /\ (RatedIn(proofRows) => RatedIn(proofRows'))
  BY <1>9 DEF SettledIn, RatedIn
<1>11. Len(proofRows) > 0 => Len(proofRows') > 0
  BY <1>9
<1>12. /\ \A s : SettleSound(s, proofRows, Attested) => SettleSound(s, proofRows', Attested')
       /\ \A p : PageSound(p, proofRows, Attested) => PageSound(p, proofRows', Attested')
  BY <1>8, <1>10, <1>11, HeldStays
<1>13. \A j \in 1..Len(proofRows') : j = Len(proofRows) + 1 \/ j \in 1..Len(proofRows)
  BY <1>9
<1>14. \A j \in 1..Len(proofRows) : proofRows[j].by # v
  BY <1>2 DEF RecordsIInv
<1>15. OneRowEach(proofRows)'
  BY <1>6, <1>9, <1>13, <1>14 DEF OneRowEach, RecordsIInv
<1>16. \A j \in 1..Len(proofRows') : proofRows'[j].by \in Verifies /\ TxSound(proofRows'[j], Attested')
  <2> SUFFICES ASSUME NEW j \in 1..Len(proofRows') PROVE proofRows'[j].by \in Verifies /\ TxSound(proofRows'[j], Attested)
    BY <1>8
  <2>1. CASE j = Len(proofRows) + 1
    BY <1>6, <1>9, <2>1 DEF TxSound
  <2>2. CASE j \in 1..Len(proofRows)
    BY <1>9, <2>2 DEF RecordsIInv
  <2> QED
    BY <1>13, <2>1, <2>2
<1>17. \A w \in Verifies : verify'[w].at # "start" <=> \E j \in 1..Len(proofRows') : proofRows'[j].by = w
  <2>1. Len(proofRows) + 1 \in 1..Len(proofRows') /\ 1..Len(proofRows) \subseteq 1..Len(proofRows')
    BY <1>9
  <2> SUFFICES ASSUME NEW w \in Verifies PROVE verify'[w].at # "start" <=> \E j \in 1..Len(proofRows') : proofRows'[j].by = w
    OBVIOUS
  <2>2. CASE w = v
    BY <1>4, <1>6, <1>7, <1>9, <2>1, <2>2
  <2>3. CASE w # v
    <3>1. (\E j \in 1..Len(proofRows') : proofRows'[j].by = w) <=> \E j \in 1..Len(proofRows) : proofRows[j].by = w
      BY <1>6, <1>9, <1>13, <2>1, <2>3
    <3> QED
      BY <1>7, <2>3, <3>1 DEF RecordsIInv
  <2> QED
    BY <2>2, <2>3
<1>18. \A w \in Verifies : VerifySound(verify'[w])
  BY <1>4, <1>7 DEF RecordsIInv, VerifySound
<1> QED
  BY <1>2, <1>7, <1>8, <1>9, <1>12, <1>15, <1>16, <1>17, <1>18 DEF RecordsIInv

LEMMA UpsertIInv == ASSUME RecordsIInv, NEW v \in Verifies, Records!UpsertCertificate(v) PROVE RecordsIInv'
<1> DEFINE k == [verify[v] EXCEPT !.at = "attest"]
<1>1. /\ verify[v].at = "cert" /\ verify' = [verify EXCEPT ![v] = k]
      /\ cert' = [Records!NoCert EXCEPT !.exists = TRUE, !.by = v] /\ UNCHANGED <<proofRows, anchored, settle, page>>
  BY DEF Records!UpsertCertificate, Records!Moves, RecordsIInv
<1>2. VerifySound(verify[v]) /\ verify[v] \in VerifyStates
  BY DEF RecordsIInv
<1>3. k \in VerifyStates /\ k.at = "attest" /\ k.tx = verify[v].tx
  BY <1>2 DEF VerifyStates
<1> HIDE DEF k
<1>4. VerifySound(k)
  BY <1>1, <1>2, <1>3 DEF VerifySound
<1>5. cert' \in Certs /\ cert'.verifyTx = FALSE
  BY <1>1, EmptyRecords DEF Certs
<1> QED
  BY <1>1, <1>3, <1>4, <1>5, VerifyMoves DEF RecordsIInv, TxSound

LEMMA SendAttestIInv == ASSUME RecordsIInv, NEW v \in Verifies, Records!SendAttest(v) PROVE RecordsIInv'
<1> DEFINE k == [verify[v] EXCEPT !.at = "wait", !.tx = "pending"]
<1>1. /\ verify[v].at = "attest" /\ verify' = [verify EXCEPT ![v] = k] /\ UNCHANGED <<proofRows, cert, anchored, settle, page>>
  BY DEF Records!SendAttest, RecordsIInv
<1>2. VerifySound(verify[v]) /\ verify[v] \in VerifyStates
  BY DEF RecordsIInv
<1>3. k \in VerifyStates /\ k.at = "wait" /\ k.tx = "pending"
  BY <1>2 DEF VerifyStates, Records!TxStates
<1> HIDE DEF k
<1>4. VerifySound(k) /\ verify[v].tx # "success"
  BY <1>1, <1>2, <1>3 DEF VerifySound
<1> QED
  BY <1>1, <1>3, <1>4, VerifyMoves DEF RecordsIInv

LEMMA AttestLandsIInv == ASSUME RecordsIInv, NEW v \in Verifies, Records!AttestLands(v) PROVE RecordsIInv'
<1>1. PICK tx \in {"success", "reverted"} : verify' = [verify EXCEPT ![v].tx = tx]
  BY DEF Records!AttestLands
<1> DEFINE k == [verify[v] EXCEPT !.tx = tx]
<1>2. /\ verify[v].tx = "pending" /\ verify' = [verify EXCEPT ![v] = k] /\ UNCHANGED <<proofRows, cert, settle, page>>
      /\ anchored' = v \/ anchored' = anchored
  BY <1>1 DEF Records!AttestLands, RecordsIInv
<1>3. VerifySound(verify[v]) /\ verify[v] \in VerifyStates
  BY DEF RecordsIInv
<1>4. k \in VerifyStates /\ k.at = verify[v].at /\ k.tx = tx
  BY <1>3 DEF VerifyStates, Records!TxStates
<1> HIDE DEF k
<1>5. VerifySound(k) /\ verify[v].at # "start"
  BY <1>2, <1>3, <1>4 DEF VerifySound
<1>6. anchored' \in Verifies \cup {"none"} /\ cert' \in Certs
  BY <1>2 DEF RecordsIInv
<1> QED
  BY <1>2, <1>4, <1>5, <1>6, VerifyMoves DEF RecordsIInv

LEMMA SaveVerifyTxIInv == ASSUME RecordsIInv, NEW v \in Verifies, Records!SaveVerifyTx(v) PROVE RecordsIInv'
<1> DEFINE k == [verify[v] EXCEPT !.at = "save"]
<1>1. /\ verify[v].tx = "success" /\ verify[v].at = "wait" /\ verify' = [verify EXCEPT ![v] = k]
      /\ cert' = cert /\ anchored' = anchored /\ settle' = settle /\ page' = page
      /\ proofRows' = [proofRows EXCEPT ![Records!RowOf(v)].verifyTx = TRUE]
  BY DEF Records!SaveVerifyTx, Records!Moves, RecordsIInv
<1>2. VerifySound(verify[v]) /\ verify[v] \in VerifyStates
  BY DEF RecordsIInv
<1>3. k \in VerifyStates /\ k.at = "save" /\ k.tx = "success"
  BY <1>1, <1>2 DEF VerifyStates
<1>4. VerifySound(k)
  BY <1>3 DEF VerifySound
<1> HIDE DEF k
<1>5. verify' \in [Verifies -> VerifyStates] /\ \A w \in Verifies : verify'[w] = IF w = v THEN k ELSE verify[w]
  BY <1>1, <1>3 DEF RecordsIInv
<1>6. Attested' = Attested /\ v \in Attested
  BY <1>1, <1>3, <1>5 DEF Attested
<1>7. proofRows \in Seq(ActionRows) /\ DOMAIN proofRows = 1..Len(proofRows)
  BY DEF RecordsIInv
<1>8. \E j \in DOMAIN proofRows : proofRows[j].by = v
  BY <1>1, <1>7 DEF RecordsIInv
<1>9. PICK n \in 1..Len(proofRows) : n = Records!RowOf(v) /\ proofRows[n].by = v
  BY <1>7, <1>8 DEF Records!RowOf
<1> DEFINE row == [proofRows[n] EXCEPT !.verifyTx = TRUE]
<1>10. proofRows[n] \in ActionRows
  BY <1>7, <1>9, ElementOfSeq
<1>11. /\ row \in ActionRows /\ row.by = v /\ row.settleTx = proofRows[n].settleTx /\ row.reputationTx = proofRows[n].reputationTx
  BY <1>9, <1>10 DEF ActionRows
<1>12. proofRows' = [proofRows EXCEPT ![n] = row]
  BY <1>1, <1>7, <1>9
<1> HIDE DEF row
<1>13. TxSound(row, Attested')
  BY <1>6, <1>11 DEF TxSound
<1>14. /\ proofRows' \in Seq(ActionRows) /\ OneRowEach(proofRows)' /\ Len(proofRows') = Len(proofRows) /\ Len(proofRows) \in Nat
       /\ \A j \in 1..Len(proofRows') : proofRows'[j].by \in Verifies /\ TxSound(proofRows'[j], Attested')
       /\ \A j \in 1..Len(proofRows) : proofRows'[j].by = proofRows[j].by
       /\ Len(proofRows) > 0 /\ (SettledIn(proofRows) => SettledIn(proofRows')) /\ (RatedIn(proofRows) => RatedIn(proofRows'))
  BY <1>6, <1>9, <1>11, <1>12, <1>13, RowGains
<1>15. /\ \A s : SettleSound(s, proofRows, Attested) => SettleSound(s, proofRows', Attested')
       /\ \A p : PageSound(p, proofRows, Attested) => PageSound(p, proofRows', Attested')
  BY <1>6, <1>14, HeldStays
<1>16. \A w \in Verifies : VerifySound(verify'[w]) /\ (verify'[w].at # "start" <=> \E j \in 1..Len(proofRows') : proofRows'[j].by = w)
  BY <1>1, <1>3, <1>4, <1>5, <1>14 DEF RecordsIInv
<1> QED
  BY <1>1, <1>5, <1>6, <1>14, <1>15, <1>16 DEF RecordsIInv

LEMMA SaveCertificateIInv == ASSUME RecordsIInv, NEW v \in Verifies, Records!SaveCertificate(v) PROVE RecordsIInv'
<1> DEFINE k == [verify[v] EXCEPT !.at = "done"]
<1>1. /\ verify[v].at = "save" /\ verify' = [verify EXCEPT ![v] = k]
      /\ cert' = [exists |-> TRUE, by |-> v, verifyTx |-> TRUE, settleTx |-> FALSE] /\ UNCHANGED <<proofRows, anchored, settle, page>>
  BY DEF Records!SaveCertificate, Records!Moves, RecordsIInv
<1>2. VerifySound(verify[v]) /\ verify[v] \in VerifyStates /\ verify[v].tx = "success"
  BY <1>1 DEF RecordsIInv, VerifySound
<1>3. k \in VerifyStates /\ k.at = "done" /\ k.tx = "success"
  BY <1>2 DEF VerifyStates
<1> HIDE DEF k
<1>4. VerifySound(k)
  BY <1>3 DEF VerifySound
<1>5. cert' \in Certs /\ cert'.by = v
  BY <1>1 DEF Certs
<1> QED
  BY <1>1, <1>3, <1>4, <1>5, VerifyMoves DEF RecordsIInv

LEMMA AttestFailsIInv == ASSUME RecordsIInv, NEW v \in Verifies, Records!AttestFails(v) PROVE RecordsIInv'
<1> DEFINE k == [verify[v] EXCEPT !.at = "done"]
<1>1. /\ verify[v].at \in {"attest", "wait", "save"} /\ verify' = [verify EXCEPT ![v] = k]
      /\ UNCHANGED <<proofRows, cert, anchored, settle, page>>
  BY DEF Records!AttestFails, Records!Moves, RecordsIInv
<1>2. VerifySound(verify[v]) /\ verify[v] \in VerifyStates
  BY DEF RecordsIInv
<1>3. k \in VerifyStates /\ k.at = "done" /\ k.tx = verify[v].tx
  BY <1>2 DEF VerifyStates
<1> HIDE DEF k
<1>4. VerifySound(k)
  BY <1>3 DEF VerifySound
<1> QED
  BY <1>1, <1>3, <1>4, VerifyMoves DEF RecordsIInv

\* The first row gains the settlement or the feedback.
LEMMA FirstRowGains ==
    ASSUME RecordsIInv, Len(proofRows) > 0, UNCHANGED verify,
           proofRows' = [proofRows EXCEPT ![1].settleTx = TRUE] \/ proofRows' = [proofRows EXCEPT ![1].reputationTx = TRUE]
    PROVE  /\ proofRows' \in Seq(ActionRows) /\ OneRowEach(proofRows)' /\ Attested' = Attested
           /\ \A j \in 1..Len(proofRows') : proofRows'[j].by \in Verifies /\ TxSound(proofRows'[j], Attested')
           /\ \A v : (\E j \in 1..Len(proofRows') : proofRows'[j].by = v) <=> \E j \in 1..Len(proofRows) : proofRows[j].by = v
           /\ \A s : SettleSound(s, proofRows, Attested) => SettleSound(s, proofRows', Attested')
           /\ \A p : PageSound(p, proofRows, Attested) => PageSound(p, proofRows', Attested')
           /\ proofRows' = [proofRows EXCEPT ![1].settleTx = TRUE] => SettledIn(proofRows')
           /\ proofRows' = [proofRows EXCEPT ![1].reputationTx = TRUE] => RatedIn(proofRows')
<1>1. proofRows \in Seq(ActionRows) /\ DOMAIN proofRows = 1..Len(proofRows) /\ Len(proofRows) \in Nat /\ 1 \in 1..Len(proofRows)
  BY DEF RecordsIInv
<1>2. proofRows[1] \in ActionRows
  BY <1>1, ElementOfSeq
<1>3. Attested' = Attested
  BY DEF Attested
<1>4. PICK row \in ActionRows :
        /\ proofRows' = [proofRows EXCEPT ![1] = row] /\ row.by = proofRows[1].by /\ row.verifyTx = proofRows[1].verifyTx
        /\ proofRows[1].settleTx => row.settleTx
        /\ proofRows[1].reputationTx => row.reputationTx
        /\ proofRows' = [proofRows EXCEPT ![1].settleTx = TRUE] => row.settleTx
        /\ proofRows' = [proofRows EXCEPT ![1].reputationTx = TRUE] => row.reputationTx
  <2>1. CASE proofRows' = [proofRows EXCEPT ![1].settleTx = TRUE]
    <3> DEFINE row == [proofRows[1] EXCEPT !.settleTx = TRUE]
    <3>1. /\ row \in ActionRows /\ row.by = proofRows[1].by /\ row.verifyTx = proofRows[1].verifyTx
          /\ row.settleTx /\ row.reputationTx = proofRows[1].reputationTx
      BY <1>2 DEF ActionRows
    <3>2. proofRows' = [proofRows EXCEPT ![1] = row]
      BY <1>1, <2>1
    <3>3. proofRows' = [proofRows EXCEPT ![1].reputationTx = TRUE] => row.reputationTx
      <4> SUFFICES ASSUME proofRows' = [proofRows EXCEPT ![1].reputationTx = TRUE] PROVE row.reputationTx
        OBVIOUS
      <4>1. proofRows'[1] = [proofRows[1] EXCEPT !.reputationTx = TRUE]
        BY <1>1
      <4>2. proofRows'[1] = row
        BY <1>1, <3>2
      <4>3. [proofRows[1] EXCEPT !.reputationTx = TRUE].reputationTx
        BY <1>2 DEF ActionRows
      <4> QED
        BY <4>1, <4>2, <4>3
    <3> HIDE DEF row
    <3> QED
      BY <3>1, <3>2, <3>3
  <2>2. CASE proofRows' = [proofRows EXCEPT ![1].reputationTx = TRUE]
    <3> DEFINE row == [proofRows[1] EXCEPT !.reputationTx = TRUE]
    <3>1. /\ row \in ActionRows /\ row.by = proofRows[1].by /\ row.verifyTx = proofRows[1].verifyTx
          /\ row.reputationTx /\ row.settleTx = proofRows[1].settleTx
      BY <1>2 DEF ActionRows
    <3>2. proofRows' = [proofRows EXCEPT ![1] = row]
      BY <1>1, <2>2
    <3>3. proofRows' = [proofRows EXCEPT ![1].settleTx = TRUE] => row.settleTx
      <4> SUFFICES ASSUME proofRows' = [proofRows EXCEPT ![1].settleTx = TRUE] PROVE row.settleTx
        OBVIOUS
      <4>1. proofRows'[1] = [proofRows[1] EXCEPT !.settleTx = TRUE]
        BY <1>1
      <4>2. proofRows'[1] = row
        BY <1>1, <3>2
      <4>3. [proofRows[1] EXCEPT !.settleTx = TRUE].settleTx
        BY <1>2 DEF ActionRows
      <4> QED
        BY <4>1, <4>2, <4>3
    <3> HIDE DEF row
    <3> QED
      BY <3>1, <3>2, <3>3
  <2> QED
    BY <2>1, <2>2
<1>5. TxSound(row, Attested')
  BY <1>1, <1>3, <1>4 DEF RecordsIInv, TxSound
<1>6. /\ proofRows' \in Seq(ActionRows) /\ OneRowEach(proofRows)' /\ Len(proofRows') = Len(proofRows)
      /\ \A j \in 1..Len(proofRows) : proofRows'[j] = IF j = 1 THEN row ELSE proofRows[j]
      /\ \A j \in 1..Len(proofRows') : proofRows'[j].by \in Verifies /\ TxSound(proofRows'[j], Attested')
      /\ \A j \in 1..Len(proofRows) : proofRows'[j].by = proofRows[j].by
      /\ (SettledIn(proofRows) => SettledIn(proofRows')) /\ (RatedIn(proofRows) => RatedIn(proofRows'))
  BY <1>1, <1>3, <1>4, <1>5, RowGains
<1>7. /\ \A s : SettleSound(s, proofRows, Attested) => SettleSound(s, proofRows', Attested')
      /\ \A p : PageSound(p, proofRows, Attested) => PageSound(p, proofRows', Attested')
  BY <1>3, <1>6, HeldStays
<1>8. /\ proofRows' = [proofRows EXCEPT ![1].settleTx = TRUE] => SettledIn(proofRows')
      /\ proofRows' = [proofRows EXCEPT ![1].reputationTx = TRUE] => RatedIn(proofRows')
  BY <1>1, <1>4, <1>6 DEF SettledIn, RatedIn
<1>9. \A v : (\E j \in 1..Len(proofRows') : proofRows'[j].by = v) <=> \E j \in 1..Len(proofRows) : proofRows[j].by = v
  BY <1>6
<1> QED
  BY <1>3, <1>6, <1>7, <1>8, <1>9

LEMMA SettleRowIInv == ASSUME RecordsIInv, NEW s \in Settlers, Records!SettleRow(s) PROVE RecordsIInv'
<1> DEFINE t == [settle[s] EXCEPT !.at = "read"]
<1>1. /\ settle[s].at = "row" /\ proofRows # <<>> /\ proofRows' = [proofRows EXCEPT ![1].settleTx = TRUE]
      /\ settle' = [settle EXCEPT ![s] = t] /\ cert' = cert /\ verify' = verify /\ anchored' = anchored /\ page' = page
  BY DEF Records!SettleRow, Records!FindFirst, RecordsIInv
<1>2. Len(proofRows) > 0
  BY <1>1, EmptySeq DEF RecordsIInv
<1>3. /\ proofRows' \in Seq(ActionRows) /\ OneRowEach(proofRows)' /\ Attested' = Attested
      /\ \A j \in 1..Len(proofRows') : proofRows'[j].by \in Verifies /\ TxSound(proofRows'[j], Attested')
      /\ \A v : (\E j \in 1..Len(proofRows') : proofRows'[j].by = v) <=> \E j \in 1..Len(proofRows) : proofRows[j].by = v
      /\ \A o : SettleSound(o, proofRows, Attested) => SettleSound(o, proofRows', Attested')
      /\ \A p : PageSound(p, proofRows, Attested) => PageSound(p, proofRows', Attested')
      /\ SettledIn(proofRows')
  BY <1>1, <1>2, FirstRowGains
<1>4. settle[s] \in SettleStates /\ SettleSound(settle[s], proofRows, Attested)
  BY DEF RecordsIInv
<1>5. t \in SettleStates /\ t.cert = settle[s].cert
  BY <1>4 DEF SettleStates
<1> HIDE DEF t
<1>6. SettleSound(t, proofRows', Attested')
  BY <1>3, <1>4, <1>5 DEF SettleSound
<1>7. settle' \in [Settlers -> SettleStates] /\ \A o \in Settlers : settle'[o] = IF o = s THEN t ELSE settle[o]
  BY <1>1, <1>6, SettleMoves
<1>8. \A o \in Settlers : SettleSound(settle'[o], proofRows', Attested')
  BY <1>3, <1>6, <1>7 DEF RecordsIInv
<1> QED
  BY <1>1, <1>3, <1>7, <1>8 DEF RecordsIInv

LEMMA SettleReadIInv == ASSUME RecordsIInv, NEW s \in Settlers, Records!SettleRead(s) PROVE RecordsIInv'
<1> DEFINE t == IF cert.exists THEN [at |-> "write", cert |-> cert] ELSE [at |-> "done", cert |-> Records!NoCert]
<1>1. /\ settle[s].at = "read" /\ settle' = [settle EXCEPT ![s] = t]
      /\ proofRows' = proofRows /\ cert' = cert /\ verify' = verify /\ anchored' = anchored /\ page' = page
  BY DEF Records!SettleRead
<1>2. Attested' = Attested /\ SettleSound(settle[s], proofRows, Attested) /\ cert \in Certs /\ TxSound(cert, Attested)
  BY <1>1 DEF RecordsIInv, Attested
<1>3. t \in SettleStates /\ TxSound(t.cert, Attested)
  <2>1. CASE cert.exists
    BY <1>2, <2>1 DEF SettleStates
  <2>2. CASE ~cert.exists
    <3>1. t = [at |-> "done", cert |-> Records!NoCert]
      BY <2>2
    <3>2. t \in SettleStates /\ t.cert = Records!NoCert
      BY <3>1, EmptyRecords DEF SettleStates
    <3> QED
      BY <3>2, EmptyRecords DEF TxSound
  <2> QED
    BY <2>1, <2>2
<1> HIDE DEF t
<1>4. SettleSound(t, proofRows', Attested')
  BY <1>1, <1>2, <1>3 DEF SettleSound
<1>5. settle' \in [Settlers -> SettleStates] /\ \A o \in Settlers : settle'[o] = IF o = s THEN t ELSE settle[o]
  BY <1>1, <1>4, SettleMoves
<1> QED
  BY <1>1, <1>2, <1>4, <1>5 DEF RecordsIInv

LEMMA SettleWriteIInv == ASSUME RecordsIInv, NEW s \in Settlers, Records!SettleWrite(s) PROVE RecordsIInv'
<1> DEFINE t == [at |-> "done", cert |-> Records!NoCert]
<1>1. /\ settle[s].at = "write" /\ settle' = [settle EXCEPT ![s] = t] /\ cert' = [settle[s].cert EXCEPT !.settleTx = TRUE]
      /\ proofRows' = proofRows /\ verify' = verify /\ anchored' = anchored /\ page' = page
  BY DEF Records!SettleWrite
<1>2. Attested' = Attested /\ SettleSound(settle[s], proofRows, Attested) /\ settle[s].cert \in Certs
  BY <1>1 DEF RecordsIInv, Attested, SettleStates
<1>3. cert' \in Certs /\ cert'.by = settle[s].cert.by /\ cert'.verifyTx = settle[s].cert.verifyTx
  BY <1>1, <1>2 DEF Certs
<1>4. TxSound(cert', Attested')
  BY <1>2, <1>3 DEF SettleSound, TxSound
<1>5. t \in SettleStates /\ t.cert = Records!NoCert
  BY EmptyRecords DEF SettleStates
<1> HIDE DEF t
<1>6. SettleSound(t, proofRows', Attested')
  BY <1>1, <1>2, <1>5, EmptyRecords DEF SettleSound, TxSound
<1>7. settle' \in [Settlers -> SettleStates] /\ \A o \in Settlers : settle'[o] = IF o = s THEN t ELSE settle[o]
  BY <1>1, <1>6, SettleMoves
<1> QED
  BY <1>1, <1>2, <1>3, <1>4, <1>6, <1>7 DEF RecordsIInv

LEMMA SettledAndRated ==
    ASSUME RecordsIInv
    PROVE  (Records!Settled => SettledIn(proofRows)) /\ (Records!Rated => RatedIn(proofRows))
           /\ Records!Settled \in BOOLEAN /\ Records!Rated \in BOOLEAN
BY DEF Records!Settled, Records!Rated, RecordsIInv, SettleSound, PageSound

LEMMA OpenIInv == ASSUME RecordsIInv, NEW p \in Viewers, Records!Open(p) PROVE RecordsIInv'
<1> DEFINE q == [Records!Closed EXCEPT !.at = "loading", !.settled = Records!Settled, !.rated = Records!Rated]
<1>1. page' = [page EXCEPT ![p] = q] /\ UNCHANGED <<proofRows, cert, verify, anchored, settle>>
  BY DEF Records!Open, Records!OnPage
<1>2. /\ q \in PageStates /\ q.at = "loading" /\ q.settled = Records!Settled /\ q.rated = Records!Rated
      /\ q.feedback = Records!Closed.feedback /\ q.proof = Records!Closed.proof /\ q.cert = Records!Closed.cert
  BY EmptyRecords, SettledAndRated DEF PageStates
<1> HIDE DEF q
<1>3. Records!Closed.feedback = "none" /\ PageSound(Records!Closed, proofRows, Attested)
  BY EmptyRecords DEF Records!Closed
<1>4. PageSound(q, proofRows, Attested)
  BY <1>2, <1>3, SettledAndRated DEF PageSound
<1> QED
  BY <1>1, <1>4, PageMoves

LEMMA LoadProofIInv == ASSUME RecordsIInv, NEW p \in Viewers, Records!LoadProof(p) PROVE RecordsIInv'
<1> DEFINE at == IF page[p].at = "loading" THEN "proofLoaded" ELSE "shown"
           q == [page[p] EXCEPT !.proof = proofRows[1], !.at = at]
<1>1. /\ page[p].at \in {"loading", "certLoaded"} /\ proofRows # <<>> /\ page' = [page EXCEPT ![p] = q]
      /\ UNCHANGED <<proofRows, cert, verify, anchored, settle>>
  BY DEF Records!LoadProof, Records!OnPage, Records!FindFirst, RecordsIInv
<1>2. Len(proofRows) > 0 /\ 1 \in 1..Len(proofRows)
  BY <1>1, EmptySeq DEF RecordsIInv
<1>3. proofRows[1] \in ActionRows /\ TxSound(proofRows[1], Attested)
  BY <1>2, ElementOfSeq DEF RecordsIInv
<1>4. page[p] \in PageStates /\ PageSound(page[p], proofRows, Attested) /\ at \in {"proofLoaded", "shown"}
  BY DEF RecordsIInv
<1> HIDE DEF at
<1>5. /\ q \in PageStates /\ q.at = at /\ q.proof = proofRows[1] /\ q.cert = page[p].cert /\ q.settled = page[p].settled
      /\ q.rated = page[p].rated /\ q.feedback = page[p].feedback
  BY <1>3, <1>4 DEF PageStates
<1> HIDE DEF q
<1>6. page[p].feedback = "none"
  BY <1>1, <1>4 DEF PageSound
<1>7. PageSound(q, proofRows, Attested)
  BY <1>2, <1>3, <1>4, <1>5, <1>6 DEF PageSound, SettledIn, RatedIn
<1> QED
  BY <1>1, <1>7, PageMoves

LEMMA LoadCertificateIInv == ASSUME RecordsIInv, NEW p \in Viewers, Records!LoadCertificate(p) PROVE RecordsIInv'
<1> DEFINE at == IF page[p].at = "loading" THEN "certLoaded" ELSE "shown"
           q == [page[p] EXCEPT !.cert = cert, !.at = at]
<1>1. /\ page[p].at \in {"loading", "proofLoaded"} /\ page' = [page EXCEPT ![p] = q]
      /\ UNCHANGED <<proofRows, cert, verify, anchored, settle>>
  BY DEF Records!LoadCertificate, Records!OnPage, RecordsIInv
<1>2. page[p] \in PageStates /\ PageSound(page[p], proofRows, Attested) /\ cert \in Certs /\ TxSound(cert, Attested)
  BY DEF RecordsIInv
<1>3. at \in {"certLoaded", "shown"} /\ (at = "shown" => page[p].at = "proofLoaded")
  BY <1>1
<1> HIDE DEF at
<1>4. /\ q \in PageStates /\ q.at = at /\ q.proof = page[p].proof /\ q.cert = cert /\ q.settled = page[p].settled
      /\ q.rated = page[p].rated /\ q.feedback = page[p].feedback
  BY <1>2, <1>3 DEF PageStates
<1> HIDE DEF q
<1>5. page[p].feedback = "none"
  BY <1>1, <1>2 DEF PageSound
<1>6. PageSound(q, proofRows, Attested)
  BY <1>2, <1>3, <1>4, <1>5 DEF PageSound
<1> QED
  BY <1>1, <1>6, PageMoves

LEMMA NotFoundIInv == ASSUME RecordsIInv, NEW p \in Viewers, Records!NotFound(p) PROVE RecordsIInv'
BY EmptyRecords, PageMoves DEF Records!NotFound, Records!OnPage

LEMMA FeedbackMoves ==
    ASSUME RecordsIInv, NEW p \in Viewers, NEW feedback \in {"pending", "success", "reverted", "recorded", "unrecorded"},
           page[p].at = "shown", NEW rs, NEW done, PageSound(page[p], rs, done), feedback = "recorded" => RatedIn(rs)
    PROVE  PageSound([page[p] EXCEPT !.feedback = feedback], rs, done)
<1> DEFINE q == [page[p] EXCEPT !.feedback = feedback]
<1>1. page[p] \in PageStates
  BY DEF RecordsIInv
<1>2. /\ q \in PageStates /\ q.at = "shown" /\ q.proof = page[p].proof /\ q.cert = page[p].cert /\ q.settled = page[p].settled
      /\ q.rated = page[p].rated /\ q.feedback = feedback
  BY <1>1 DEF PageStates
<1> HIDE DEF q
<1>3. PageSound(q, rs, done)
  BY <1>2 DEF PageSound
<1> QED
  BY <1>3 DEF q

LEMMA GiveFeedbackIInv == ASSUME RecordsIInv, NEW p \in Viewers, Records!GiveFeedback(p) \/ Records!FeedbackLands(p) PROVE RecordsIInv'
<1>1. PICK feedback \in {"pending", "success", "reverted"} :
        page' = [page EXCEPT ![p].feedback = feedback] /\ UNCHANGED <<proofRows, cert, verify, anchored, settle>>
  BY DEF Records!GiveFeedback, Records!FeedbackLands, Records!OnPage
<1>2. page[p].at = "shown"
  BY DEF Records!GiveFeedback, Records!FeedbackLands, RecordsIInv, PageSound
<1>3. PageSound([page[p] EXCEPT !.feedback = feedback], proofRows, Attested)
  BY <1>2, FeedbackMoves DEF RecordsIInv
<1>4. page' = [page EXCEPT ![p] = [page[p] EXCEPT !.feedback = feedback]]
  BY <1>1 DEF RecordsIInv
<1> QED
  BY <1>1, <1>3, <1>4, PageMoves

LEMMA RecordReputationIInv == ASSUME RecordsIInv, NEW p \in Viewers, Records!RecordReputation(p) PROVE RecordsIInv'
<1>1. page[p].feedback = "success" /\ page[p].at = "shown" /\ Len(proofRows) > 0 /\ PageSound(page[p], proofRows, Attested)
  BY DEF Records!RecordReputation, RecordsIInv, PageSound
<1>2. CASE page' = [page EXCEPT ![p].feedback = "unrecorded"] /\ UNCHANGED proofRows
  <2>1. PageSound([page[p] EXCEPT !.feedback = "unrecorded"], proofRows, Attested)
    BY <1>1, FeedbackMoves
  <2>2. page' = [page EXCEPT ![p] = [page[p] EXCEPT !.feedback = "unrecorded"]]
    BY <1>2 DEF RecordsIInv
  <2> QED
    BY <1>2, <2>1, <2>2, PageMoves DEF Records!RecordReputation
<1>3. CASE page' = [page EXCEPT ![p].feedback = "recorded"] /\ proofRows' = [proofRows EXCEPT ![1].reputationTx = TRUE]
  <2> DEFINE q == [page[p] EXCEPT !.feedback = "recorded"]
  <2>1. cert' = cert /\ verify' = verify /\ anchored' = anchored /\ settle' = settle
    BY DEF Records!RecordReputation
  <2>2. /\ proofRows' \in Seq(ActionRows) /\ OneRowEach(proofRows)' /\ Attested' = Attested
        /\ \A j \in 1..Len(proofRows') : proofRows'[j].by \in Verifies /\ TxSound(proofRows'[j], Attested')
        /\ \A v : (\E j \in 1..Len(proofRows') : proofRows'[j].by = v) <=> \E j \in 1..Len(proofRows) : proofRows[j].by = v
        /\ \A s : SettleSound(s, proofRows, Attested) => SettleSound(s, proofRows', Attested')
        /\ \A o : PageSound(o, proofRows, Attested) => PageSound(o, proofRows', Attested')
        /\ RatedIn(proofRows')
    BY <1>1, <1>3, <2>1, FirstRowGains
  <2>3. PageSound(q, proofRows', Attested')
    BY <1>1, <2>2, FeedbackMoves
  <2>4. page' = [page EXCEPT ![p] = q]
    BY <1>3 DEF RecordsIInv
  <2> HIDE DEF q
  <2>5. page' \in [Viewers -> PageStates] /\ \A o \in Viewers : PageSound(page'[o], proofRows', Attested')
    BY <2>2, <2>3, <2>4 DEF RecordsIInv, PageSound
  <2> QED
    BY <2>1, <2>2, <2>5 DEF RecordsIInv
<1> QED
  BY <1>2, <1>3 DEF Records!RecordReputation, Records!FindFirst

LEMMA RecordsNextIInv == ASSUME RecordsIInv, Records!RecordsNext \/ UNCHANGED recordVars PROVE RecordsIInv'
<1>1. CASE UNCHANGED recordVars
  BY <1>1 DEF recordVars, RecordsIInv, Attested, OneRowEach
<1>2. ASSUME NEW v \in Verifies,
             \/ Records!CreateRow(v) \/ Records!UpsertCertificate(v) \/ Records!SendAttest(v) \/ Records!AttestLands(v)
             \/ Records!SaveVerifyTx(v) \/ Records!SaveCertificate(v) \/ Records!AttestFails(v)
      PROVE  RecordsIInv'
  BY <1>2, FirstRecordIInv, UpsertIInv, SendAttestIInv, AttestLandsIInv, SaveVerifyTxIInv, SaveCertificateIInv, AttestFailsIInv
<1>3. ASSUME NEW s \in Settlers, Records!SettleRow(s) \/ Records!SettleRead(s) \/ Records!SettleWrite(s) PROVE RecordsIInv'
  BY <1>3, SettleRowIInv, SettleReadIInv, SettleWriteIInv
<1>4. ASSUME NEW p \in Viewers,
             \/ Records!Open(p) \/ Records!LoadProof(p) \/ Records!LoadCertificate(p) \/ Records!NotFound(p)
             \/ Records!GiveFeedback(p) \/ Records!FeedbackLands(p) \/ Records!RecordReputation(p)
      PROVE  RecordsIInv'
  BY <1>4, OpenIInv, LoadProofIInv, LoadCertificateIInv, NotFoundIInv, GiveFeedbackIInv, RecordReputationIInv
<1> QED
  BY <1>1, <1>2, <1>3, <1>4 DEF Records!RecordsNext

LEMMA RecordsIInvImplies == ASSUME RecordsIInv PROVE Records!RecordsTypeOK /\ Records!ProofPageTrue
<1>1. Records!ProofPageTrue
  BY DEF RecordsIInv, PageSound, TxSound, Attested, Records!ProofPageTrue, Records!RecordedIsShown, Records!ShownTxAttests, Records!Shown
<1>2. DOMAIN proofRows = 1..Len(proofRows)
  BY DEF RecordsIInv
<1>3. Records!IsInjective([k \in DOMAIN proofRows |-> proofRows[k].by])
  BY <1>2 DEF RecordsIInv, OneRowEach, Records!IsInjective
<1>4. \A v \in Verifies : /\ verify[v].at \in {"start", "cert", "attest", "wait", "save", "done"}
                          /\ verify[v].tx \in Records!TxStates /\ verify[v].verdict \in Decisions \cup {"none"}
                          /\ (verify[v].at # "start" <=> \E k \in DOMAIN proofRows : proofRows[k].by = v)
  BY <1>2 DEF RecordsIInv, VerifyStates
<1>5. cert.by \in Verifies \cup {"none"} /\ anchored \in Verifies \cup {"none"}
  BY DEF RecordsIInv, Certs
<1>6. \A s \in Settlers : settle[s].at \in {"row", "read", "write", "done"}
  BY DEF RecordsIInv, SettleStates
<1>7. \A p \in Viewers : page[p].at \in {"closed", "loading", "proofLoaded", "certLoaded", "shown"}
  BY DEF RecordsIInv, PageStates
<1>8. Records!RecordsTypeOK
  BY <1>3, <1>4, <1>5, <1>6, <1>7 DEF Records!RecordsTypeOK, Records!None
<1> QED
  BY <1>1, <1>8

-----------------------------------------------------------------------------
(* The composition: one part moves, the others rest. *)

AService == service \in {"log", "rate", "tee", "compile", "proof"}
ServicesIInv == BatchIInv /\ RateIInv /\ TeeIInv /\ EnvelopesIInv /\ RecordsIInv

LEMMA ServicesInitIInv == ServicesInit => ServicesIInv
BY ServicesAssumption, BatchInitIInv, RateInitIInv, TeeInitIInv, EnvelopesInitIInv, RecordsInitIInv
   DEF ServicesInit, ServicesIInv

LEMMA ServicesNextIInv == ServicesIInv /\ [ServicesNext]_servicesVars => ServicesIInv'
<1> SUFFICES ASSUME ServicesIInv, [ServicesNext]_servicesVars PROVE ServicesIInv'
  OBVIOUS
<1>1. BatchNext \/ UNCHANGED batchVars
  BY DEF ServicesNext, LogStep, RateStep, TeeStep, CompileStep, ProofStep, servicesVars
<1>2. Rate!RateNext \/ UNCHANGED rateVars
  BY DEF ServicesNext, LogStep, RateStep, TeeStep, CompileStep, ProofStep, servicesVars
<1>3. Tee!TeeNext \/ UNCHANGED teeVars
  BY DEF ServicesNext, LogStep, RateStep, TeeStep, CompileStep, ProofStep, servicesVars
<1>4. Compiled!EnvelopesNext \/ UNCHANGED envelopeVars
  BY DEF ServicesNext, LogStep, RateStep, TeeStep, CompileStep, ProofStep, servicesVars
<1>5. Records!RecordsNext \/ UNCHANGED recordVars
  BY DEF ServicesNext, LogStep, RateStep, TeeStep, CompileStep, ProofStep, servicesVars
<1>6. BatchIInv'
  BY <1>1, BatchNextIInv DEF ServicesIInv
<1>7. RateIInv' /\ TeeIInv' /\ EnvelopesIInv' /\ RecordsIInv'
  BY <1>2, <1>3, <1>4, <1>5, ServicesAssumption, RateNextIInv, TeeNextIInv, EnvelopesNextIInv, RecordsNextIInv
     DEF ServicesIInv
<1> QED
  BY <1>6, <1>7 DEF ServicesIInv

LEMMA ServicesInvariant == ServicesSpec => []ServicesIInv
BY ServicesInitIInv, ServicesNextIInv, PTL DEF ServicesSpec

\* Of apps/api: the types of the log, the limiter, the TEE cache, the
\* compiled envelopes and the records, with what the type invariants say
\* beyond types: windows are swept, no listing is from the future, a nonce
\* counts registrations, and every verify that began has one row.
THEOREM ServicesTypeCorrect == ServicesSpec => []ServicesTypeOK
<1>1. ServicesIInv /\ AService => ServicesTypeOK
  BY ServicesAssumption, RateIInvImplies, TeeIInvImplies, EnvelopesIInvImplies, RecordsIInvImplies
     DEF ServicesIInv, BatchIInv, ServicesTypeOK, AService
<1>2. ServicesInit => AService
  BY DEF ServicesInit, AService
<1>3. AService /\ [ServicesNext]_servicesVars => AService'
  BY DEF ServicesNext, servicesVars, AService
<1> QED
  BY <1>1, <1>2, <1>3, ServicesInvariant, PTL DEF ServicesSpec

\* registerRateLimit (rate-limit.ts:42-86): however a client's requests fall
\* around the ends of its windows and the sweeps, any interval of one
\* window's length lets through at most twice the limit, for every limit.
THEOREM TwiceTheLimitAtMost == ServicesSpec => []AtMostTwiceTheLimit
<1>1. ServicesIInv => AtMostTwiceTheLimit
  BY ServicesAssumption, RateIInvImplies DEF ServicesIInv, AtMostTwiceTheLimit
<1> QED
  BY <1>1, ServicesInvariant, PTL

\* registryAttestation (router.ts:31-51): whatever fetches overlap and
\* whenever the listing changes, evidence taken from the registry was true of
\* it within one lifetime of the cache and one fetch.
THEOREM AttestationsWereListed == ServicesSpec => []AttestedWasListed
<1>1. ServicesIInv => AttestedWasListed
  BY ServicesAssumption, TeeIInvImplies DEF ServicesIInv, AttestedWasListed
<1> QED
  BY <1>1, ServicesInvariant, PTL

\* POST /compile (app.ts:600-735) and GET /envelope: through restarts and
\* uploads given up, a registered intent has its row, a row's root can be
\* fetched, and what is fetched is of the row's intent.
THEOREM IntentRowsAreTrue == ServicesSpec => []RowsAreTrue
<1>1. ServicesIInv => RowsAreTrue
  BY ServicesAssumption, EnvelopesIInvImplies DEF ServicesIInv, RowsAreTrue
<1> QED
  BY <1>1, ServicesInvariant, PTL

\* GET /proof, GET /certificate, POST /settle and POST /reputation
\* (app.ts:959-1010): what has been answered for is on every page opened
\* later, and a transaction a page shows attested the evidence beside it.
THEOREM ProofPagesAreTrue == ServicesSpec => []ProofPageTrue
<1>1. ServicesIInv => ProofPageTrue
  BY RecordsIInvImplies DEF ServicesIInv, ProofPageTrue
<1> QED
  BY <1>1, ServicesInvariant, PTL
=============================================================================
