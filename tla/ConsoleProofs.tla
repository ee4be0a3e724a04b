--------------------------- MODULE ConsoleProofs ---------------------------
(* Proofs about session cookies and the log channel, for any number of     *)
(* browsers, sockets and secrets, any length of a session and of a second, *)
(* and any capacity of the channel.                                        *)
EXTENDS Console, FiniteSetTheorems, TLAPS

(* Whole seconds.                                                          *)
LEMMA DivMonotone ==
  ASSUME NEW s \in Nat \ {0}, NEW a \in Nat, NEW b \in Nat, a <= b
  PROVE  a \div s <= b \div s
OBVIOUS

LEMMA DivNext ==
  ASSUME NEW s \in Nat \ {0}, NEW a \in Nat
  PROVE  a \div s \in Nat /\ (a + s) \div s = (a \div s) + 1
OBVIOUS

USE ConsoleAssumption

(* A cookie holds the secret of the last login and the whole second at     *)
(* which its session ends; the fraction is cut off.                        *)
Issued(b) ==
  /\ login[b].at \in Nat /\ login[b].at <= clock
  /\ cookie[b].exp = Unix(login[b].at + TTL)
  /\ cookie[b].by = login[b].under
SessionInv ==
  /\ clock \in Nat
  /\ secret \in {SecretOf(env) : env \in Environments}
  /\ cookie \in [Browsers -> [exp : Nat, by : {SecretOf(env) : env \in Environments} \cup {Blank}]]
  /\ DOMAIN login = Browsers
  /\ \A b \in Browsers : Issued(b) \/ (cookie[b].by = Blank /\ login[b].under = Blank)

LEMMA Secrets == \A env : SecretOf(env) # Blank
BY DEF SecretOf

LEMMA InitSession == Init => SessionInv
BY Secrets DEF Init, SessionInv, None, Never

LEMMA NextSession == SessionInv /\ [Next]_vars => SessionInv'
<1> SUFFICES ASSUME SessionInv, [Next]_vars PROVE SessionInv'
  OBVIOUS
<1> USE DEF SessionInv
<1>1. CASE Pass
  BY <1>1 DEF Pass, Issued
<1>2. ASSUME NEW b \in Browsers, Login(b) PROVE SessionInv'
  <2>1. clock + TTL \in Nat
    OBVIOUS
  <2>2. Unix(clock + TTL) \in Nat
    BY <2>1, DivNext DEF Unix
  <2>3. cookie' = [cookie EXCEPT ![b] = [exp |-> Unix(clock + TTL), by |-> secret]]
    BY <1>2 DEF Login, NewSessionValue
  <2>4. UNCHANGED <<clock, secret>> /\ login' = [login EXCEPT ![b] = [at |-> clock, under |-> secret]]
    BY <1>2 DEF Login
  <2>5. \A a \in Browsers : Issued(a)' \/ (cookie'[a].by = Blank /\ login'[a].under = Blank)
    BY <2>3, <2>4 DEF Issued
  <2> QED
    BY <2>2, <2>3, <2>4, <2>5
<1>3. ASSUME NEW env \in Environments, Restart(env) PROVE SessionInv'
  BY <1>3, Secrets DEF Restart, Issued
<1>4. CASE UNCHANGED sessionVars
  BY <1>4 DEF sessionVars, Issued
<1> QED
  BY <1>1, <1>2, <1>3, <1>4 DEF Next, EmitLog, OpenLogs, ClosePage, Handle, Take, Show,
                                FailToShow, vars

(* A session ends when its cookie says so: within its last second.         *)
LEMMA HonouredWhenIssued ==
  ASSUME SessionInv, NEW b \in Browsers, Issued(b), cookie[b].by = secret
  PROVE  /\ Authenticated(b) => clock - login[b].at < TTL
         /\ clock - login[b].at <= TTL - Second => Authenticated(b)
<1> DEFINE end == login[b].at + TTL
<1>1. end \in Nat /\ clock \in Nat /\ cookie[b].exp = end \div Second
  BY DEF SessionInv, Issued, Unix
<1>2. CASE clock - login[b].at >= TTL
  <2>1. end <= clock
    BY <1>2, <1>1 DEF SessionInv, Issued
  <2>2. end \div Second <= clock \div Second
    BY <1>1, <2>1, DivMonotone
  <2>3. clock \div Second \in Nat /\ end \div Second \in Nat
    BY <1>1, DivNext
  <2>4. ~Authenticated(b)
    BY <1>1, <2>2, <2>3 DEF Authenticated, Unix
  <2>5. ~(clock - login[b].at <= TTL - Second)
    BY <1>1, <1>2 DEF SessionInv, Issued
  <2> QED
    BY <2>4, <2>5
<1>3. CASE clock - login[b].at <= TTL - Second
  <2>1. clock + Second <= end /\ clock + Second \in Nat
    BY <1>1, <1>3 DEF SessionInv, Issued
  <2>2. (clock + Second) \div Second <= end \div Second
    BY <1>1, <2>1, DivMonotone
  <2>3. clock \div Second \in Nat /\ (clock + Second) \div Second = (clock \div Second) + 1
    BY <1>1, DivNext
  <2>4. end \div Second \in Nat
    BY <1>1, DivNext
  <2>5. clock - login[b].at < TTL
    BY <1>1, <1>3 DEF SessionInv, Issued
  <2> QED
    BY <1>1, <2>2, <2>3, <2>4, <2>5 DEF Authenticated, Unix
<1> QED
  BY <1>1, <1>2, <1>3 DEF SessionInv, Issued

(* A session is honoured for TTL from its login, less at most a second,    *)
(* and by every process with the secret of the login, but no other.        *)
THEOREM SessionsHonoured == Spec => []SessionHonoured
<1>1. SessionInv => SessionHonoured
  BY HonouredWhenIssued, Secrets DEF SessionInv, SessionHonoured, Authenticated, Issued
<1> QED
  BY <1>1, InitSession, NextSession, PTL DEF Spec

-----------------------------------------------------------------------------
(* The log channel.                                                        *)

LogTypes ==
  /\ emitted \in Nat
  /\ logCh \in Seq(1..emitted) /\ Len(logCh) <= LogCap
  /\ spc \in [Sockets -> {"none", "reading", "writing", "gone"}]
  /\ hand \in [Sockets -> 0..emitted]
  /\ lost \in [Sockets -> 0..emitted]
  /\ dropped \subseteq 1..emitted
  /\ shown \in [Sockets -> SUBSET (1..emitted)]

(* A handler holds a line just while it writes it, and loses one at most.  *)
HandlerInv ==
  \A s \in Sockets :
    /\ hand[s] # 0 <=> spc[s] = "writing"
    /\ lost[s] # 0 => spc[s] = "gone" /\ s \in cut

Queued(n)   == \E i \in 1..Len(logCh) : logCh[i] = n
Taken(n, s) == n \in {hand[s], lost[s]} \cup shown[s]

(* What was taken from the channel is not in it, since it was emitted      *)
(* before anything there: that is LogInOrder's part of the argument.       *)
OnePlace ==
  \A n \in 1..emitted :
    /\ Queued(n) \/ n \in dropped \/ \E s \in Sockets : Taken(n, s)
    /\ n \in dropped => ~Queued(n) /\ \A s \in Sockets : ~Taken(n, s)
    /\ \A s, t \in Sockets : Taken(n, s) /\ Taken(n, t) => s = t

LogInv == LogTypes /\ HandlerInv /\ LogInOrder /\ OnePlace

(* A process starts with no lines.                                         *)
LEMMA NoLines ==
  ASSUME logCh = <<>>, emitted = 0, spc = [s \in Sockets |-> "none"],
         hand = [s \in Sockets |-> 0], dropped = {}, shown = [s \in Sockets |-> {}],
         lost = [s \in Sockets |-> 0]
  PROVE  LogInv
BY DEF LogInv, LogTypes, HandlerInv, LogInOrder, OnePlace

LEMMA EmitLogInv == LogInv /\ EmitLog => LogInv'
<1> SUFFICES ASSUME LogInv, EmitLog PROVE LogInv'
  OBVIOUS
<1> USE DEF LogInv
<1>1. /\ emitted \in Nat /\ emitted' = emitted + 1 /\ logCh \in Seq(1..emitted)
      /\ UNCHANGED <<spc, hand, cut, shown, lost>>
  BY DEF EmitLog, LogTypes
<1>2. HandlerInv'
  BY <1>1 DEF HandlerInv
<1>3. \A s \in Sockets : \A n : Taken(n, s)' <=> Taken(n, s)
  BY <1>1 DEF Taken
<1>4. \A s \in Sockets : ~Taken(emitted + 1, s)
  BY <1>1 DEF Taken, LogTypes
<1>5. CASE Len(logCh) < LogCap
  <2>1. logCh' = Append(logCh, emitted + 1) /\ dropped' = dropped
    BY <1>5 DEF EmitLog
  <2>2. /\ Len(logCh') = Len(logCh) + 1 /\ logCh' \in Seq(1..emitted')
        /\ logCh'[Len(logCh) + 1] = emitted + 1
        /\ \A i \in 1..Len(logCh) : logCh'[i] = logCh[i] /\ logCh[i] \in 1..emitted
    <3>1. \A i \in 1..Len(logCh) : logCh[i] \in 1..emitted
      BY <1>1
    <3>2. logCh \in Seq(1..emitted')
      BY <1>1
    <3> QED
      BY <1>1, <2>1, <3>1, <3>2
  <2>3. LogTypes'
    <3>1. 0..emitted \subseteq 0..emitted' /\ 1..emitted \subseteq 1..emitted'
      BY <1>1
    <3>2. emitted' \in Nat /\ logCh' \in Seq(1..emitted') /\ Len(logCh') <= LogCap
      <4>1. Len(logCh) \in Nat
        BY <1>1
      <4> QED
        BY <1>1, <1>5, <2>2, <4>1
    <3>3. /\ hand \in [Sockets -> 0..emitted'] /\ lost \in [Sockets -> 0..emitted']
          /\ dropped \subseteq 1..emitted' /\ shown \in [Sockets -> SUBSET (1..emitted')]
      BY <3>1 DEF LogTypes
    <3> QED
      BY <1>1, <2>1, <3>2, <3>3 DEF LogTypes
  <2>4. LogInOrder'
    <3>0. Len(logCh) \in Nat
      BY <1>1
    <3>1. ASSUME NEW i \in 1..Len(logCh'), NEW j \in 1..Len(logCh'), i < j
          PROVE  logCh'[i] < logCh'[j]
      <4>1. i \in 1..Len(logCh)
        BY <2>2, <3>0, <3>1
      <4>2. CASE j = Len(logCh) + 1
        <5>1. logCh'[i] \in 1..emitted /\ logCh'[j] = emitted + 1
          BY <2>2, <4>1, <4>2
        <5> QED
          BY <1>1, <5>1
      <4>3. CASE j \in 1..Len(logCh)
        BY <2>2, <3>1, <4>1, <4>3 DEF LogInOrder
      <4> QED
        BY <2>2, <3>0, <4>2, <4>3
    <3>2. ASSUME NEW s \in Sockets, NEW i \in 1..Len(logCh'),
                 NEW n \in shown[s] \cup {hand[s], lost[s]}
          PROVE  n < logCh'[i]
      <4>1. n \in 0..emitted
        BY DEF LogTypes
      <4>2. CASE i = Len(logCh) + 1
        BY <1>1, <2>2, <4>1, <4>2
      <4>3. CASE i \in 1..Len(logCh)
        BY <2>2, <4>3 DEF LogInOrder
      <4> QED
        BY <2>2, <3>0, <4>2, <4>3
    <3> QED
      BY <1>1, <3>1, <3>2 DEF LogInOrder
  <2>5. ASSUME NEW n PROVE Queued(n)' <=> Queued(n) \/ n = emitted + 1
    <3>1. 1..Len(logCh') = (1..Len(logCh)) \cup {Len(logCh) + 1}
      <4>1. Len(logCh) \in Nat
        BY <1>1
      <4> QED
        BY <2>2, <4>1
    <3> QED
      BY <2>2, <3>1 DEF Queued
  <2>6. OnePlace'
    BY <1>1, <1>3, <1>4, <2>1, <2>5 DEF OnePlace, LogTypes
  <2> QED
    BY <1>2, <2>3, <2>4, <2>6
<1>6. CASE ~(Len(logCh) < LogCap)
  <2>1. dropped' = dropped \cup {emitted + 1} /\ logCh' = logCh
    BY <1>6 DEF EmitLog
  <2>2. LogTypes'
    BY <1>1, <2>1 DEF LogTypes
  <2>3. LogInOrder'
    BY <1>1, <2>1 DEF LogInOrder
  <2>4. \A n : (Queued(n)' <=> Queued(n)) /\ ~Queued(emitted + 1)
    <3>1. \A i \in 1..Len(logCh) : logCh[i] \in 1..emitted
      BY <1>1
    <3>2. ~Queued(emitted + 1)
      BY <1>1, <3>1 DEF Queued
    <3>3. \A n : Queued(n)' <=> Queued(n)
      BY <2>1 DEF Queued
    <3> QED
      BY <3>2, <3>3
  <2>5. OnePlace'
    <3> DEFINE Placed(n) ==
          /\ Queued(n)' \/ n \in dropped' \/ \E s \in Sockets : Taken(n, s)'
          /\ n \in dropped' => ~Queued(n)' /\ \A s \in Sockets : ~Taken(n, s)'
          /\ \A s, t \in Sockets : Taken(n, s)' /\ Taken(n, t)' => s = t
    <3>1. ASSUME NEW n \in 1..emitted PROVE Placed(n)
      <4>1. n \in dropped' <=> n \in dropped
        BY <1>1, <2>1
      <4> QED
        BY <1>3, <2>4, <4>1, Zenon DEF OnePlace
    <3>2. ASSUME NEW n, n = emitted + 1 PROVE Placed(n)
      <4>1. n \in dropped' /\ ~Queued(n)'
        BY <2>1, <2>4, <3>2
      <4>2. \A s \in Sockets : ~Taken(n, s)'
        BY <1>3, <1>4, <3>2, Zenon
      <4> QED
        BY <4>1, <4>2
    <3>3. 1..emitted' = (1..emitted) \cup {emitted + 1}
      BY <1>1
    <3> HIDE DEF Placed
    <3>4. \A n \in 1..emitted' : Placed(n)
      BY <3>1, <3>2, <3>3
    <3> QED
      BY <3>4 DEF OnePlace, Placed
  <2> QED
    BY <1>2, <2>2, <2>3, <2>5
<1> QED
  BY <1>5, <1>6

(* The first handler that gets the channel takes its oldest line.          *)
LEMMA TakeInv ==
  ASSUME LogInv, NEW s \in Sockets, Take(s)
  PROVE  LogInv'
<1> USE DEF LogInv
<1>0. PICK first : first = Head(logCh)
  OBVIOUS
<1>1. /\ emitted \in Nat /\ logCh \in Seq(1..emitted) /\ logCh # <<>>
      /\ UNCHANGED <<emitted, cut, dropped, shown, lost>>
      /\ spc[s] = "reading" /\ spc' = [spc EXCEPT ![s] = "writing"]
      /\ hand[s] = 0 /\ lost[s] = 0 /\ hand' = [hand EXCEPT ![s] = first]
      /\ logCh' = Tail(logCh)
  BY <1>0 DEF Take, SocketAt, LogTypes, HandlerInv
<1>2. /\ first = logCh[1] /\ first \in 1..emitted
      /\ Len(logCh') = Len(logCh) - 1 /\ logCh' \in Seq(1..emitted)
      /\ Len(logCh) \in Nat \ {0}
      /\ \A i \in 1..Len(logCh') : logCh'[i] = logCh[i + 1]
  BY <1>0, <1>1
<1>3. LogTypes'
  BY <1>1, <1>2 DEF LogTypes
<1>4. HandlerInv'
  BY <1>1, <1>2 DEF HandlerInv, LogTypes
<1>5. LogInOrder'
  <2>1. ASSUME NEW i \in 1..Len(logCh'), NEW j \in 1..Len(logCh'), i < j
        PROVE  logCh'[i] < logCh'[j]
    <3>1. i + 1 \in 1..Len(logCh) /\ j + 1 \in 1..Len(logCh) /\ i + 1 < j + 1
      BY <1>2, <2>1
    <3> QED
      BY <1>2, <3>1 DEF LogInOrder
  <2>2. ASSUME NEW i \in 1..Len(logCh'), NEW t \in Sockets,
               NEW n \in shown[t] \cup {hand[t], lost[t], first}
        PROVE  n < logCh'[i]
    <3>1. /\ i + 1 \in 1..Len(logCh) /\ 1 \in 1..Len(logCh) /\ 1 < i + 1
          /\ logCh'[i] = logCh[i + 1]
      BY <1>2
    <3>2. logCh[1] < logCh[i + 1]
      BY <3>1 DEF LogInOrder
    <3> QED
      BY <1>2, <3>1, <3>2 DEF LogInOrder
  <2>3. \A n \in shown[s] : n < first
    <3>1. 1 \in 1..Len(logCh)
      BY <1>2
    <3> QED
      BY <1>2, <3>1 DEF LogInOrder
  <2>4. \A t \in Sockets : hand'[t] = IF t = s THEN first ELSE hand[t]
    BY <1>1 DEF LogTypes
  <2>5. ASSUME NEW t \in Sockets, NEW n \in shown'[t], hand'[t] # 0 PROVE n < hand'[t]
    BY <1>1, <2>3, <2>4, <2>5 DEF LogInOrder
  <2>6. ASSUME NEW t \in Sockets, NEW i \in 1..Len(logCh'),
               NEW n \in shown'[t] \cup {hand'[t], lost'[t]}
        PROVE  n < logCh'[i]
    <3>1. n \in shown[t] \cup {hand[t], lost[t], first}
      BY <1>1, <2>4
    <3> QED
      BY <2>2, <3>1
  <2> QED
    BY <2>1, <2>5, <2>6 DEF LogInOrder
<1>6. ASSUME NEW n PROVE Queued(n) <=> Queued(n)' \/ n = first
  <2>1. \A i \in 1..Len(logCh) : i = 1 \/ (i - 1 \in 1..Len(logCh') /\ logCh[i] = logCh'[i - 1])
    BY <1>2
  <2>2. 1 \in 1..Len(logCh) /\ \A i \in 1..Len(logCh') : i + 1 \in 1..Len(logCh)
    BY <1>2
  <2>3. Queued(n) => Queued(n)' \/ n = first
    BY <1>2, <2>1 DEF Queued
  <2>4. Queued(n)' => Queued(n)
    BY <1>2, <2>2 DEF Queued
  <2>5. Queued(first)
    BY <1>2, <2>2 DEF Queued
  <2> QED
    BY <2>3, <2>4, <2>5
<1>7. \A n \in 1..emitted, t \in Sockets : Taken(n, t)' <=> Taken(n, t) \/ (n = first /\ t = s)
  BY <1>1 DEF Taken, LogTypes
<1>8. ~Queued(first)' /\ Queued(first)
  <2>1. ASSUME NEW i \in 1..Len(logCh') PROVE logCh'[i] # first
    <3>1. /\ i + 1 \in 1..Len(logCh) /\ 1 \in 1..Len(logCh) /\ 1 < i + 1
          /\ logCh'[i] = logCh[i + 1] /\ logCh[i + 1] \in Nat
      BY <1>1, <1>2
    <3>2. logCh[1] < logCh[i + 1]
      BY <3>1 DEF LogInOrder
    <3> QED
      BY <1>2, <3>1, <3>2
  <2> QED
    BY <1>2, <1>6, <2>1 DEF Queued
<1>9. ASSUME NEW t \in Sockets PROVE ~Taken(first, t)
  <2>1. 1 \in 1..Len(logCh)
    BY <1>2
  <2>2. \A n \in shown[t] \cup {hand[t], lost[t]} : n < first
    BY <1>2, <2>1 DEF LogInOrder
  <2>3. ~(first < first)
    BY <1>2
  <2> QED
    BY <2>2, <2>3 DEF Taken
<1>10. OnePlace'
  <2> SUFFICES ASSUME NEW n \in 1..emitted
               PROVE  /\ Queued(n)' \/ n \in dropped \/ \E t \in Sockets : Taken(n, t)'
                      /\ n \in dropped => ~Queued(n)' /\ \A t \in Sockets : ~Taken(n, t)'
                      /\ \A t, u \in Sockets : Taken(n, t)' /\ Taken(n, u)' => t = u
    BY <1>1 DEF OnePlace
  <2>1. CASE n = first
    <3>1. n \notin dropped
      BY <1>8, <2>1 DEF OnePlace
    <3> QED
      BY <1>7, <1>9, <2>1, <3>1
  <2>2. CASE n # first
    BY <1>6, <1>7, <2>2 DEF OnePlace
  <2> QED
    BY <2>1, <2>2
<1> QED
  BY <1>3, <1>4, <1>5, <1>10

(* A line written, or lost to a page that has gone, stays with its handler.*)
LEMMA WriteInv ==
  ASSUME LogInv, NEW s \in Sockets, Show(s) \/ FailToShow(s)
  PROVE  LogInv'
<1> USE DEF LogInv
<1>1. /\ UNCHANGED <<emitted, logCh, cut, dropped>>
      /\ emitted \in Nat /\ hand[s] \in 1..emitted /\ lost[s] = 0
      /\ hand' = [hand EXCEPT ![s] = 0] /\ spc[s] = "writing"
  BY DEF Show, FailToShow, SocketAt, LogTypes, HandlerInv
<1>2. LogTypes'
  <2>1. CASE Show(s)
    BY <1>1, <2>1 DEF LogTypes, Show, SocketAt
  <2>2. CASE FailToShow(s)
    BY <1>1, <2>2 DEF LogTypes, FailToShow, SocketAt
  <2> QED
    BY <2>1, <2>2
<1>3. HandlerInv'
  BY <1>1 DEF HandlerInv, LogTypes, Show, FailToShow, SocketAt
<1>4. /\ \A n \in 1..emitted, t \in Sockets : Taken(n, t)' <=> Taken(n, t)
      /\ \A t \in Sockets : /\ shown'[t] \cup {hand'[t], lost'[t]} \subseteq
                                 shown[t] \cup {hand[t], lost[t], 0}
                            /\ hand'[t] # 0 => shown'[t] = shown[t] /\ hand'[t] = hand[t]
  <2>1. s \in Sockets /\ DOMAIN hand = Sockets /\ DOMAIN shown = Sockets /\ DOMAIN lost = Sockets
    BY DEF LogTypes
  <2>2. hand'[s] = 0 /\ \A t \in Sockets \ {s} : hand'[t] = hand[t]
    BY <1>1, <2>1
  <2>3. /\ \A t \in Sockets \ {s} : shown'[t] = shown[t] /\ lost'[t] = lost[t]
        /\ \/ shown'[s] = shown[s] \cup {hand[s]} /\ lost'[s] = 0
           \/ shown'[s] = shown[s] /\ lost'[s] = hand[s]
    <3>1. CASE Show(s)
      BY <1>1, <2>1, <3>1 DEF Show
    <3>2. CASE FailToShow(s)
      BY <1>1, <2>1, <3>2 DEF FailToShow
    <3> QED
      BY <3>1, <3>2
  <2>4. \A n \in 1..emitted, t \in Sockets \ {s} : Taken(n, t)' <=> Taken(n, t)
    BY <2>2, <2>3 DEF Taken
  <2>5. \A n \in 1..emitted : Taken(n, s)' <=> Taken(n, s)
    BY <1>1, <2>2, <2>3 DEF Taken
  <2> QED
    BY <1>1, <2>2, <2>3, <2>4, <2>5
<1>5. LogInOrder'
  <2>1. \A i \in 1..Len(logCh) : 0 < logCh[i]
    BY DEF LogTypes
  <2> QED
    BY <1>1, <1>4, <2>1 DEF LogInOrder
<1>6. OnePlace'
  <2>1. \A n : Queued(n)' <=> Queued(n)
    BY <1>1 DEF Queued
  <2> QED
    BY <1>1, <1>4, <2>1 DEF OnePlace
<1> QED
  BY <1>2, <1>3, <1>5, <1>6

LEMMA NextLogInv == LogInv /\ [Next]_vars => LogInv'
<1> SUFFICES ASSUME LogInv, [Next]_vars PROVE LogInv'
  OBVIOUS
<1>1. ASSUME UNCHANGED <<logCh, emitted, hand, dropped, shown, lost>>,
             LogTypes', HandlerInv'
      PROVE  LogInv'
  BY <1>1 DEF LogInv, LogInOrder, OnePlace, Queued, Taken
<1>2. CASE UNCHANGED logVars
  BY <1>1, <1>2 DEF logVars, LogInv, LogTypes, HandlerInv
<1>3. ASSUME NEW s \in Sockets, NEW b \in Browsers, OpenLogs(s, b) PROVE LogInv'
  BY <1>1, <1>3 DEF OpenLogs, SocketAt, LogInv, LogTypes, HandlerInv
<1>4. ASSUME NEW s \in Sockets, ClosePage(s) PROVE LogInv'
  BY <1>1, <1>4 DEF ClosePage, LogInv, LogTypes, HandlerInv
<1>5. ASSUME NEW env \in Environments, Restart(env) PROVE LogInv'
  <2>1. /\ logCh' = <<>> /\ emitted' = 0 /\ spc' = [s \in Sockets |-> "none"]
        /\ hand' = [s \in Sockets |-> 0] /\ dropped' = {}
        /\ shown' = [s \in Sockets |-> {}] /\ lost' = [s \in Sockets |-> 0]
    BY <1>5 DEF Restart
  <2> QED
    BY <2>1 DEF LogInv, LogTypes, HandlerInv, LogInOrder, OnePlace
<1> QED
  BY <1>2, <1>3, <1>4, <1>5, EmitLogInv, TakeInv, WriteInv
     DEF Next, Handle, Pass, Login, vars

LEMMA InitLogInv == Init => LogInv
BY NoLines DEF Init

(* A line that is in one place only is there once.                         *)
LEMMA OnePlaceCounted ==
  ASSUME LogInv, NEW n \in 1..emitted
  PROVE  Cardinality(Places(n)) = 1
<1> SUFFICES \E x : Places(n) = {x}
  BY FS_Singleton
<1> USE DEF LogInv
<1>1. CASE Queued(n)
  <2>1. PICK i \in 1..Len(logCh) : logCh[i] = n
    BY <1>1 DEF Queued
  <2>2. {j \in 1..Len(logCh) : logCh[j] = n} = {i}
    <3>1. Len(logCh) \in Nat /\ \A j \in 1..Len(logCh) : logCh[j] \in Nat
      BY DEF LogTypes
    <3>2. ASSUME NEW j \in 1..Len(logCh), j # i PROVE logCh[j] # n
      <4>1. CASE i < j
        BY <2>1, <3>1, <4>1 DEF LogInOrder
      <4>2. CASE j < i
        BY <2>1, <3>1, <4>2 DEF LogInOrder
      <4> QED
        BY <3>1, <3>2, <4>1, <4>2
    <3> QED
      BY <2>1, <3>2
  <2>3. n \notin dropped
    BY <1>1 DEF OnePlace
  <2>4. \A s \in Sockets : ~Taken(n, s)
    <3>1. ~(n < n)
      OBVIOUS
    <3> QED
      BY <2>1, <3>1 DEF Taken, LogInOrder
  <2>5. Places(n) = {<<"queued", i>>}
    BY <2>2, <2>3, <2>4 DEF Places, Taken
  <2> QED
    BY <2>5
<1>2. CASE n \in dropped
  <2>1. ~Queued(n) /\ \A s \in Sockets : ~Taken(n, s)
    BY <1>2 DEF OnePlace
  <2>2. Places(n) = {<<"dropped", n>>}
    BY <1>2, <2>1 DEF Places, Taken, Queued
  <2> QED
    BY <2>2
<1>3. CASE ~Queued(n) /\ n \notin dropped
  <2>1. PICK s \in Sockets : Taken(n, s)
    BY <1>3 DEF OnePlace
  <2>2. \A t \in Sockets : Taken(n, t) => t = s
    BY <2>1 DEF OnePlace
  <2>3. Places(n) = {<<"taken", s>>}
    BY <1>3, <2>1, <2>2 DEF Places, Taken, Queued
  <2> QED
    BY <2>3
<1> QED
  BY <1>1, <1>2, <1>3

(* No line goes astray between the sockets that share the channel: each is *)
(* queued, dropped by emitLog's default, or with exactly one handler.      *)
THEOREM EveryLineAccounted == Spec => []LogAccounted
<1>1. LogInv => LogAccounted
  BY OnePlaceCounted DEF LogInv, LogAccounted, HandlerInv
<1> QED
  BY <1>1, InitLogInv, NextLogInv, PTL DEF Spec

(* Every page shows its lines in the order the engine emitted them.        *)
THEOREM LinesInOrder == Spec => []LogInOrder
BY InitLogInv, NextLogInv, PTL DEF Spec, LogInv

-----------------------------------------------------------------------------
(* Type correctness of the console; Bounds is what the model's bounds add. *)
Bounds ==
  /\ clock <= MaxTime /\ emitted <= MaxLines
  /\ restarts \in 0..MaxRestarts
  /\ cut \subseteq Sockets

(* The log channel of Engine never holds more than it can, and every       *)
(* socket's handler stays in one of its states.                            *)
THEOREM TypeCorrect == Spec => []TypeOK
<1>1. Init => Bounds
  BY DEF Init, Bounds
<1>2. SessionInv /\ LogInv /\ Bounds /\ [Next]_vars => Bounds'
  BY DEF SessionInv, LogInv, LogTypes, Bounds, Next, Pass, Login, Restart, EmitLog, OpenLogs, ClosePage,
         Handle, Take, Show, FailToShow, vars, sessionVars, logVars
<1>3. SessionInv /\ LogInv /\ Bounds => TypeOK
  BY DEF SessionInv, SecretOf, LogInv, LogTypes, Bounds, TypeOK
<1> QED
  BY <1>1, <1>2, <1>3, InitSession, NextSession, InitLogInv, NextLogInv, PTL DEF Spec

=============================================================================
